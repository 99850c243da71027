---------------------------- MODULE MCJwksCache ----------------------------
(***************************************************************************)
(* Instances of JwksCache for TLC.  Key pairs and requests are             *)
(* interchangeable, but the run checks liveness, so it does not use that.  *)
(***************************************************************************)
EXTENDS JwksCache, TLC
=============================================================================
