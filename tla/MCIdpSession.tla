---------------------------- MODULE MCIdpSession ----------------------------
(***************************************************************************)
(* Instances of IdpSession for TLC.  Session ids, passwords and requests   *)
(* are interchangeable; users are not, some of them are administrators.    *)
(***************************************************************************)
EXTENDS IdpSession, TLC

Symm == Permutations(Sids) \cup Permutations(Passwords) \cup Permutations(Requests)
=============================================================================
