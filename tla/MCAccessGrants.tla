--------------------------- MODULE MCAccessGrants ---------------------------
(***************************************************************************)
(* Instances of AccessGrants for TLC.  Ids are interchangeable: no action  *)
(* or property orders or names one.                                        *)
(***************************************************************************)
EXTENDS AccessGrants, TLC

Symm == Permutations(Accesses) \cup Permutations(Roles) \cup Permutations(Requests)
=============================================================================
