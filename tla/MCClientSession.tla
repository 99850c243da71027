-------------------------- MODULE MCClientSession --------------------------
(***************************************************************************)
(* Instances of ClientSession for TLC; all ids are interchangeable.        *)
(***************************************************************************)
EXTENDS ClientSession, TLC

Symm == Permutations(Sids) \cup Permutations(Logins) \cup Permutations(Tokens)
          \cup Permutations(Requests)
=============================================================================
