--------------------------- MODULE MCOAuthTokens ---------------------------
(***************************************************************************)
(* Instances of OAuthTokens for TLC.  Ids are interchangeable: no action   *)
(* or property orders or names one, so permuting them is a sound reduction *)
(* for the safety runs.                                                    *)
(***************************************************************************)
EXTENDS OAuthRequirements, TLC
LOCAL INSTANCE SequencesExt

Symm == Permutations(Tokens) \cup Permutations(Codes) \cup Permutations(Requests)
          \cup Permutations(Systems) \cup Permutations(Uris) \cup Permutations(Roles)

\* Bound of the runs about lineages: the administrators set users, systems and
\* grants up in any way, then leave them alone once the first request is in.
SetUpFirst ==
    UNCHANGED tables \/ (delivered = {} /\ audit = {} /\ req = [r \in Requests |-> Idle])

\* For the fair run, where symmetry would be unsound: new rows take the ids in
\* a fixed order.  Every behaviour left out is one that stays, with its ids
\* permuted, and a handler that may insert is never left without an id.
HandedOutInOrder(rows, order) ==
    \A i \in 1 .. Len(order) - 1 : rows[order[i]] = None => rows[order[i + 1]] = None
SetUpFirstInOrder ==
    /\ SetUpFirst
    /\ HandedOutInOrder(codes', SetToSeq(Codes))
    /\ HandedOutInOrder(tokens', SetToSeq(Tokens))
=============================================================================
