------------------------------ MODULE PageCalls ------------------------------
(***************************************************************************)
(* What the pages of the two browser applications share: React state, and  *)
(* requests to the IdP in flight.  A page shows its state, sends requests  *)
(* and goes on; an answer finds whatever state the page has by then.       *)
(*                                                                         *)
(* calls lists the requests in the order they were sent.  The server       *)
(* handles them in any order, and answers overtake each other: the browser *)
(* opens several connections, and the Node process interleaves handlers.   *)
(* A request, or its answer, may also get lost.  A handler of the server   *)
(* is one action here; its own races are the matter of the other modules.  *)
(*                                                                         *)
(* Reads are requests whose answer the page displays, Writes those after   *)
(* which it reads again.  hist.calm (history) is FALSE from the moment     *)
(* chance decides what is displayed: an answer has overtaken an older one  *)
(* of its kind, one was lost, or what the page displays was changed while  *)
(* a write was under way.  It is TRUE again once the page has asked afresh *)
(* with nothing else under way.                                            *)
(***************************************************************************)
EXTENDS Naturals, Sequences, FiniteSets

CONSTANTS
    MaxCalls,       \* bound: requests of a page in flight
    MaxSecrets,     \* bound: temporary passwords or client secrets drawn
    None

VARIABLES
    view,           \* state of the mounted components
    calls,          \* requests in flight, oldest first
    server,         \* the tables the page is about
    hist            \* history: calm, secrets seen and secrets lost

pageVars == <<view, calls, server, hist>>

Reads  == {"list", "accesses", "roles", "me"}
Writes == {"create", "setActive", "grant", "changeRole", "revoke", "update",
           "createRole", "removeRole", "change", "login", "logout"}

Pending(ops)   == \E i \in DOMAIN calls : calls[i].op \in ops
Without(i)     == SubSeq(calls, 1, i - 1) \o SubSeq(calls, i + 1, Len(calls))
Answered(i, a) == calls' = [calls EXCEPT ![i].answer = a]

\* An older request of the same kind is still to be answered.
Overtakes(i) == \E j \in 1..(i - 1) : calls[j].op = calls[i].op

\* hist after the page has sent a read for what it now displays, with rest the
\* requests that are under way besides.
Asked(rest, current) ==
    IF current /\ \A i \in DOMAIN rest : rest[i].op \notin Reads \cup Writes
    THEN [hist EXCEPT !.calm = TRUE] ELSE hist

\* hist after the display has been set by the answer to request i.
Displayed(i) == [hist EXCEPT !.calm = @ /\ ~Overtakes(i)]

Disturbed == [hist EXCEPT !.calm = FALSE]

\* Requests that draw a secret; the one that goes with answer i, if it gets lost.
Draws      == {"create", "reset", "regenerate"}
SecretOf(i) == IF calls[i].op \in Draws THEN {calls[i].answer} \ {None, 0} ELSE {}
=============================================================================
