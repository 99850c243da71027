---------------------------- MODULE LoginLimiter ----------------------------
(***************************************************************************)
(* The limit on POST /login: express-rate-limit counts the attempts of one *)
(* IP address in a window, and takes an attempt back when its answer is    *)
(* out and says success (skipSuccessfulRequests).  Attempts overlap: the   *)
(* password is compared between the count and the answer, and by then the  *)
(* window may have ended.  calls holds the attempts that were let through. *)
(***************************************************************************)
EXTENDS PageCalls, Integers

CONSTANTS Limit,
    MaxHits         \* bound: attempts counted in a window

\* wrong (history) counts the wrong passwords answered as such in this window,
\* late those attempts of earlier windows that were let through and unanswered
\* when it began.
Mounts ==
    {[view |-> None, calls |-> <<>>, server |-> [hits |-> 0],
      hist |-> [wrong |-> 0, late |-> 0]]}

\* Mutant of Arrive: the attempt is looked at now and counted with its answer.
ArriveUncounted(right) ==
    /\ server.hits < MaxHits /\ Len(calls) < MaxCalls
    /\ calls' = IF server.hits + 1 > Limit THEN calls
                ELSE Append(calls, [op |-> "login", right |-> right])
    /\ UNCHANGED <<view, server, hist>>

\* The attempt is counted first, and refused if it is one too many.
Arrive(right) ==
    /\ server.hits < MaxHits /\ Len(calls) < MaxCalls
    /\ server' = [server EXCEPT !.hits = @ + 1]
    /\ calls' = IF server.hits + 1 > Limit THEN calls
                ELSE Append(calls, [op |-> "login", right |-> right])
    /\ UNCHANGED <<view, hist>>

AnswerWrong(i) ==
    /\ ~calls[i].right
    /\ hist' = [hist EXCEPT !.wrong = @ + 1]
    /\ calls' = Without(i)
    /\ UNCHANGED <<view, server>>

\* Mutant of AnswerRight: the count goes below nothing.
AnswerRightUnfloored(i) ==
    /\ calls[i].right
    /\ server' = [server EXCEPT !.hits = @ - 1]
    /\ calls' = Without(i)
    /\ UNCHANGED <<view, hist>>

\* The attempt is given back, to whatever window there is by now.
AnswerRight(i) ==
    /\ calls[i].right
    /\ server' = [server EXCEPT !.hits = IF @ > 0 THEN @ - 1 ELSE 0]
    /\ calls' = Without(i)
    /\ UNCHANGED <<view, hist>>

\* The browser hangs up before the answer is out: it stays counted.
HangUp(i) ==
    /\ calls' = Without(i)
    /\ UNCHANGED <<view, server, hist>>

WindowEnds ==
    /\ server.hits > 0
    /\ server' = [server EXCEPT !.hits = 0]
    /\ hist' = [wrong |-> 0, late |-> Len(calls)]
    /\ UNCHANGED <<view, calls>>

Next ==
    \/ \E right \in BOOLEAN : Arrive(right)
    \/ \E i \in DOMAIN calls : AnswerWrong(i) \/ AnswerRight(i) \/ HangUp(i)
    \/ WindowEnds

-----------------------------------------------------------------------------
(* Requirements *)

TypeOK ==
    /\ server.hits \in 0..MaxHits /\ hist.wrong \in Nat /\ hist.late \in 0..MaxCalls
    /\ \A i \in DOMAIN calls : calls[i].right \in BOOLEAN

\* "o limite e sobre tentativas ERRADAS seguidas": no window tells of more wrong
\* passwords than the limit, but for attempts it took over from the last one.
WrongAttemptsBounded == hist.wrong <= Limit + hist.late
=============================================================================
