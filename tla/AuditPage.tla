------------------------------ MODULE AuditPage ------------------------------
(***************************************************************************)
(* The page Auditoria of the panel and the listing behind it               *)
(* (auditLog.service.ts): a log that only grows, newest first, filtered    *)
(* and cut into pages.  An entry is what the filters can tell of it, its   *)
(* kind; a filter (user, system, action, from, to) is a set of kinds.      *)
(* findMany sends two queries side by side, so the rows and the total may  *)
(* come from two moments.  The choices of user and system are taken as     *)
(* loaded: until they are, or for good if they get lost, these two filters *)
(* offer nothing, and the page says nothing of it.                         *)
(***************************************************************************)
EXTENDS PageCalls

CONSTANTS Kinds, Filters, NoFilter, Limits, FirstLimit,
    MaxEntries      \* bound: entries of the log

Entries == 1..MaxEntries
Queries == [page : 1..MaxEntries, limit : Limits, filter : Filters]

-----------------------------------------------------------------------------
(* auditLog.service.ts and auditLog.repository.ts *)

\* The entries of the first n that pass the filter, and those of a page of them.
Passing(filter, n) == {e \in 1..n : server.log[e] \in filter}
Newer(e, S)        == Cardinality({d \in S : d > e})
PageOf(q, n) ==
    LET S == Passing(q.filter, n) IN
      {e \in S : /\ (q.page - 1) * q.limit <= Newer(e, S)
                 /\ Newer(e, S) < q.page * q.limit}
TotalOf(q, n)         == Cardinality(Passing(q.filter, n))
PagesOf(total, limit) == IF total = 0 THEN 1 ELSE (total + limit - 1) \div limit

\* Any handler of the IdP writes an entry.
WriteEntry(kind) ==
    /\ Len(server.log) < MaxEntries
    /\ server' = [log |-> Append(server.log, kind)]
    /\ UNCHANGED <<view, calls, hist>>

SelectRows(i) ==
    /\ calls[i].rows = None
    /\ calls' = [calls EXCEPT ![i].rows = PageOf(calls[i].query, Len(server.log))]
    /\ UNCHANGED <<view, server, hist>>

CountRows(i) ==
    /\ calls[i].total = None
    /\ calls' = [calls EXCEPT ![i].total = TotalOf(calls[i].query, Len(server.log))]
    /\ UNCHANGED <<view, server, hist>>

-----------------------------------------------------------------------------
(* The page *)

ListCall(q) == [op |-> "list", query |-> q, rows |-> None, total |-> None]

FirstQuery == [page |-> 1, limit |-> FirstLimit, filter |-> NoFilter]

Mounted ==
    [query |-> FirstQuery, rows |-> {}, total |-> 0, pages |-> 0, loading |-> TRUE]

\* asked (history) is the length of the log when the page last asked.
Mounts ==
    {[view |-> Mounted, calls |-> <<ListCall(FirstQuery)>>,
      server |-> [log |-> log], hist |-> [calm |-> TRUE, asked |-> Len(log)]] :
       log \in {<<k>> : k \in Kinds} \cup {<<>>}}

Room == Len(calls) < MaxCalls

\* Mutant of Ask: the new query is sent by the first click only.
AskWhenIdle(q) ==
    /\ view' = [view EXCEPT !.query = q, !.loading = TRUE]
    /\ calls' = IF view.loading THEN calls ELSE Append(calls, ListCall(q))
    /\ hist' = [Asked(calls, TRUE) EXCEPT !.asked = Len(server.log)]
    /\ UNCHANGED server

\* The setters of the query, and fetchLogs, the effect that depends on it.
Ask(q) ==
    /\ view' = [view EXCEPT !.query = q, !.loading = TRUE]
    /\ calls' = Append(calls, ListCall(q))
    /\ hist' = [Asked(calls, TRUE) EXCEPT !.asked = Len(server.log)]
    /\ UNCHANGED server

SetFilter(filter) ==
    /\ Room /\ filter # view.query.filter
    /\ Ask([view.query EXCEPT !.filter = filter, !.page = 1])

RowsShown == ~view.loading /\ view.rows # {}

\* The buttons of PaginationComponent; there are none without rows.
GoToPage(p) ==
    /\ Room /\ RowsShown /\ view.total # 0
    /\ LET page == view.query.page IN
         \/ page # 1 /\ p \in {1, page - 1}
         \/ page # view.pages /\ p \in {view.pages, page + 1}
    /\ p # view.query.page
    /\ Ask([view.query EXCEPT !.page = p])

SetLimit(l) ==
    /\ Room /\ RowsShown /\ view.total # 0 /\ l # view.query.limit
    /\ Ask([view.query EXCEPT !.limit = l, !.page = 1])

ShowList(i) ==
    /\ calls[i].rows # None /\ calls[i].total # None
    /\ view' = [view EXCEPT !.rows = calls[i].rows, !.total = calls[i].total,
                            !.pages = PagesOf(calls[i].total, calls[i].query.limit),
                            !.loading = FALSE]
    /\ calls' = Without(i)
    /\ hist' = Displayed(i)
    /\ UNCHANGED server

\* The request did not arrive, or its answer did not.
Lost(i) ==
    /\ view' = [view EXCEPT !.loading = FALSE]
    /\ calls' = Without(i) /\ hist' = Disturbed
    /\ UNCHANGED server

Next ==
    \/ \E k \in Kinds : WriteEntry(k)
    \/ \E f \in Filters : SetFilter(f)
    \/ \E p \in 1..MaxEntries : GoToPage(p)
    \/ \E l \in Limits : SetLimit(l)
    \/ \E i \in DOMAIN calls :
         SelectRows(i) \/ CountRows(i) \/ ShowList(i) \/ Lost(i)

-----------------------------------------------------------------------------
(* Requirements *)

TypeOK ==
    /\ view \in [query : Queries, rows : SUBSET Entries, total : 0..MaxEntries,
                 pages : 0..MaxEntries, loading : BOOLEAN]
    /\ \A i \in DOMAIN calls :
         /\ calls[i].query \in Queries
         /\ calls[i].rows \in SUBSET Entries \cup {None}
         /\ calls[i].total \in 0..MaxEntries \cup {None}
    /\ server.log \in Seq(Kinds) /\ Len(server.log) <= MaxEntries
    /\ hist.asked \in 0..Len(server.log)

AtRest == calls = <<>>

\* The rows are a page the log had at one moment since the query was put, and
\* the total is of one such moment, though perhaps another.
ShowsTheTable ==
    AtRest /\ hist.calm =>
      /\ \E n \in hist.asked..Len(server.log) : view.rows = PageOf(view.query, n)
      /\ \E n \in hist.asked..Len(server.log) : view.total = TotalOf(view.query, n)

FlagsHaveCalls == view.loading => Pending({"list"})
=============================================================================
