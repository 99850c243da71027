------------------------------ MODULE UsersPage ------------------------------
(***************************************************************************)
(* The page Usuarios of the panel (src/admin-frontend/src/pages), with its *)
(* search field, its pages and its modals, and what user.service.ts does   *)
(* with its requests.  One action is one event handler, or one answer with *)
(* the code that was waiting for it and the effects of the new state.      *)
(*                                                                         *)
(* A user is known by e-mail and numbered in the order of createdAt, so a  *)
(* new one has the next number; a temporary password is known by the       *)
(* number it was drawn under, and 0 is any the user has chosen.  Handlers  *)
(* keep the state of the render they were created in: a write carries the *)
(* query its caller had, and refetches with that one.  The modals cover    *)
(* the page, the newest on top.                                            *)
(***************************************************************************)
EXTENDS PageCalls, FiniteSets

CONSTANTS
    Users,          \* 1..n
    Terms, NoTerm,  \* what is typed into the search field, and the empty string
    Found,          \* the users whose name or e-mail contains a term
    Limits,         \* sizes of a page; the smallest is shown first
    FirstLimit

Queries  == [page : 1..Cardinality(Users), limit : Limits, search : Terms]
Rows     == [id : Users, active : BOOLEAN]
Accounts == [active : BOOLEAN, password : 0..MaxSecrets]
Secrets  == [of : Users, value : 1..MaxSecrets]
Totals   == 0..Cardinality(Users)

-----------------------------------------------------------------------------
(* user.service.ts and user.repository.ts *)

Matching(t)    == {u \in Found[t] : server.users[u] # None}
Newer(u, S)    == Cardinality({v \in S : v > u})
OnPage(q, S)   == {u \in S : /\ (q.page - 1) * q.limit <= Newer(u, S)
                             /\ Newer(u, S) < q.page * q.limit}
RowsOf(q)      == {[id |-> u, active |-> server.users[u].active] :
                     u \in OnPage(q, Matching(q.search))}
PagesOf(total, limit) == IF total = 0 THEN 1 ELSE (total + limit - 1) \div limit

ServeList(i) ==
    /\ calls[i].op = "list" /\ calls[i].answer = None
    /\ LET q == calls[i].query IN
         LET total == Cardinality(Matching(q.search)) IN
           Answered(i, [rows |-> RowsOf(q), total |-> total, pages |-> PagesOf(total, q.limit)])
    /\ UNCHANGED <<view, server, hist>>

\* A password is generated, hashed and stored; its plain text is in the answer
\* and nowhere else.
DrawFor(i, account) ==
    /\ server' = [users |-> [server.users EXCEPT ![calls[i].user] =
                               [account EXCEPT !.password = server.drawn + 1]],
                  drawn |-> server.drawn + 1]
    /\ Answered(i, server.drawn + 1)

\* createUser; an e-mail that is taken is refused by findByEmail or, if
\* somebody was faster, by the unique column.
ServeCreate(i) ==
    /\ calls[i].op = "create" /\ calls[i].answer = None
    /\ IF server.users[calls[i].user] = None
       THEN DrawFor(i, [active |-> TRUE, password |-> 0])
       ELSE Answered(i, 0) /\ UNCHANGED server
    /\ UNCHANGED <<view, hist>>

ServeSetActive(i) ==
    /\ calls[i].op = "setActive" /\ calls[i].answer = None
    /\ server' = [server EXCEPT !.users[calls[i].user].active = calls[i].active]
    /\ Answered(i, 0)
    /\ UNCHANGED <<view, hist>>

ServeReset(i) ==
    /\ calls[i].op = "reset" /\ calls[i].answer = None
    /\ DrawFor(i, server.users[calls[i].user])
    /\ UNCHANGED <<view, hist>>

-----------------------------------------------------------------------------
(* The page *)

ListCall(q) == [op |-> "list", query |-> q, answer |-> None]
Write(op, u, active) ==
    [op |-> op, user |-> u, active |-> active, query |-> view.query, answer |-> None]

FirstQuery == [page |-> 1, limit |-> FirstLimit, search |-> NoTerm]

Mounted ==
    [query |-> FirstQuery, typed |-> NoTerm, timer |-> FALSE, rows |-> {}, total |-> 0,
     pages |-> 0, loading |-> TRUE, form |-> FALSE, creating |-> FALSE,
     confirm |-> None, rowAction |-> None, reveal |-> None]

Earlier(u, table) == \A v \in 1..(u - 1) : table[v] # None

\* The page is opened on any table.
Mounts ==
    [view : {Mounted}, calls : {<<ListCall(FirstQuery)>>},
     server : [users : {table \in [Users -> [active : BOOLEAN, password : {0}] \cup {None}] :
                          \A u \in Users : table[u] # None => Earlier(u, table)},
               drawn : {0}],
     hist : {[calm |-> TRUE, seen |-> {}, lost |-> {}]}]

\* Bound: a request may be sent; the timer of the search field keeps a place.
Room == Len(calls) + (IF view.timer THEN 1 ELSE 0) < MaxCalls
\* Bound: a secret is left for every request that may draw one.
SecretsLeft ==
    server.drawn + Cardinality({i \in DOMAIN calls : /\ calls[i].op \in Draws
                                                     /\ calls[i].answer = None}) < MaxSecrets
Open == view.reveal = None /\ view.confirm = None /\ ~view.form

\* fetchUsers, in a render with query q, while rest is under way.
Fetch(q, rest, v) ==
    /\ view' = [v EXCEPT !.loading = TRUE]
    /\ calls' = Append(rest, ListCall(q))

\* setPage, setLimit and setSearch, followed by the effect that depends on them.
ShowQuery(q, v) ==
    IF q = view.query THEN view' = v /\ UNCHANGED <<calls, hist>>
    ELSE /\ Fetch(q, calls, [v EXCEPT !.query = q])
         /\ hist' = IF Pending(Writes) THEN Disturbed ELSE Asked(calls, TRUE)

\* SearchInput: each key press starts the 300 ms anew, unless what stands in
\* the field is what was searched for already.
Type(t) ==
    /\ Open /\ t # view.typed
    /\ Room \/ view.timer
    /\ view' = [view EXCEPT !.typed = t, !.timer = (t # view.query.search)]
    /\ UNCHANGED <<calls, server, hist>>

Searched(t) == [view.query EXCEPT !.search = t, !.page = 1]

\* Mutant of SearchFires: handleSearch ignores a term while a list is loading.
SearchFiresWhenIdle ==
    /\ view.timer
    /\ LET v == [view EXCEPT !.timer = FALSE] IN
         IF view.loading THEN view' = v /\ UNCHANGED <<calls, hist>>
         ELSE ShowQuery(Searched(view.typed), v)
    /\ UNCHANGED server

SearchFires ==
    /\ view.timer
    /\ ShowQuery(Searched(view.typed), [view EXCEPT !.timer = FALSE])
    /\ UNCHANGED server

ClearSearch ==
    /\ Open /\ view.typed # NoTerm
    /\ Room \/ view.timer
    /\ ShowQuery(Searched(NoTerm), [view EXCEPT !.typed = NoTerm, !.timer = FALSE])
    /\ UNCHANGED server

RowsShown == ~view.loading /\ view.rows # {}

\* The buttons of PaginationComponent; there are none without rows.
GoToPage(p) ==
    /\ Open /\ RowsShown /\ view.total # 0 /\ Room
    /\ LET page == view.query.page IN
         \/ page # 1 /\ p \in {1, page - 1}
         \/ page # view.pages /\ p \in {view.pages, page + 1}
    /\ ShowQuery([view.query EXCEPT !.page = p], view)
    /\ UNCHANGED server

SetLimit(l) ==
    /\ Open /\ RowsShown /\ view.total # 0 /\ Room
    /\ l # view.query.limit
    /\ ShowQuery([view.query EXCEPT !.limit = l, !.page = 1], view)
    /\ UNCHANGED server

OpenForm ==
    /\ Open /\ SecretsLeft
    /\ view' = [view EXCEPT !.form = TRUE]
    /\ UNCHANGED <<calls, server, hist>>

CancelForm ==
    /\ view.form /\ view.reveal = None /\ ~view.creating
    /\ view' = [view EXCEPT !.form = FALSE]
    /\ UNCHANGED <<calls, server, hist>>

\* With the e-mail of a user there is, or of the next one.
SubmitForm(u) ==
    /\ Earlier(u, server.users)
    /\ view.form /\ view.reveal = None /\ ~view.creating /\ Room /\ SecretsLeft
    /\ view' = [view EXCEPT !.creating = TRUE]
    /\ calls' = Append(calls, Write("create", u, TRUE))
    /\ UNCHANGED <<server, hist>>

SetActive(row) ==
    /\ Room
    /\ view' = [view EXCEPT !.rowAction = row.id]
    /\ calls' = Append(calls, Write("setActive", row.id, ~row.active))
    /\ UNCHANGED <<server, hist>>

\* The button Desativar or Ativar of a row; the former asks first.
Toggle(row) ==
    /\ Open /\ RowsShown /\ view.rowAction # row.id
    /\ IF row.active
       THEN view' = [view EXCEPT !.confirm = row] /\ UNCHANGED <<calls, server, hist>>
       ELSE SetActive(row)

ConfirmDeactivate ==
    /\ view.confirm # None /\ view.reveal = None /\ ~view.form
    /\ view.rowAction # view.confirm.id
    /\ SetActive(view.confirm)

CancelDeactivate ==
    /\ view.confirm # None /\ view.reveal = None
    /\ view.rowAction # view.confirm.id
    /\ view' = [view EXCEPT !.confirm = None]
    /\ UNCHANGED <<calls, server, hist>>

ResetPassword(row) ==
    /\ Open /\ RowsShown /\ view.rowAction # row.id
    /\ Room /\ SecretsLeft
    /\ view' = [view EXCEPT !.rowAction = row.id]
    /\ calls' = Append(calls, Write("reset", row.id, row.active))
    /\ UNCHANGED <<server, hist>>

CloseReveal ==
    /\ view.reveal # None
    /\ view' = [view EXCEPT !.reveal = None]
    /\ UNCHANGED <<calls, server, hist>>

-----------------------------------------------------------------------------
(* Answers *)

ShowList(i) ==
    /\ calls[i].op = "list" /\ calls[i].answer # None
    /\ view' = [view EXCEPT !.rows = calls[i].answer.rows,
                            !.total = calls[i].answer.total,
                            !.pages = calls[i].answer.pages,
                            !.loading = FALSE]
    /\ calls' = Without(i)
    /\ hist' = Displayed(i)
    /\ UNCHANGED server

\* The label has the e-mail of the answer, which is that of the user the request
\* was about, whatever row has been clicked since.
Reveal(i) == [of |-> calls[i].user, value |-> calls[i].answer]

Created(i) ==
    /\ calls[i].op = "create" /\ calls[i].answer \notin {None, 0}
    /\ Fetch(calls[i].query, Without(i),
             [view EXCEPT !.form = FALSE, !.creating = FALSE, !.reveal = Reveal(i)])
    /\ hist' = [Asked(Without(i), calls[i].query = view.query) EXCEPT
                  !.seen = @ \cup {Reveal(i)}]
    /\ UNCHANGED server

NotCreated(i) ==
    /\ calls[i].op = "create" /\ calls[i].answer = 0
    /\ view' = [view EXCEPT !.creating = FALSE]
    /\ calls' = Without(i)
    /\ UNCHANGED <<server, hist>>

Toggled(i) ==
    /\ calls[i].op = "setActive" /\ calls[i].answer # None
    /\ Fetch(calls[i].query, Without(i),
             [view EXCEPT !.confirm = None, !.rowAction = None])
    /\ hist' = Asked(Without(i), calls[i].query = view.query)
    /\ UNCHANGED server

\* Mutant of PasswordReset: the label names the user of the row clicked last.
PasswordResetByRow(i) ==
    /\ calls[i].op = "reset" /\ calls[i].answer # None
    /\ LET shown == [Reveal(i) EXCEPT !.of = IF view.rowAction = None THEN @ ELSE view.rowAction] IN
         /\ view' = [view EXCEPT !.reveal = shown, !.rowAction = None]
         /\ hist' = [hist EXCEPT !.seen = @ \cup {shown}]
    /\ calls' = Without(i)
    /\ UNCHANGED server

PasswordReset(i) ==
    /\ calls[i].op = "reset" /\ calls[i].answer # None
    /\ view' = [view EXCEPT !.reveal = Reveal(i), !.rowAction = None]
    /\ calls' = Without(i)
    /\ hist' = [hist EXCEPT !.seen = @ \cup {Reveal(i)}]
    /\ UNCHANGED server

\* Mutant of Lost: an error leaves its button as it is.
LostNoFinally(i) ==
    /\ view' = CASE calls[i].op = "list"   -> [view EXCEPT !.loading = FALSE]
                 [] calls[i].op = "create" -> view
                 [] OTHER -> [view EXCEPT !.rowAction = None]
    /\ calls' = Without(i)
    /\ hist' = [Disturbed EXCEPT !.lost = @ \cup SecretOf(i)]
    /\ UNCHANGED server

\* The request did not arrive, or its answer did not.
Lost(i) ==
    /\ view' = CASE calls[i].op = "list"   -> [view EXCEPT !.loading = FALSE]
                 [] calls[i].op = "create" -> [view EXCEPT !.creating = FALSE]
                 [] OTHER -> [view EXCEPT !.rowAction = None]
    /\ calls' = Without(i)
    /\ hist' = [Disturbed EXCEPT !.lost = @ \cup SecretOf(i)]
    /\ UNCHANGED server

Serve(i) ==
    \/ ServeList(i) \/ ServeCreate(i) \/ ServeSetActive(i) \/ ServeReset(i)

Settle(i) ==
    \/ ShowList(i) \/ Created(i) \/ NotCreated(i) \/ Toggled(i) \/ PasswordReset(i)
    \/ Lost(i)

Click ==
    \/ ClearSearch \/ OpenForm \/ CancelForm \/ ConfirmDeactivate \/ CancelDeactivate
    \/ CloseReveal
    \/ \E t \in Terms : Type(t)
    \/ \E p \in 1..Cardinality(Users) : GoToPage(p)
    \/ \E l \in Limits : SetLimit(l)
    \/ \E u \in Users : SubmitForm(u)
    \/ \E row \in view.rows : Toggle(row) \/ ResetPassword(row)

Next ==
    \/ Click \/ SearchFires
    \/ \E i \in DOMAIN calls : Serve(i) \/ Settle(i)

-----------------------------------------------------------------------------
(* Requirements *)

TypeOK ==
    /\ view \in [query : Queries, typed : Terms, timer : BOOLEAN, rows : SUBSET Rows,
                 total : Totals, pages : Totals, loading : BOOLEAN, form : BOOLEAN,
                 creating : BOOLEAN, confirm : Rows \cup {None},
                 rowAction : Users \cup {None}, reveal : Secrets \cup {None}]
    /\ \A i \in DOMAIN calls :
         \/ /\ calls[i].op = "list" /\ calls[i].query \in Queries
            /\ calls[i].answer \in [rows : SUBSET Rows, total : Totals, pages : Totals]
                                 \cup {None}
         \/ /\ calls[i].op \in {"create", "setActive", "reset"}
            /\ calls[i].user \in Users /\ calls[i].query \in Queries
            /\ calls[i].answer \in 0..MaxSecrets \cup {None}
    /\ server.users \in [Users -> Accounts \cup {None}] /\ server.drawn \in 0..MaxSecrets
    /\ hist.seen \subseteq Secrets /\ hist.lost \subseteq 1..MaxSecrets

AtRest == calls = <<>>

ShowsTheTable ==
    AtRest /\ hist.calm =>
      /\ view.rows = RowsOf(view.query)
      /\ view.total = Cardinality(Matching(view.query.search))

FlagsHaveCalls ==
    /\ view.loading => Pending({"list"})
    /\ view.creating => Pending({"create"})
    /\ view.rowAction # None =>
         \E i \in DOMAIN calls : /\ calls[i].op \in {"setActive", "reset"}
                                 /\ calls[i].user = view.rowAction

\* A password in force that was drawn on this page has been on display under the
\* name of its user, unless that user's answer is under way or was lost; and it has
\* never been on display under another name.
SecretsShown ==
    \A u \in Users :
      LET password == server.users[u].password IN
        server.users[u] # None /\ password # 0 =>
          /\ \/ \E i \in DOMAIN calls : /\ calls[i].op \in Draws
                                       /\ calls[i].answer = password /\ calls[i].user = u
             \/ [of |-> u, value |-> password] \in hist.seen
             \/ password \in hist.lost
          /\ \A secret \in hist.seen : secret.value = password => secret.of = u
=============================================================================
