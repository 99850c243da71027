--------------------------- MODULE WebAppsProofs ---------------------------
(***************************************************************************)
(* Proofs about the two browser applications as WebApps composes them: the *)
(* limit on wrong passwords, the way back to /authorize, the flags of all  *)
(* pages, the secrets shown, and what the panel shows when it is at rest.  *)
(* They hold for any limit and any number of requests under way.           *)
(*                                                                         *)
(* Login pages and limiter have an invariant here (SignInInv), the panel   *)
(* has one per page (PagesInv).  Sistemas and Usuarios have theirs in      *)
(* PagesProofs, for any constants; the lemmas named after a tab of WebApps *)
(* (SystemsServes, SearchSettles, ...) say that a step of the tab is one   *)
(* of the page in PagesProofs, definition by definition.                   *)
(***************************************************************************)
EXTENDS WebApps, FiniteSetTheorems, TLAPS

Sys == INSTANCE PagesProofs WITH
    Slugs <- {"farol", "rh"}, Contents <- {1}, Roles <- {"gerente"},
    MaxCalls <- PageRequests, MaxSecrets <- 1,
    Users <- 1..2, Terms <- SearchTerms, NoTerm <- "", Limits <- {1, 2}, FirstLimit <- 1,
    Found <- [t \in SearchTerms |-> IF t = "" THEN 1..2 ELSE {1}], UserSecrets <- 0

\* None, a value like no other for TLC, is neither a number nor an account of the
\* panel nor a record.
NoneIsNoValue ==
    /\ None \notin Nat \cup {"ti", "comum"}
    /\ {"contents", "of", "password"} \cap DOMAIN None = {}
-----------------------------------------------------------------------------
(* The limit on wrong passwords *)

Attempts == [op : {"login"}, right : BOOLEAN]

\* The attempts let through and the wrong ones answered are no more than the
\* limit, nor than what has been counted, but for those taken over.
LimiterInv ==
    /\ calls \in Seq(Attempts)
    /\ server \in [hits : Nat] /\ hist \in [wrong : Nat, late : Nat]
    /\ hist.wrong + Len(calls) <= server.hits + hist.late
    /\ hist.wrong + Len(calls) <= LoginLimit + hist.late

LEMMA LimiterInit ==
    ASSUME NEW m \in LimiterTab!Mounts,
           view = m.view, calls = m.calls, server = m.server, hist = m.hist
    PROVE  LimiterInv
<1>1. /\ calls = <<>> /\ server = [hits |-> 0] /\ hist = [wrong |-> 0, late |-> 0]
  BY DEF LimiterTab!Mounts
<1>2. QED
  BY <1>1, LimitAssumption DEF LimiterInv

LEMMA LimiterStep == ASSUME LimiterInv, LimiterTab!Next PROVE LimiterInv'
<1> USE LimitAssumption DEF LimiterInv
<1>1. ASSUME NEW right \in BOOLEAN, LimiterTab!Arrive(right) PROVE LimiterInv'
  <2>1. [op |-> "login", right |-> right] \in Attempts
    BY DEF Attempts
  <2>2. server' = [hits |-> server.hits + 1] /\ UNCHANGED hist
    BY <1>1 DEF LimiterTab!Arrive
  <2>3. CASE server.hits + 1 > LoginLimit
    BY <1>1, <2>2, <2>3 DEF LimiterTab!Arrive
  <2>4. CASE ~(server.hits + 1 > LoginLimit)
    <3>1. calls' = Append(calls, [op |-> "login", right |-> right])
      BY <1>1, <2>4 DEF LimiterTab!Arrive
    <3>2. calls' \in Seq(Attempts) /\ Len(calls') = Len(calls) + 1
      BY <2>1, <3>1
    <3>3. QED
      BY <2>2, <2>4, <3>2
  <2>5. QED
    BY <2>3, <2>4
<1>2. ASSUME NEW i \in DOMAIN calls,
             LimiterTab!AnswerWrong(i) \/ LimiterTab!AnswerRight(i) \/ LimiterTab!HangUp(i)
      PROVE  LimiterInv'
  <2>1. calls' = Sys!Rest(calls, i)
    BY <1>2 DEF LimiterTab!AnswerWrong, LimiterTab!AnswerRight, LimiterTab!HangUp,
                LimiterTab!Without, Sys!Rest
  <2>2. calls' \in Seq(Attempts) /\ Len(calls') = Len(calls) - 1 /\ Len(calls) \in Nat
    BY <2>1, Sys!RestHasTheOthers
  <2>3. CASE LimiterTab!AnswerWrong(i)
    <3>1. hist' = [wrong |-> hist.wrong + 1, late |-> hist.late] /\ UNCHANGED server
      BY <2>3 DEF LimiterTab!AnswerWrong
    <3>2. QED
      BY <2>2, <3>1
  <2>4. CASE LimiterTab!AnswerRight(i)
    <3>1. /\ server' = [hits |-> IF server.hits > 0 THEN server.hits - 1 ELSE 0]
          /\ UNCHANGED hist
      BY <2>4 DEF LimiterTab!AnswerRight
    <3>2. QED
      BY <2>2, <3>1
  <2>5. CASE LimiterTab!HangUp(i)
    BY <2>2, <2>5 DEF LimiterTab!HangUp
  <2>6. QED
    BY <1>2, <2>3, <2>4, <2>5
<1>3. ASSUME LimiterTab!WindowEnds PROVE LimiterInv'
  <2>1. /\ server' = [hits |-> 0] /\ hist' = [wrong |-> 0, late |-> Len(calls)]
        /\ UNCHANGED calls /\ Len(calls) \in Nat
    BY <1>3 DEF LimiterTab!WindowEnds
  <2>2. QED
    BY <2>1
<1>4. QED
  BY <1>1, <1>2, <1>3 DEF LimiterTab!Next

-----------------------------------------------------------------------------
(* The way back to /authorize *)

Answers    == [ok : BOOLEAN, must : BOOLEAN]
LoginOps   == {"login", "change", "me", "logout"}
LoginCalls == [op : LoginOps, returnTo : BOOLEAN, live : BOOLEAN, answer : Answers \cup {None}]
LoginViews == [path : LoginTab!Pages, returnTo : BOOLEAN, submitting : BOOLEAN,
               loading : BOOLEAN, menu : BOOLEAN, leaving : BOOLEAN]
LoginServers == [session : BOOLEAN, must : BOOLEAN]

\* The requests that a page sends, and waits for if it is still there.
OfPage(op) == CASE op = "login" -> {"login"} [] op = "change" -> {"change"}
                [] OTHER -> {"home"}

\* Whoever sent a request, sent it for the login that is in progress, the menu
\* after one without a way back; only the page on display has handlers that can
\* reach its form.
Sent(c, path, goal) ==
    /\ c.returnTo = goal
    /\ c.op \in {"me", "logout"} => ~goal
    /\ c.live => path \in OfPage(c.op)

\* A flag of the form is up while its request is under way.
Waited(v, c) ==
    /\ v.submitting => \E i \in DOMAIN c : c[i].op \in {"login", "change"} /\ c[i].live
    /\ v.loading => \E i \in DOMAIN c : c[i].op = "me" /\ c[i].live
    /\ v.leaving => \E i \in DOMAIN c : c[i].op = "logout" /\ c[i].live

LoginOk(v, c, s, h) ==
    /\ v \in LoginViews /\ c \in Seq(LoginCalls) /\ s \in LoginServers /\ h \in [goal : BOOLEAN]
    /\ \A i \in DOMAIN c : Sent(c[i], v.path, h.goal)
    /\ v.path \in {"login", "change", "home"} => v.returnTo = h.goal
    /\ v.path = "home" => ~h.goal
    /\ v.path \in {"authorize", "system"} => h.goal
    /\ v.path \in {"authorize", "system", "erro"} => c = <<>>
    /\ v.submitting => v.path \in {"login", "change"}
    /\ v.loading \/ v.leaving => v.path = "home"
    /\ Waited(v, c)
LoginInv == LoginOk(view, calls, server, hist)

\* A page that was just mounted or loaded.
LEMMA FreshPage ==
    ASSUME NEW path \in LoginTab!Pages, NEW returnTo \in BOOLEAN, NEW goal \in BOOLEAN,
           NEW s \in LoginServers,
           path \in {"login", "change", "home"} => returnTo = goal,
           path = "home" => ~goal,
           path \in {"authorize", "system"} => goal
    PROVE  LoginOk(LoginTab!Fresh(path, returnTo), LoginTab!FreshCalls(path), s,
                   [goal |-> goal])
<1> DEFINE v == LoginTab!Fresh(path, returnTo)
           c == LoginTab!FreshCalls(path)
<1>1. v \in LoginViews /\ v.path = path /\ v.returnTo = returnTo
  BY DEF LoginTab!Fresh, LoginViews
<1>2. ~v.submitting /\ ~v.leaving /\ (v.loading <=> path = "home")
  BY DEF LoginTab!Fresh
<1>3. CASE path # "home"
  <2>1. c = <<>> /\ c \in Seq(LoginCalls)
    BY <1>3 DEF LoginTab!FreshCalls
  <2> HIDE DEF v, c
  <2>2. DOMAIN c = {}
    BY <2>1
  <2>3. LoginOk(v, c, s, [goal |-> goal])
    BY <1>1, <1>2, <1>3, <2>1, <2>2 DEF LoginOk, Waited
  <2>4. QED
    BY <2>3 DEF v, c
<1>4. CASE path = "home"
  <2>1. c = <<LoginTab!HomeCall>> /\ LoginTab!HomeCall \in LoginCalls
    BY <1>4 DEF LoginTab!FreshCalls, LoginTab!HomeCall, LoginCalls, LoginOps
  <2> HIDE DEF v, c
  <2>2. c \in Seq(LoginCalls) /\ DOMAIN c = {1} /\ c[1] = LoginTab!HomeCall
    BY <2>1
  <2>3. Sent(c[1], "home", FALSE) /\ c[1].op = "me" /\ c[1].live
    BY <2>2 DEF Sent, OfPage, LoginTab!HomeCall
  <2>4. LoginOk(v, c, s, [goal |-> goal])
    BY <1>1, <1>2, <1>4, <2>2, <2>3 DEF LoginOk, Waited
  <2>5. QED
    BY <2>4 DEF v, c
<1>5. QED
  BY <1>3, <1>4

LEMMA LoginInit ==
    ASSUME NEW m \in LoginTab!Mounts,
           view = m.view, calls = m.calls, server = m.server, hist = m.hist
    PROVE  LoginInv
<1>1. PICK start \in LoginTab!Starts :
        m = [view |-> LoginTab!Fresh(start.path, start.returnTo),
             calls |-> LoginTab!FreshCalls(start.path),
             server |-> [session |-> start.session, must |-> start.must],
             hist |-> [goal |-> start.returnTo \/ start.path = "authorize"]]
  BY DEF LoginTab!Mounts
<1>2. /\ start.path \in LoginTab!Pages \ {"system"} /\ start.returnTo \in BOOLEAN
      /\ [session |-> start.session, must |-> start.must] \in LoginServers
      /\ start.returnTo => start.path \in {"login", "change"}
  BY DEF LoginTab!Starts, LoginServers
<1> DEFINE goal == start.returnTo \/ start.path = "authorize"
<1>3. /\ goal \in BOOLEAN
      /\ start.path \in {"login", "change", "home"} => start.returnTo = goal
      /\ start.path = "home" => ~goal
      /\ start.path \in {"authorize", "system"} => goal
  BY <1>2
<1>4. /\ view = LoginTab!Fresh(start.path, start.returnTo)
      /\ calls = LoginTab!FreshCalls(start.path)
      /\ server = [session |-> start.session, must |-> start.must]
      /\ hist = [goal |-> goal]
  BY <1>1
<1> HIDE DEF goal
<1>5. QED
  BY <1>2, <1>3, <1>4, FreshPage DEF LoginInv

\* A page load ends what was under way.
LEMMA LoadsFresh ==
    ASSUME LoginInv, NEW path \in LoginTab!Pages, NEW returnTo \in BOOLEAN,
           NEW goal \in BOOLEAN, LoginTab!Load(path, returnTo, goal),
           path \in {"login", "change", "home"} => returnTo = goal,
           path = "home" => ~goal,
           path \in {"authorize", "system"} => goal
    PROVE  LoginInv'
<1>1. /\ view' = LoginTab!Fresh(path, returnTo) /\ calls' = LoginTab!FreshCalls(path)
      /\ server' \in LoginServers /\ hist' = [goal |-> goal]
  BY DEF LoginTab!Load, LoginInv, LoginOk
<1>2. QED
  BY <1>1, FreshPage DEF LoginInv

\* One request less, and the page it belonged to as it was or without its form.
LEMMA OneLess ==
    ASSUME LoginInv, NEW i \in DOMAIN calls
    PROVE  /\ Sys!Rest(calls, i) \in Seq(LoginCalls)
           /\ \A j \in DOMAIN Sys!Rest(calls, i) :
                \E k \in DOMAIN calls : Sys!Rest(calls, i)[j] = calls[k]
           /\ \A k \in DOMAIN calls : k # i =>
                \E j \in DOMAIN Sys!Rest(calls, i) : Sys!Rest(calls, i)[j] = calls[k]
           /\ \A j \in DOMAIN Sys!Rest(calls, i) :
                Sent(Sys!Rest(calls, i)[j], view.path, hist.goal)
           /\ Sys!Rest(calls, i) # <<>> => calls # <<>>
<1>1. calls \in Seq(LoginCalls) /\ \A j \in DOMAIN calls : Sent(calls[j], view.path, hist.goal)
  BY DEF LoginInv, LoginOk
<1>2. /\ Sys!Rest(calls, i) \in Seq(LoginCalls)
      /\ \A j \in DOMAIN Sys!Rest(calls, i) :
           \E k \in DOMAIN calls : Sys!Rest(calls, i)[j] = calls[k]
      /\ \A k \in DOMAIN calls : k # i =>
           \E j \in DOMAIN Sys!Rest(calls, i) : Sys!Rest(calls, i)[j] = calls[k]
  BY <1>1, Sys!RestHasTheOthers
<1>3. calls # <<>>
  BY <1>1
<1>4. \A j \in DOMAIN Sys!Rest(calls, i) : Sent(Sys!Rest(calls, i)[j], view.path, hist.goal)
  BY <1>1, <1>2
<1>5. QED
  BY <1>2, <1>3, <1>4

\* The requests of a page that is mounted come after those still under way.
LEMMA Mounted ==
    ASSUME NEW left \in Seq(LoginCalls), NEW path, NEW goal \in BOOLEAN,
           path = "home" => ~goal,
           \A j \in DOMAIN left : Sent(left[j], path, goal)
    PROVE  LET c == left \o LoginTab!FreshCalls(path)
           IN  /\ c \in Seq(LoginCalls)
               /\ \A j \in DOMAIN c : Sent(c[j], path, goal)
               /\ path = "home" => \E j \in DOMAIN c : c[j].op = "me" /\ c[j].live
<1> DEFINE c == left \o LoginTab!FreshCalls(path)
<1>1. CASE path # "home"
  <2>1. LoginTab!FreshCalls(path) = <<>>
    BY <1>1 DEF LoginTab!FreshCalls
  <2>2. c = left
    BY <2>1
  <2>3. QED
    BY <1>1, <2>2
<1>2. CASE path = "home"
  <2> DEFINE x == LoginTab!HomeCall
  <2>1. /\ LoginTab!FreshCalls(path) = <<x>> /\ x \in LoginCalls
        /\ x.op = "me" /\ x.live /\ Sent(x, path, goal)
    BY <1>2 DEF LoginTab!FreshCalls, LoginTab!HomeCall, LoginCalls, LoginOps, Sent, OfPage
  <2> HIDE DEF x
  <2>2. c = left \o <<x>>
    BY <2>1
  <2> HIDE DEF c
  <2>3. /\ c \in Seq(LoginCalls) /\ DOMAIN c = 1..(Len(left) + 1)
        /\ DOMAIN left = 1..Len(left) /\ Len(left) \in Nat
        /\ \A j \in 1..Len(left) : c[j] = left[j]
        /\ c[Len(left) + 1] = x
    BY <2>1, <2>2, Sys!OneMore
  <2>4. ASSUME NEW j \in DOMAIN c PROVE Sent(c[j], path, goal)
    <3>1. j \in DOMAIN left \/ j = Len(left) + 1
      BY <2>3
    <3>2. QED
      BY <2>1, <2>3, <3>1
  <2>5. \E j \in DOMAIN c : c[j].op = "me" /\ c[j].live
    <3>1. Len(left) + 1 \in DOMAIN c
      BY <2>3
    <3>2. QED
      BY <2>1, <2>3, <3>1
  <2>6. QED
    BY <2>3, <2>4, <2>5 DEF c
<1>3. QED
  BY <1>1, <1>2

\* The requests of a page that is left do not find its form again.
LEMMA Unmounted ==
    ASSUME NEW rest \in Seq(LoginCalls), NEW path, NEW goal,
           \A j \in DOMAIN rest : /\ rest[j].returnTo = goal
                                  /\ rest[j].op \in {"me", "logout"} => ~goal
    PROVE  LET left == [j \in DOMAIN rest |-> [rest[j] EXCEPT !.live = FALSE]]
           IN  left \in Seq(LoginCalls) /\ \A j \in DOMAIN left : Sent(left[j], path, goal)
<1> DEFINE left == [j \in DOMAIN rest |-> [rest[j] EXCEPT !.live = FALSE]]
<1>1. \A j \in DOMAIN rest : /\ [rest[j] EXCEPT !.live = FALSE] \in LoginCalls
                             /\ [rest[j] EXCEPT !.live = FALSE].returnTo = rest[j].returnTo
                             /\ [rest[j] EXCEPT !.live = FALSE].op = rest[j].op
                             /\ ~[rest[j] EXCEPT !.live = FALSE].live
  <2>1. \A j \in DOMAIN rest : rest[j] \in LoginCalls
    OBVIOUS
  <2>2. QED
    BY <2>1 DEF LoginCalls
<1>2. DOMAIN rest = 1..Len(rest) /\ Len(rest) \in Nat
  OBVIOUS
<1>3. left \in [1..Len(rest) -> LoginCalls]
  BY <1>1, <1>2
<1>4. left \in Seq(LoginCalls)
  BY <1>2, <1>3
<1>5. \A j \in DOMAIN left : Sent(left[j], path, goal)
  BY <1>1, <1>2 DEF Sent
<1>6. QED
  BY <1>4, <1>5

\* navigate(), once its handler is done.
LEMMA NavigatesOn ==
    ASSUME LoginInv, NEW i \in DOMAIN calls, NEW path \in {"login", "change", "home"},
           NEW returnTo \in BOOLEAN, returnTo = hist.goal, path = "home" => ~returnTo,
           calls[i].live => view.path # path,
           LoginTab!Navigate(path, returnTo, Sys!Rest(calls, i)), UNCHANGED <<server, hist>>
    PROVE  LoginInv'
<1>1. /\ view \in LoginViews /\ server \in LoginServers /\ hist \in [goal : BOOLEAN]
      /\ calls \in Seq(LoginCalls)
  BY DEF LoginInv, LoginOk
<1> DEFINE rest == Sys!Rest(calls, i)
<1>2. /\ rest \in Seq(LoginCalls)
      /\ \A k \in DOMAIN calls : k # i => \E j \in DOMAIN rest : rest[j] = calls[k]
      /\ \A j \in DOMAIN rest : Sent(rest[j], view.path, hist.goal)
      /\ rest # <<>> => calls # <<>>
  BY OneLess
<1> HIDE DEF rest
<1>3. CASE path = view.path
  <2>1. view' = [view EXCEPT !.returnTo = returnTo] /\ calls' = rest
    BY <1>3 DEF LoginTab!Navigate, rest
  <2>2. /\ view' \in LoginViews /\ view'.path = path /\ view'.returnTo = returnTo
        /\ view'.submitting = view.submitting /\ view'.loading = view.loading
        /\ view'.leaving = view.leaving
    BY <1>1, <1>3, <2>1 DEF LoginViews
  <2>3. ASSUME NEW Of, \E k \in DOMAIN calls : calls[k].op \in Of /\ calls[k].live
        PROVE  \E j \in DOMAIN calls' : calls'[j].op \in Of /\ calls'[j].live
    BY <1>3, <1>2, <2>1, <2>3
  <2>4. Waited(view, calls)
    BY DEF LoginInv, LoginOk
  <2>5. /\ (\E k \in DOMAIN calls : calls[k].op = "me" /\ calls[k].live) =>
             (\E j \in DOMAIN calls' : calls'[j].op = "me" /\ calls'[j].live)
        /\ (\E k \in DOMAIN calls : calls[k].op = "logout" /\ calls[k].live) =>
             (\E j \in DOMAIN calls' : calls'[j].op = "logout" /\ calls'[j].live)
    BY <1>3, <1>2, <2>1
  <2>6. Waited(view', calls')
    BY <2>2, <2>3, <2>4, <2>5 DEF Waited
  <2>7. QED
    BY <1>1, <1>3, <1>2, <2>1, <2>2, <2>6 DEF LoginInv, LoginOk
<1>4. CASE path # view.path
  <2> DEFINE left == [j \in DOMAIN rest |-> [rest[j] EXCEPT !.live = FALSE]]
  <2>1. /\ view' = LoginTab!Fresh(path, returnTo)
        /\ calls' = left \o LoginTab!FreshCalls(path)
    BY <1>4 DEF LoginTab!Navigate, rest
  <2>2. \A j \in DOMAIN rest : /\ rest[j].returnTo = hist.goal
                               /\ rest[j].op \in {"me", "logout"} => ~hist.goal
    BY <1>2 DEF Sent
  <2>3. left \in Seq(LoginCalls) /\ \A j \in DOMAIN left : Sent(left[j], path, hist.goal)
    BY <1>2, <2>2, Unmounted
  <2> HIDE DEF left
  <2>4. /\ calls' \in Seq(LoginCalls)
        /\ \A j \in DOMAIN calls' : Sent(calls'[j], path, hist.goal)
        /\ path = "home" => \E j \in DOMAIN calls' : calls'[j].op = "me" /\ calls'[j].live
    BY <1>1, <2>3, <2>1, Mounted
  <2>5. /\ view' \in LoginViews /\ view'.path = path /\ view'.returnTo = returnTo
        /\ ~view'.submitting /\ ~view'.leaving /\ (view'.loading <=> path = "home")
    BY <2>1 DEF LoginTab!Fresh, LoginViews, LoginTab!Pages
  <2>6. Waited(view', calls')
    BY <2>4, <2>5 DEF Waited
  <2>7. /\ server' = server /\ hist' = hist
        /\ \A j \in DOMAIN calls' : Sent(calls'[j], view'.path, hist'.goal)
    BY <2>4, <2>5
  <2>8. LoginOk(view', calls', server, hist)
    BY <1>1, <2>4, <2>5, <2>6, <2>7 DEF LoginOk
  <2>9. QED
    BY <2>7, <2>8 DEF LoginInv
<1>5. QED
  BY <1>3, <1>4

\* Requests keep everything but their answers.
LEMMA AnswersKeep ==
    ASSUME LoginInv, NEW i \in DOMAIN calls, NEW a \in Answers, LoginTab!Answered(i, a),
           view' = view, hist' = hist, server' \in LoginServers
    PROVE  LoginInv'
<1>1. calls \in Seq(LoginCalls) /\ \A j \in DOMAIN calls : Sent(calls[j], view.path, hist.goal)
  BY DEF LoginInv, LoginOk
<1>2. calls' = [calls EXCEPT ![i] = [calls[i] EXCEPT !.answer = a]]
  BY DEF LoginTab!Answered
<1>3. calls[i] \in LoginCalls
  BY <1>1
<1>4. /\ [calls[i] EXCEPT !.answer = a] \in LoginCalls
      /\ [calls[i] EXCEPT !.answer = a].op = calls[i].op
      /\ [calls[i] EXCEPT !.answer = a].live = calls[i].live
      /\ [calls[i] EXCEPT !.answer = a].returnTo = calls[i].returnTo
  BY <1>3 DEF LoginCalls
<1>5. calls' \in Seq(LoginCalls) /\ DOMAIN calls' = DOMAIN calls
  BY <1>1, <1>2, <1>4
<1>6. \A j \in DOMAIN calls : /\ calls'[j].op = calls[j].op /\ calls'[j].live = calls[j].live
                              /\ calls'[j].returnTo = calls[j].returnTo
  BY <1>2, <1>4
<1>7. \A j \in DOMAIN calls' : Sent(calls'[j], view.path, hist.goal)
  BY <1>1, <1>5, <1>6 DEF Sent, OfPage
<1>8. Waited(view, calls')
  <2>1. Waited(view, calls)
    BY DEF LoginInv, LoginOk
  <2>2. QED
    BY <1>5, <1>6, <2>1 DEF Waited
<1>9. calls = <<>> => calls' = <<>>
  BY <1>1
<1>10. LoginOk(view, calls', server', hist)
  BY <1>5, <1>7, <1>8, <1>9 DEF LoginInv, LoginOk
<1>11. QED
  BY <1>10 DEF LoginInv

LEMMA ServesKeep ==
    ASSUME LoginInv, NEW i \in DOMAIN calls,
           \/ LoginTab!ServeLogin(i) \/ LoginTab!ServeChange(i)
           \/ LoginTab!ServeMe(i) \/ LoginTab!ServeLogout(i)
    PROVE  LoginInv'
<1>1. server \in LoginServers
  BY DEF LoginInv, LoginOk
<1>2. \A ok, must \in BOOLEAN : [ok |-> ok, must |-> must] \in Answers
  BY DEF Answers
<1>3. view' = view /\ hist' = hist /\ server' \in LoginServers
  BY <1>1 DEF LoginTab!ServeLogin, LoginTab!ServeChange, LoginTab!ServeMe,
              LoginTab!ServeLogout, LoginServers
<1>4. \E ok, must \in BOOLEAN : LoginTab!Answered(i, [ok |-> ok, must |-> must])
  <2>1. server.session \in BOOLEAN /\ server.must \in BOOLEAN
    BY <1>1 DEF LoginServers
  <2>2. QED
    BY <2>1 DEF LoginTab!ServeLogin, LoginTab!ServeChange, LoginTab!ServeMe,
                LoginTab!ServeLogout
<1>5. QED
  BY <1>2, <1>3, <1>4, AnswersKeep

\* The request of a form, or of the button Sair, is the last one under way.
LEMMA SubmitKeeps ==
    ASSUME LoginInv, LoginTab!Submit \/ LoginTab!Logout
    PROVE  LoginInv'
<1>1. PICK op \in {"login", "change", "logout"} :
        /\ calls' = Append(calls, LoginTab!Call(op)) /\ view.path \in OfPage(op)
        /\ UNCHANGED <<server, hist>>
        /\ view' = IF op = "logout" THEN [view EXCEPT !.leaving = TRUE]
                                    ELSE [view EXCEPT !.submitting = TRUE]
  BY DEF LoginTab!Submit, LoginTab!Logout, OfPage
<1>2. /\ view \in LoginViews /\ calls \in Seq(LoginCalls) /\ Waited(view, calls)
      /\ \A j \in DOMAIN calls : Sent(calls[j], view.path, hist.goal)
      /\ view.path \in {"login", "change", "home"} => view.returnTo = hist.goal
      /\ view.path = "home" => ~hist.goal
  BY DEF LoginInv, LoginOk
<1>3. /\ view' \in LoginViews /\ view'.path = view.path /\ view'.returnTo = view.returnTo
      /\ view'.loading = view.loading
      /\ view'.submitting => view.submitting \/ op \in {"login", "change"}
      /\ view'.leaving => view.leaving \/ op = "logout"
  BY <1>1, <1>2 DEF LoginViews
<1>4. view.path \in {"login", "change", "home"} /\ (op = "logout" => view.path = "home")
      /\ (op \in {"login", "change"} => view.path \in {"login", "change"})
  BY <1>1 DEF OfPage
<1> DEFINE x == LoginTab!Call(op)
<1>5. x \in LoginCalls /\ x.op = op /\ x.live /\ x.returnTo = view.returnTo
  BY <1>2 DEF LoginTab!Call, LoginCalls, LoginOps, LoginViews
<1>6. Sent(x, view.path, hist.goal)
  BY <1>1, <1>2, <1>4, <1>5 DEF Sent
<1> HIDE DEF x
<1>7. /\ calls' \in Seq(LoginCalls) /\ DOMAIN calls' = 1..(Len(calls) + 1)
      /\ DOMAIN calls = 1..Len(calls) /\ Len(calls) \in Nat
      /\ \A j \in 1..Len(calls) : calls'[j] = calls[j]
      /\ calls'[Len(calls) + 1] = x
  <2>1. calls' = Append(calls, x)
    BY <1>1 DEF x
  <2>2. QED
    BY <1>2, <1>5, <2>1, Sys!OneMore
<1>8. \A j \in DOMAIN calls' : Sent(calls'[j], view.path, hist.goal)
  <2>1. \A j \in DOMAIN calls' : j \in DOMAIN calls \/ j = Len(calls) + 1
    BY <1>7
  <2>2. QED
    BY <1>2, <1>6, <1>7, <2>1
<1>9. Waited(view', calls')
  <2>1. Len(calls) + 1 \in DOMAIN calls' /\ \A j \in DOMAIN calls : j \in DOMAIN calls'
    BY <1>7
  <2>2. QED
    BY <1>2, <1>3, <1>5, <1>7, <2>1 DEF Waited
<1>10. LoginOk(view', calls', server, hist)
  BY <1>2, <1>3, <1>4, <1>7, <1>8, <1>9 DEF LoginInv, LoginOk
<1>11. QED
  BY <1>1, <1>10 DEF LoginInv

\* Everything that leaves the application or enters it anew.
LEMMA LoadsKeep ==
    ASSUME LoginInv,
           \/ LoginTab!Authorize \/ LoginTab!AuthorizeFails \/ LoginTab!BackToLogin
           \/ LoginTab!ComeBack \/ LoginTab!OpenSystem
    PROVE  LoginInv'
<1>1. {"login", "change", "home", "erro", "authorize", "system"} = LoginTab!Pages
  BY DEF LoginTab!Pages
<1>2. PICK path \in {"login", "change", "home", "erro", "authorize", "system"},
           returnTo \in BOOLEAN, goal \in BOOLEAN :
        /\ LoginTab!Load(path, returnTo, goal)
        /\ path \in {"login", "change", "home"} => returnTo = goal
        /\ path = "home" => ~goal
        /\ path \in {"authorize", "system"} => goal
  BY DEF LoginTab!Authorize, LoginTab!AuthorizeFails, LoginTab!BackToLogin,
         LoginTab!ComeBack, LoginTab!OpenSystem
<1>3. QED
  BY <1>1, <1>2, LoadsFresh

LEMMA ElsewhereKeeps == ASSUME LoginInv, LoginTab!Elsewhere PROVE LoginInv'
<1>1. server' \in LoginServers /\ UNCHANGED <<view, calls, hist>>
  BY DEF LoginTab!Elsewhere, LoginInv, LoginOk, LoginServers
<1>2. QED
  BY <1>1 DEF LoginInv, LoginOk

LEMMA WithoutIsRest ==
    ASSUME NEW i PROVE LoginTab!Without(i) = Sys!Rest(calls, i)
BY DEF LoginTab!Without, Sys!Rest

\* The login is over: a request that knows the way back was sent for a login
\* that has one.
LEMMA GoesOn ==
    ASSUME LoginInv, NEW i \in DOMAIN calls, calls[i].op \in {"login", "change"},
           LoginTab!GoOn(i)
    PROVE  LoginInv'
<1>1. /\ calls[i] \in LoginCalls /\ Sent(calls[i], view.path, hist.goal)
      /\ hist \in [goal : BOOLEAN]
  BY DEF LoginInv, LoginOk
<1>2. hist.goal \in BOOLEAN /\ calls[i].returnTo = hist.goal
  BY <1>1 DEF Sent
<1>3. CASE calls[i].returnTo
  <2>1. LoginTab!Load("authorize", FALSE, hist.goal)
    BY <1>3 DEF LoginTab!GoOn
  <2>2. QED
    BY <1>2, <1>3, <2>1, LoadsFresh DEF LoginTab!Pages
<1>4. CASE ~calls[i].returnTo
  <2>1. /\ LoginTab!Navigate("home", FALSE, Sys!Rest(calls, i)) /\ UNCHANGED <<server, hist>>
    BY <1>4, WithoutIsRest DEF LoginTab!GoOn
  <2>2. calls[i].live => view.path # "home"
    BY <1>1 DEF Sent, OfPage
  <2>3. hist.goal = FALSE
    BY <1>2, <1>4
  <2>4. QED
    BY <2>1, <2>2, <2>3, NavigatesOn
<1>5. QED
  BY <1>3, <1>4

\* The answer takes one request out and leaves the page there is.
LEMMA SettlesHere ==
    ASSUME LoginInv, NEW i \in DOMAIN calls, calls' = Sys!Rest(calls, i),
           UNCHANGED <<server, hist>>, view' \in LoginViews,
           view'.path = view.path, view'.returnTo = view.returnTo,
           view'.submitting => /\ view.submitting
                               /\ ~(calls[i].op \in {"login", "change"} /\ calls[i].live),
           view'.loading => view.loading /\ ~(calls[i].op = "me" /\ calls[i].live),
           view'.leaving => view.leaving /\ ~(calls[i].op = "logout" /\ calls[i].live)
    PROVE  LoginInv'
<1> DEFINE rest == Sys!Rest(calls, i)
<1>1. /\ rest \in Seq(LoginCalls)
      /\ \A k \in DOMAIN calls : k # i => \E j \in DOMAIN rest : rest[j] = calls[k]
      /\ \A j \in DOMAIN rest : Sent(rest[j], view.path, hist.goal)
      /\ rest # <<>> => calls # <<>>
  BY OneLess
<1>2. Waited(view, calls)
  BY DEF LoginInv, LoginOk
<1> HIDE DEF rest
<1>3. Waited(view', rest)
  BY <1>1, <1>2 DEF Waited
<1>4. LoginOk(view', rest, server, hist)
  BY <1>1, <1>3 DEF LoginInv, LoginOk
<1>5. QED
  BY <1>4 DEF LoginInv, rest

LEMMA LoggedInKeeps ==
    ASSUME LoginInv, NEW i \in DOMAIN calls, LoginTab!LoggedIn(i) PROVE LoginInv'
<1>1. /\ calls[i] \in LoginCalls /\ Sent(calls[i], view.path, hist.goal)
      /\ calls[i].op = "login"
  BY DEF LoginInv, LoginOk, LoginTab!LoggedIn, LoginTab!Succeeded
<1>2. CASE calls[i].answer.must
  <2>1. /\ LoginTab!Navigate("change", calls[i].returnTo, Sys!Rest(calls, i))
        /\ UNCHANGED <<server, hist>>
    BY <1>2, WithoutIsRest DEF LoginTab!LoggedIn
  <2>2. /\ calls[i].live => view.path # "change"
        /\ calls[i].returnTo = hist.goal /\ calls[i].returnTo \in BOOLEAN
    BY <1>1 DEF Sent, OfPage, LoginCalls
  <2>3. QED
    BY <2>1, <2>2, NavigatesOn
<1>3. CASE ~calls[i].answer.must
  BY <1>1, <1>3, GoesOn DEF LoginTab!LoggedIn
<1>4. QED
  BY <1>2, <1>3

LEMMA ChangedKeeps ==
    ASSUME LoginInv, NEW i \in DOMAIN calls, LoginTab!Changed(i) PROVE LoginInv'
BY GoesOn DEF LoginTab!Changed, LoginTab!Succeeded

\* Requests of the menu know of no way back.
LEMMA FromTheMenu ==
    ASSUME LoginInv, NEW i \in DOMAIN calls, calls[i].op \in {"me", "logout"},
           NEW path \in {"login", "change"}, view.path # path \/ ~calls[i].live,
           LoginTab!Navigate(path, FALSE, Sys!Rest(calls, i)), UNCHANGED <<server, hist>>
    PROVE  LoginInv'
<1>1. hist.goal = FALSE
  BY DEF LoginInv, LoginOk, Sent
<1>2. QED
  BY <1>1, NavigatesOn
LEMMA ShowHomeKeeps ==
    ASSUME LoginInv, NEW i \in DOMAIN calls, LoginTab!ShowHome(i) PROVE LoginInv'
<1>1. /\ calls[i].op = "me" /\ Sent(calls[i], view.path, hist.goal) /\ view \in LoginViews
      /\ UNCHANGED <<server, hist>>
  BY DEF LoginInv, LoginOk, LoginTab!ShowHome
<1>2. view.path \notin {"login", "change"} \/ ~calls[i].live
  BY <1>1 DEF Sent, OfPage
<1>3. CASE ~calls[i].answer.ok
  <2>1. LoginTab!Navigate("login", FALSE, Sys!Rest(calls, i))
    BY <1>3, WithoutIsRest DEF LoginTab!ShowHome
  <2>2. QED
    BY <1>1, <1>2, <2>1, FromTheMenu
<1>4. CASE calls[i].answer.ok /\ calls[i].answer.must
  <2>1. LoginTab!Navigate("change", FALSE, Sys!Rest(calls, i))
    BY <1>4, WithoutIsRest DEF LoginTab!ShowHome
  <2>2. QED
    BY <1>1, <1>2, <2>1, FromTheMenu
<1>5. CASE calls[i].answer.ok /\ ~calls[i].answer.must
  <2>1. /\ calls' = Sys!Rest(calls, i)
        /\ view' = IF calls[i].live
                   THEN [view EXCEPT !.loading = FALSE, !.menu = TRUE] ELSE view
    BY <1>5, WithoutIsRest DEF LoginTab!ShowHome
  <2>2. /\ view' \in LoginViews /\ view'.path = view.path /\ view'.returnTo = view.returnTo
        /\ view'.submitting = view.submitting /\ view'.leaving = view.leaving
        /\ view'.loading => view.loading /\ ~calls[i].live
    BY <1>1, <2>1 DEF LoginViews
  <2>3. QED
    BY <1>1, <2>1, <2>2, SettlesHere
<1>6. QED
  BY <1>3, <1>4, <1>5

LEMMA LoggedOutKeeps ==
    ASSUME LoginInv, NEW i \in DOMAIN calls, calls[i].op = "logout",
           LoginTab!Navigate("login", FALSE, LoginTab!Without(i)), UNCHANGED <<server, hist>>
    PROVE  LoginInv'
<1>1. Sent(calls[i], view.path, hist.goal)
  BY DEF LoginInv, LoginOk
<1>2. view.path # "login" \/ ~calls[i].live
  BY <1>1 DEF Sent, OfPage
<1>3. LoginTab!Navigate("login", FALSE, Sys!Rest(calls, i))
  BY WithoutIsRest
<1>4. QED
  BY <1>2, <1>3, FromTheMenu

LEMMA RefusedKeeps ==
    ASSUME LoginInv, NEW i \in DOMAIN calls, LoginTab!Refused(i) PROVE LoginInv'
<1>1. view \in LoginViews /\ calls[i] \in LoginCalls
  BY DEF LoginInv, LoginOk
<1>2. /\ calls[i].op \in {"login", "change"} /\ calls[i].live \in BOOLEAN
      /\ calls' = Sys!Rest(calls, i) /\ UNCHANGED <<server, hist>>
      /\ view' = [view EXCEPT !.submitting = view.submitting /\ ~calls[i].live]
  BY <1>1, WithoutIsRest DEF LoginTab!Refused, LoginCalls
<1>3. /\ view' \in LoginViews /\ view'.path = view.path /\ view'.returnTo = view.returnTo
      /\ view'.loading = view.loading /\ view'.leaving = view.leaving
      /\ view'.submitting => view.submitting /\ ~calls[i].live
  BY <1>1, <1>2 DEF LoginViews
<1>4. QED
  BY <1>2, <1>3, SettlesHere

LEMMA LostKeeps ==
    ASSUME LoginInv, NEW i \in DOMAIN calls, LoginTab!Lost(i) PROVE LoginInv'
<1>1. /\ view \in LoginViews /\ calls[i] \in LoginCalls
      /\ Sent(calls[i], view.path, hist.goal) /\ UNCHANGED <<server, hist>>
      /\ view.submitting => view.path \in {"login", "change"}
      /\ view.loading \/ view.leaving => view.path = "home"
  BY DEF LoginInv, LoginOk, LoginTab!Lost
<1>2. CASE calls[i].op = "logout"
  <2>1. LoginTab!Navigate("login", FALSE, LoginTab!Without(i))
    BY <1>2 DEF LoginTab!Lost
  <2>2. QED
    BY <1>1, <1>2, <2>1, LoggedOutKeeps
<1>3. CASE calls[i].op # "logout"
  <2>1. /\ calls' = Sys!Rest(calls, i)
        /\ view' = IF ~calls[i].live THEN view
                   ELSE [view EXCEPT !.submitting = FALSE,
                                     !.loading = view.loading /\ calls[i].op # "me"]
    BY <1>3, WithoutIsRest DEF LoginTab!Lost
  <2>2. /\ view' \in LoginViews /\ view'.path = view.path /\ view'.returnTo = view.returnTo
        /\ view'.leaving = view.leaving
        /\ view'.submitting => view.submitting /\ ~calls[i].live
        /\ view'.loading => view.loading /\ ~(calls[i].live /\ calls[i].op = "me")
    BY <1>1, <2>1 DEF LoginViews
  <2>3. QED
    BY <1>1, <1>3, <2>1, <2>2, SettlesHere
<1>4. QED
  BY <1>2, <1>3

LEMMA LoginStep == ASSUME LoginInv, LoginTab!Next PROVE LoginInv'
<1>1. ASSUME NEW i \in DOMAIN calls,
             \/ LoginTab!LoggedIn(i) \/ LoginTab!Changed(i) \/ LoginTab!ShowHome(i)
             \/ LoginTab!LoggedOut(i) \/ LoginTab!Refused(i) \/ LoginTab!Lost(i)
      PROVE  LoginInv'
  BY <1>1, LoggedInKeeps, ChangedKeeps, ShowHomeKeeps, LoggedOutKeeps, RefusedKeeps, LostKeeps
     DEF LoginTab!LoggedOut
<1>2. QED
  BY <1>1, ServesKeep, SubmitKeeps, LoadsKeep, ElsewhereKeeps DEF LoginTab!Next

-----------------------------------------------------------------------------
(* Login and limiter together *)

SignInInv == /\ tab = "limiter" => LimiterInv
             /\ tab = "login" => LoginInv

LEMMA SignInInit == Init => SignInInv
<1> SUFFICES ASSUME Init PROVE SignInInv
  OBVIOUS
<1>1. PICK m \in MountsOf(tab) :
        view = m.view /\ calls = m.calls /\ server = m.server /\ hist = m.hist
  BY DEF Init
<1>2. CASE tab = "limiter"
  <2>1. m \in LimiterTab!Mounts
    BY <1>1, <1>2 DEF MountsOf
  <2>2. QED
    BY <1>1, <1>2, <2>1, LimiterInit DEF SignInInv
<1>3. CASE tab = "login"
  <2>1. m \in LoginTab!Mounts
    BY <1>1, <1>3 DEF MountsOf
  <2>2. QED
    BY <1>1, <1>3, <2>1, LoginInit DEF SignInInv
<1>4. QED
  BY <1>2, <1>3 DEF SignInInv

LEMMA SignInStep == SignInInv /\ [Next]_vars => SignInInv'
<1> SUFFICES ASSUME SignInInv, [Next]_vars PROVE SignInInv'
  OBVIOUS
<1>1. CASE UNCHANGED vars
  BY <1>1 DEF vars, SignInInv, LimiterInv, LoginInv
<1>2. CASE tab = "limiter" /\ LimiterTab!Next /\ UNCHANGED tab
  BY <1>2, LimiterStep DEF SignInInv
<1>3. CASE tab = "login" /\ LoginTab!Next /\ UNCHANGED tab
  BY <1>3, LoginStep DEF SignInInv
<1>4. CASE tab' \notin {"limiter", "login"}
  BY <1>4 DEF SignInInv
<1>5. QED
  <2>1. tab \in {"limiter", "login"} \/ tab' \in PanelPages \cup {"panel"} \/ UNCHANGED tab
    BY DEF Next, LeavePage, OpenPage, vars
  <2>2. QED
    BY <1>1, <1>2, <1>3, <1>4 DEF Next, OpenPage, LeavePage, PanelPages

LEMMA SignInInvariance == Spec => []SignInInv
BY SignInInit, SignInStep, PTL DEF Spec

\* For any limit and any number of attempts at once: no window of the limiter
\* answers more wrong passwords than the limit, but for the attempts it took
\* over from the window before (loginRateLimiter).
THEOREM WrongAttemptsTheorem == Spec => []WrongAttemptsBounded
<1>1. SignInInv => WrongAttemptsBounded
  <2> SUFFICES ASSUME SignInInv, tab = "limiter" PROVE LimiterTab!WrongAttemptsBounded
    BY DEF WrongAttemptsBounded
  <2>1. /\ hist.wrong + Len(calls) <= LoginLimit + hist.late
        /\ hist.wrong \in Nat /\ hist.late \in Nat /\ Len(calls) \in Nat
    BY DEF SignInInv, LimiterInv
  <2>2. QED
    BY <2>1, LimitAssumption DEF LimiterTab!WrongAttemptsBounded
<1>2. QED
  BY <1>1, SignInInvariance, PTL

\* For any number of requests under way: who was sent to the login pages by
\* /authorize is sent back there after both forms, and nobody else is.
THEOREM WayBackTheorem == Spec => []ReturnsToWhereItStarted
<1>1. SignInInv => ReturnsToWhereItStarted
  BY DEF SignInInv, LoginInv, LoginOk, ReturnsToWhereItStarted,
         LoginTab!ReturnsToWhereItStarted
<1>2. QED
  BY <1>1, SignInInvariance, PTL
-----------------------------------------------------------------------------
(* Flags of the page Auditoria *)

AuditInv ==
    /\ Sys!Calls(calls, {}) /\ "loading" \in DOMAIN view
    /\ view.loading => \E i \in DOMAIN calls : calls[i].op = "list"

LEMMA AuditStep == ASSUME AuditInv, AuditTab!Next PROVE AuditInv'
<1>1. Sys!Calls(calls, {}) /\ "loading" \in DOMAIN view /\ 0 \notin DOMAIN calls
  BY DEF AuditInv, Sys!Calls
<1>2. ASSUME NEW k, AuditTab!WriteEntry(k) PROVE AuditInv'
  BY <1>2 DEF AuditTab!WriteEntry, AuditInv
<1>3. ASSUME NEW q, AuditTab!Ask(q) PROVE AuditInv'
  <2> DEFINE e == AuditTab!ListCall(q)
  <2>1. /\ e.op = "list" /\ Sys!Says(e, {}) /\ calls' = Append(calls, e)
        /\ "loading" \in DOMAIN view'
    BY <1>1, <1>3 DEF AuditTab!Ask, AuditTab!ListCall, Sys!Says
  <2> HIDE DEF e
  <2>2. Sys!Calls(calls', {}) /\ \E j \in DOMAIN calls' : calls'[j] = e
    BY <1>1, <2>1, Sys!OneIsSent
  <2>3. QED
    BY <2>1, <2>2 DEF AuditInv
<1>4. ASSUME (\E f : AuditTab!SetFilter(f)) \/ (\E p : AuditTab!GoToPage(p))
               \/ (\E l : AuditTab!SetLimit(l))
      PROVE  \E q : AuditTab!Ask(q)
  BY <1>4, Zenon DEF AuditTab!SetFilter, AuditTab!GoToPage, AuditTab!SetLimit
<1>5. ASSUME NEW i \in DOMAIN calls, AuditTab!SelectRows(i) \/ AuditTab!CountRows(i)
      PROVE  AuditInv'
  <2>1. PICK x \in {"rows", "total"} :
          \E a : calls' = [calls EXCEPT ![i] = [calls[i] EXCEPT ![x] = a]]
    BY <1>5 DEF AuditTab!SelectRows, AuditTab!CountRows
  <2>2. PICK a : calls' = [calls EXCEPT ![i] = [calls[i] EXCEPT ![x] = a]]
    BY <2>1
  <2>3. Sys!Calls(calls, {}) /\ x \notin {} \cup {"op"}
    BY <1>1, <2>1
  <2>4. Sys!Calls(calls', {}) /\ Sys!Survive(calls, calls', 0, {})
    BY <2>2, <2>3, Sys!AnAnswer
  <2>5. view' = view
    BY <1>5 DEF AuditTab!SelectRows, AuditTab!CountRows
  <2>6. QED
    BY <1>1, <2>4, <2>5 DEF AuditInv, Sys!Survive, Sys!Same
<1>6. ASSUME NEW i \in DOMAIN calls, AuditTab!ShowList(i) \/ AuditTab!Lost(i)
      PROVE  AuditInv'
  <2>1. calls' = Sys!Rest(calls, i)
    BY <1>6 DEF AuditTab!ShowList, AuditTab!Lost, AuditTab!Without, Sys!Rest
  <2>2. "loading" \in DOMAIN view' /\ ~view'.loading
    BY <1>1, <1>6 DEF AuditTab!ShowList, AuditTab!Lost
  <2>3. QED
    BY <1>1, <2>1, <2>2, Sys!OneIsGone DEF AuditInv
<1>7. QED
  BY <1>2, <1>3, <1>4, <1>5, <1>6, Zenon DEF AuditTab!Next

-----------------------------------------------------------------------------
(* Flags of the panel around its pages *)

PanelFields == {"path", "user", "loading", "submitting"}
Returns     == {"mount", "login", "change"}

\* Every /me goes back to the handler it was sent for.
PanelOk(v, s) ==
    /\ Sys!Calls(s, {"then"}) /\ PanelFields \subseteq DOMAIN v
    /\ \A i \in DOMAIN s : s[i].op = "me" => s[i].then \in Returns
    /\ v.loading => \E i \in DOMAIN s : s[i].op = "me" /\ s[i].then = "mount"
    /\ v.submitting => \E i \in DOMAIN s : \/ s[i].op \in {"login", "change"}
                                           \/ s[i].op = "me" /\ s[i].then # "mount"
PanelInv == PanelOk(view, calls)

\* A request goes; what waited for it is reset.
LEMMA PanelSettles ==
    ASSUME PanelInv, NEW i \in DOMAIN calls, calls' = Sys!Rest(calls, i),
           PanelFields \subseteq DOMAIN view',
           view'.loading => view.loading /\ ~(calls[i].op = "me" /\ calls[i].then = "mount"),
           view'.submitting =>
             /\ view.submitting
             /\ calls[i].op \notin {"login", "change"}
             /\ ~(calls[i].op = "me" /\ calls[i].then # "mount")
    PROVE  PanelInv'
<1>1. Sys!Calls(calls, {"then"}) /\ PanelOk(view, calls)
  BY DEF PanelInv, PanelOk
<1>2. /\ Sys!Calls(calls', {"then"}) /\ Sys!Survive(calls, calls', i, {"then"})
      /\ \A j \in DOMAIN calls' : \E k \in DOMAIN calls : calls'[j] = calls[k]
  BY <1>1, Sys!OneIsGone
<1>3. \A j \in DOMAIN calls' : calls'[j].op = "me" => calls'[j].then \in Returns
  BY <1>1, <1>2 DEF PanelOk
<1>4. view'.loading => \E j \in DOMAIN calls' : calls'[j].op = "me" /\ calls'[j].then = "mount"
  BY <1>1, <1>2 DEF PanelOk, Sys!Survive, Sys!Same
<1>5. view'.submitting =>
        \E j \in DOMAIN calls' : \/ calls'[j].op \in {"login", "change"}
                                 \/ calls'[j].op = "me" /\ calls'[j].then # "mount"
  BY <1>1, <1>2 DEF PanelOk, Sys!Survive, Sys!Same
<1>6. QED
  BY <1>2, <1>3, <1>4, <1>5 DEF PanelInv, PanelOk

LEMMA PanelStep == ASSUME PanelInv, PanelTab!Next PROVE PanelInv'
<1> DEFINE F == {"then"}
<1>1. /\ Sys!Calls(calls, F) /\ PanelFields \subseteq DOMAIN view /\ 0 \notin DOMAIN calls
      /\ PanelOk(view, calls)
  BY DEF PanelInv, PanelOk, Sys!Calls
<1>2. CASE PanelTab!Elsewhere
  <2>1. view' = view /\ calls' = calls
    BY <1>2 DEF PanelTab!Elsewhere
  <2>2. QED
    BY <1>1, <2>1 DEF PanelInv, PanelOk
<1>3. ASSUME NEW e, Sys!Says(e, F), calls' = Append(calls, e), PanelFields \subseteq DOMAIN view',
             e.op # "me", view'.loading = view.loading,
             view'.submitting => view.submitting \/ e.op \in {"login", "change"}
      PROVE  PanelInv'
  <2>1. /\ Sys!Calls(calls', F) /\ Sys!Survive(calls, calls', 0, F)
        /\ \E j \in DOMAIN calls' : calls'[j] = e
        /\ \A j \in DOMAIN calls' : calls'[j] = e \/ \E k \in DOMAIN calls : calls'[j] = calls[k]
    BY <1>1, <1>3, Sys!OneIsSent
  <2>2. QED
    BY <1>1, <1>3, <2>1 DEF PanelInv, PanelOk, Sys!Survive, Sys!Same
<1>4. ASSUME NEW a, PanelTab!SubmitLogin(a) PROVE PanelInv'
  BY <1>1, <1>3, <1>4 DEF PanelTab!SubmitLogin, PanelTab!Call, Sys!Says, PanelFields
<1>5. CASE PanelTab!SubmitChange
  BY <1>1, <1>3, <1>5 DEF PanelTab!SubmitChange, PanelTab!Call, Sys!Says, PanelFields
<1>6. CASE PanelTab!Logout
  BY <1>1, <1>3, <1>6 DEF PanelTab!Logout, PanelTab!Call, Sys!Says, PanelFields
<1>7. ASSUME NEW i \in DOMAIN calls,
             \/ PanelTab!ServeMe(i) \/ PanelTab!ServeLogin(i)
             \/ PanelTab!ServeLogout(i) \/ PanelTab!ServeChange(i)
      PROVE  PanelInv'
  <2>1. PICK a : calls' = [calls EXCEPT ![i] = [calls[i] EXCEPT !["answer"] = a]]
    BY <1>7 DEF PanelTab!ServeMe, PanelTab!ServeLogin, PanelTab!ServeLogout,
       PanelTab!ServeChange, PanelTab!Answered
  <2>2. view' = view
    BY <1>7 DEF PanelTab!ServeMe, PanelTab!ServeLogin, PanelTab!ServeLogout,
       PanelTab!ServeChange
  <2>3. /\ Sys!Calls(calls', F) /\ Sys!Survive(calls, calls', 0, F) /\ DOMAIN calls' = DOMAIN calls
        /\ \A j \in DOMAIN calls : j # i => calls'[j] = calls[j]
        /\ calls'[i] = [calls[i] EXCEPT !["answer"] = a]
    BY <1>1, <2>1, Sys!AnAnswer
  <2>4. ASSUME NEW j \in DOMAIN calls, calls'[j].op = "me" PROVE calls'[j].then \in Returns
    BY <1>1, <2>3, <2>4 DEF PanelOk, Sys!Calls, Sys!Says
  <2>5. QED
    BY <1>1, <2>2, <2>3, <2>4 DEF PanelInv, PanelOk, Sys!Survive, Sys!Same
<1>8. ASSUME NEW i \in DOMAIN calls PROVE PanelTab!Without(i) = Sys!Rest(calls, i)
  BY DEF PanelTab!Without, Sys!Rest
<1>9. ASSUME NEW v, PanelFields \subseteq DOMAIN v
      PROVE  LET w == PanelTab!Routed(v)
             IN  /\ PanelFields \subseteq DOMAIN w
                 /\ w.loading = v.loading /\ w.submitting = v.submitting
  BY <1>9 DEF PanelTab!Routed, PanelFields
<1>10. ASSUME NEW i \in DOMAIN calls, calls[i].op = "me", NEW user,
              view' = PanelTab!Refreshed(i, user)
       PROVE  /\ PanelFields \subseteq DOMAIN view'
              /\ view'.loading => view.loading /\ calls[i].then # "mount"
              /\ view'.submitting => view.submitting /\ calls[i].then = "mount"
  <2>1. calls[i].then \in Returns
    BY <1>1, <1>10 DEF PanelOk
  <2> DEFINE v == [view EXCEPT !.user = user]
  <2>2. CASE calls[i].then = "mount"
    <3>1. view' = PanelTab!Routed([v EXCEPT !.loading = FALSE])
      BY <1>10, <2>2 DEF PanelTab!Refreshed
    <3> DEFINE x == [v EXCEPT !.loading = FALSE]
    <3>2. PanelFields \subseteq DOMAIN x /\ ~x.loading /\ x.submitting = view.submitting
      BY <1>1 DEF PanelFields
    <3> HIDE DEF x
    <3>3. /\ PanelFields \subseteq DOMAIN view'
          /\ view'.loading = x.loading /\ view'.submitting = x.submitting
      BY <1>9, <3>1, <3>2 DEF x
    <3>4. QED
      BY <2>2, <3>2, <3>3
  <2>3. CASE calls[i].then \in {"login", "change"}
    <3>1. \/ view' = [v EXCEPT !.path = "trocar", !.submitting = FALSE]
          \/ view' = PanelTab!Routed([v EXCEPT !.path = "page", !.submitting = FALSE])
      <4>1. CASE calls[i].then = "login"
        BY <1>10, <4>1 DEF PanelTab!Refreshed
      <4>2. CASE calls[i].then = "change"
        BY <1>10, <4>2 DEF PanelTab!Refreshed
      <4>3. QED
        BY <2>3, <4>1, <4>2
    <3>2. QED
      BY <1>1, <1>9, <2>3, <3>1 DEF PanelFields
  <2>4. QED
    BY <2>1, <2>2, <2>3 DEF Returns
<1>11. ASSUME NEW i \in DOMAIN calls, PanelTab!ShowMe(i) PROVE PanelInv'
  <2>1. /\ calls[i].op = "me" /\ view' = PanelTab!Refreshed(i, calls[i].answer.user)
        /\ calls' = Sys!Rest(calls, i)
    BY <1>8, <1>11 DEF PanelTab!ShowMe
  <2>2. QED
    BY <1>10, <2>1, PanelSettles
<1>12. ASSUME NEW i \in DOMAIN calls, PanelTab!Refused(i) PROVE PanelInv'
  <2>1. calls[i].op \in {"login", "change"} /\ calls' = Sys!Rest(calls, i)
    BY <1>8, <1>12 DEF PanelTab!Refused
  <2>2. /\ PanelFields \subseteq DOMAIN view' /\ view'.loading = view.loading
        /\ ~view'.submitting
    BY <1>1, <1>12 DEF PanelTab!Refused, PanelFields
  <2>3. QED
    BY <2>1, <2>2, PanelSettles
<1>13. ASSUME NEW i \in DOMAIN calls, calls[i].op = "logout", calls' = Sys!Rest(calls, i),
              view' = PanelTab!Routed([view EXCEPT !.user = None])
       PROVE  PanelInv'
  <2>1. /\ PanelFields \subseteq DOMAIN view' /\ view'.loading = view.loading
        /\ view'.submitting = view.submitting
    BY <1>1, <1>9, <1>13 DEF PanelFields
  <2>2. QED
    BY <1>13, <2>1, PanelSettles
<1>14. ASSUME NEW i \in DOMAIN calls, PanelTab!LoggedOut(i) PROVE PanelInv'
  BY <1>8, <1>13, <1>14 DEF PanelTab!LoggedOut
<1>15. ASSUME NEW i \in DOMAIN calls, PanelTab!Refresh(i) PROVE PanelInv'
  <2> DEFINE e == PanelTab!MeCall(calls[i].op)
  <2>1. /\ calls[i].op \in {"login", "change"} /\ view' = view
        /\ calls' = Append(Sys!Rest(calls, i), e)
    BY <1>8, <1>15 DEF PanelTab!Refresh
  <2>2. Sys!Says(e, F) /\ e.op = "me" /\ e.then = calls[i].op
    BY DEF PanelTab!MeCall, PanelTab!Call, Sys!Says
  <2> HIDE DEF e
  <2>3. /\ Sys!Calls(calls', F) /\ Sys!Survive(calls, calls', i, F)
        /\ \E j \in DOMAIN calls' : calls'[j] = e
        /\ \A j \in DOMAIN calls' : calls'[j] = e \/ \E k \in DOMAIN calls : calls'[j] = calls[k]
    BY <1>1, <2>1, <2>2, Sys!OneForAnother
  <2>4. \A j \in DOMAIN calls' : calls'[j].op = "me" => calls'[j].then \in Returns
    BY <1>1, <2>1, <2>2, <2>3 DEF PanelOk, Returns
  <2>5. view'.loading => \E j \in DOMAIN calls' : calls'[j].op = "me" /\ calls'[j].then = "mount"
    BY <1>1, <2>1, <2>3 DEF PanelOk, Sys!Survive, Sys!Same
  <2>6. QED
    BY <1>1, <2>1, <2>2, <2>3, <2>4, <2>5 DEF PanelInv, PanelOk
<1>16. ASSUME NEW i \in DOMAIN calls, PanelTab!Lost(i) PROVE PanelInv'
  <2>1. calls' = Sys!Rest(calls, i)
    BY <1>8, <1>16 DEF PanelTab!Lost
  <2>2. CASE calls[i].op = "me"
    <3>1. view' = PanelTab!Refreshed(i, None)
      BY <1>16, <2>2 DEF PanelTab!Lost
    <3>2. QED
      BY <1>10, <2>1, <2>2, <3>1, PanelSettles
  <2>3. CASE calls[i].op = "logout"
    BY <1>13, <1>16, <2>1, <2>3 DEF PanelTab!Lost
  <2>4. CASE calls[i].op \notin {"me", "logout"}
    <3>1. /\ PanelFields \subseteq DOMAIN view' /\ view'.loading = view.loading
          /\ ~view'.submitting
      BY <1>1, <1>16, <2>4 DEF PanelTab!Lost, PanelFields
    <3>2. QED
      BY <2>1, <2>4, <3>1, PanelSettles
  <2>5. QED
    BY <2>2, <2>3, <2>4
<1>17. QED
  BY <1>2, <1>4, <1>5, <1>6, <1>7, <1>11, <1>12, <1>14, <1>15, <1>16 DEF PanelTab!Next

-----------------------------------------------------------------------------
(* Flags of the page Acessos *)

LEMMA FiniteImage ==
    ASSUME NEW S, IsFiniteSet(S), NEW f, DOMAIN f = S
    PROVE  IsFiniteSet({f[x] : x \in S})
<1> DEFINE T == {f[x] : x \in S}
           g == [x \in S |-> f[x]]
<1>1. g \in Surjection(S, T)
  BY DEF Surjection
<1>2. QED
  BY <1>1, FS_Surjection

AccessFields == {"loading", "granting", "busy", "rows"}
RowWrites    == {"changeRole", "revoke"}
RowsOk(rows) == IsFiniteSet(rows) /\ \A row \in rows : "id" \in DOMAIN row
CallsRows(s) ==
    \A i \in DOMAIN s : /\ "answer" \in DOMAIN s[i]
                        /\ s[i].op = "accesses" /\ s[i].answer # None =>
                             RowsOk(s[i].answer.rows)
AccessFlags(v, s) ==
    /\ v.loading => \E i \in DOMAIN s : s[i].op = "accesses"
    /\ v.granting => \E i \in DOMAIN s : s[i].op = "grant"
    /\ v.busy # None =>
         \E i \in DOMAIN s : s[i].op \in RowWrites /\ s[i].row.id = v.busy
AccessOk(v, s, d) ==
    /\ Sys!Calls(s, {"row"}) /\ AccessFields \subseteq DOMAIN v
    /\ RowsOk(v.rows) /\ CallsRows(s)
    /\ "access" \in DOMAIN d /\ d.access \in Seq(Sys!Elements(d.access))
    /\ AccessFlags(v, s)
AccessInv == AccessOk(view, calls, server)

LEMMA RowsAreFinite == ASSUME AccessInv, NEW u PROVE RowsOk(AccessTab!RowsOf(u))
<1> DEFINE D == AccessTab!ActiveIds(u)
           f == [id \in D |-> [id |-> id, user |-> u, system |-> server.access[id].system,
                               role |-> server.access[id].role]]
<1>1. DOMAIN server.access = 1..Len(server.access) /\ Len(server.access) \in Nat
  BY Sys!OwnElements DEF AccessInv, AccessOk
<1>2. D \subseteq 1..Len(server.access)
  BY <1>1 DEF AccessTab!ActiveIds
<1>3. IsFiniteSet(1..Len(server.access))
  BY <1>1, FS_Interval
<1> HIDE DEF D
<1>4. IsFiniteSet(D)
  BY <1>2, <1>3, FS_Subset
<1>5. DOMAIN f = D
  OBVIOUS
<1>6. AccessTab!RowsOf(u) = {f[id] : id \in D}
  BY DEF AccessTab!RowsOf, D
<1>7. \A id \in D : "id" \in DOMAIN f[id]
  OBVIOUS
<1> HIDE DEF f
<1>8. IsFiniteSet({f[id] : id \in D})
  BY <1>4, <1>5, FiniteImage
<1>9. QED
  BY <1>6, <1>7, <1>8 DEF RowsOk

\* Requests for roles are no concern of the flags.
LEMMA RolesCallsOk ==
    ASSUME NEW X, IsFiniteSet(X)
    PROVE  LET q == AccessTab!RolesCalls(X)
           IN  /\ Sys!Calls(q, {"row"})
               /\ \A j \in DOMAIN q : /\ q[j].op = "roles" /\ q[j].answer = None
                                      /\ "answer" \in DOMAIN q[j]
<1> DEFINE q == AccessTab!RolesCalls(X)
           n == AccessTab!Cardinality(X \ view.roles)
           g(j) == AccessTab!RolesCall(AccessTab!SetToSeq(X \ view.roles)[j])
<1>1. IsFiniteSet(X \ view.roles)
  BY FS_Difference
<1>2. Cardinality(X \ view.roles) \in Nat
  BY <1>1, FS_CardinalityType
<1>3. n = Cardinality(X \ view.roles)
  BY DEF AccessTab!Cardinality, Cardinality
<1>4. q = [j \in 1..n |-> g(j)]
  BY DEF AccessTab!RolesCalls
<1>5. ASSUME NEW j PROVE /\ Sys!Says(g(j), {"row"}) /\ g(j).op = "roles" /\ g(j).answer = None
                         /\ "answer" \in DOMAIN g(j)
  BY DEF AccessTab!RolesCall, AccessTab!Call, Sys!Says
<1>6. n \in Nat
  BY <1>2, <1>3
<1> HIDE DEF n, g
<1>7. q \in Seq({q[j] : j \in 1..n}) /\ DOMAIN q = 1..n /\ \A j \in 1..n : q[j] = g(j)
  BY <1>4, <1>6
<1> HIDE DEF q
<1>8. q \in Seq(Sys!Elements(q))
  BY <1>7, Sys!OwnElements
<1>9. QED
  BY <1>5, <1>7, <1>8 DEF Sys!Calls, q

\* A flag that is up after a step has its request: a new one, or the one it
\* had, which is not the one that is gone.
LEMMA AccessFlagsKept ==
    ASSUME NEW v, NEW w, NEW s, NEW t, NEW gone,
           AccessFlags(v, s), Sys!Survive(s, t, gone, {"row"}),
           w.loading => \/ \E j \in DOMAIN t : t[j].op = "accesses"
                        \/ v.loading /\ (gone \in DOMAIN s => s[gone].op # "accesses"),
           w.granting => \/ \E j \in DOMAIN t : t[j].op = "grant"
                         \/ v.granting /\ (gone \in DOMAIN s => s[gone].op # "grant"),
           w.busy # None =>
             \/ \E j \in DOMAIN t : t[j].op \in RowWrites /\ t[j].row.id = w.busy
             \/ w.busy = v.busy /\ (gone \in DOMAIN s => s[gone].op \notin RowWrites)
    PROVE  AccessFlags(w, t)
<1>1. ASSUME w.loading PROVE \E j \in DOMAIN t : t[j].op = "accesses"
  BY <1>1 DEF AccessFlags, Sys!Survive, Sys!Same
<1>2. ASSUME w.granting PROVE \E j \in DOMAIN t : t[j].op = "grant"
  BY <1>2 DEF AccessFlags, Sys!Survive, Sys!Same
<1>3. ASSUME w.busy # None
      PROVE  \E j \in DOMAIN t : t[j].op \in RowWrites /\ t[j].row.id = w.busy
  <2>1. CASE \E j \in DOMAIN t : t[j].op \in RowWrites /\ t[j].row.id = w.busy
    BY <2>1
  <2>2. CASE w.busy = v.busy /\ (gone \in DOMAIN s => s[gone].op \notin RowWrites)
    <3>1. PICK k \in DOMAIN s : s[k].op \in RowWrites /\ s[k].row.id = w.busy
      BY <1>3, <2>2 DEF AccessFlags
    <3>2. PICK j \in DOMAIN t : Sys!Same(s[k], t[j], {"row"})
      BY <2>2, <3>1 DEF Sys!Survive
    <3>3. t[j].op = s[k].op /\ t[j].row = s[k].row
      BY <3>1, <3>2 DEF Sys!Same, RowWrites
    <3>4. QED
      BY <3>1, <3>3
  <2>3. QED
    BY <1>3, <2>1, <2>2
<1>4. QED
  BY <1>1, <1>2, <1>3 DEF AccessFlags

LEMMA ReplacedElement ==
    ASSUME NEW s, s \in Seq(Sys!Elements(s)), NEW i, NEW x
    PROVE  [s EXCEPT ![i] = x] \in Seq(Sys!Elements([s EXCEPT ![i] = x]))
<1> DEFINE S == Sys!Elements(s) \cup {x}
           t == [s EXCEPT ![i] = x]
<1>1. s \in Seq(S) /\ x \in S
  OBVIOUS
<1> HIDE DEF S
<1>2. t \in Seq(S)
  <2>1. DOMAIN s = 1..Len(s) /\ Len(s) \in Nat /\ \A j \in 1..Len(s) : s[j] \in S
    BY <1>1
  <2> DEFINE g(j) == IF j = i THEN x ELSE s[j]
  <2>2. t = [j \in 1..Len(s) |-> g(j)]
    BY <2>1
  <2>3. \A j \in 1..Len(s) : g(j) \in S
    BY <1>1, <2>1
  <2> HIDE DEF g, t
  <2> DEFINE n == Len(s)
  <2>4. n \in Nat /\ t = [j \in 1..n |-> g(j)] /\ \A j \in 1..n : g(j) \in S
    BY <2>1, <2>2, <2>3
  <2> HIDE DEF n
  <2>5. QED
    BY <2>4
<1> HIDE DEF t
<1>3. t \in Seq(Sys!Elements(t))
  BY <1>2, Sys!OwnElements
<1>4. QED
  BY <1>3 DEF t

LEMMA AccessServes ==
    ASSUME AccessInv, NEW i \in DOMAIN calls, NEW a,
           calls' = [calls EXCEPT ![i].answer = a], view' = view,
           calls[i].op = "accesses" => RowsOk(a.rows),
           "access" \in DOMAIN server', server'.access \in Seq(Sys!Elements(server'.access))
    PROVE  AccessInv'
<1> DEFINE F == {"row"}
<1>1. /\ Sys!Calls(calls, F) /\ CallsRows(calls) /\ AccessOk(view, calls, server)
      /\ 0 \notin DOMAIN calls
  BY DEF AccessInv, AccessOk, Sys!Calls
<1>2. "answer" \notin F
  OBVIOUS
<1> HIDE DEF F
<1>3. /\ Sys!Calls(calls', F) /\ Sys!Survive(calls, calls', 0, F)
      /\ DOMAIN calls' = DOMAIN calls
      /\ \A j \in DOMAIN calls : j # i => calls'[j] = calls[j]
      /\ calls'[i] = [calls[i] EXCEPT !["answer"] = a]
  BY <1>1, <1>2, Sys!ServerAnswers
<1> USE DEF F
<1>4. /\ "answer" \in DOMAIN calls'[i] /\ calls'[i].answer = a
      /\ calls'[i].op = calls[i].op
  BY <1>1, <1>3 DEF CallsRows, Sys!Calls, Sys!Says
<1>5. CallsRows(calls')
  BY <1>1, <1>3, <1>4 DEF CallsRows
<1>6. AccessFlags(view', calls')
  BY <1>1, <1>3, AccessFlagsKept DEF AccessOk
<1>7. QED
  BY <1>1, <1>3, <1>5, <1>6 DEF AccessInv, AccessOk

LEMMA AccessServeKeeps ==
    ASSUME AccessInv, NEW i \in DOMAIN calls, AccessTab!Serve(i) PROVE AccessInv'
<1>1. "access" \in DOMAIN server /\ server.access \in Seq(Sys!Elements(server.access))
  BY DEF AccessInv, AccessOk
<1>2. CASE AccessTab!ServeAccesses(i)
  BY <1>1, <1>2, RowsAreFinite, AccessServes DEF AccessTab!ServeAccesses, AccessTab!Answered
<1>3. CASE AccessTab!ServeLookup(i)
  BY <1>1, <1>3, AccessServes DEF AccessTab!ServeLookup, AccessTab!Answered
<1>4. ASSUME NEW s, s \in Seq(Sys!Elements(s)), server' = [server EXCEPT !.access = s]
      PROVE  "access" \in DOMAIN server' /\ server'.access \in Seq(Sys!Elements(server'.access))
  BY <1>1, <1>4
<1>5. ASSUME NEW s, s \in Seq(Sys!Elements(s)), NEW x
      PROVE  Append(s, x) \in Seq(Sys!Elements(Append(s, x)))
  <2> DEFINE S == Sys!Elements(s) \cup {x}
  <2>1. s \in Seq(S) /\ x \in S
    BY <1>5
  <2> HIDE DEF S
  <2>2. Append(s, x) \in Seq(S)
    BY <2>1
  <2>3. QED
    BY <2>2, Sys!OwnElements
<1>6. ASSUME NEW id, NEW x
      PROVE  [server.access EXCEPT ![id] = x] \in
               Seq(Sys!Elements([server.access EXCEPT ![id] = x]))
  BY <1>1, ReplacedElement
<1>7. CASE AccessTab!ServeGrant(i)
  <2>1. \/ server' = server
        \/ \E x : server' = [server EXCEPT !.access = Append(server.access, x)]
    BY <1>7 DEF AccessTab!ServeGrant
  <2>2. "access" \in DOMAIN server' /\ server'.access \in Seq(Sys!Elements(server'.access))
    BY <1>1, <1>4, <1>5, <2>1
  <2>3. PICK a \in {0, 1} : calls' = [calls EXCEPT ![i].answer = a]
    BY <1>7 DEF AccessTab!ServeGrant, AccessTab!Answered
  <2>4. calls[i].op # "accesses" /\ view' = view
    BY <1>7 DEF AccessTab!ServeGrant
  <2>5. QED
    BY <2>2, <2>3, <2>4, AccessServes
<1>8. CASE AccessTab!ServeChangeRole(i)
  <2>1. \/ server' = server
        \/ \E id, y, x : server' = [server EXCEPT !.access =
                                      Append([server.access EXCEPT ![id] = y], x)]
    <3> DEFINE id == calls[i].row.id
               y  == [server.access[id] EXCEPT !.active = FALSE]
    <3>1. \/ server' = server
          \/ \E x : server' = [server EXCEPT !.access =
                                 Append([server.access EXCEPT ![id] = y], x)]
      BY <1>8 DEF AccessTab!ServeChangeRole
    <3> HIDE DEF id, y
    <3>2. QED
      BY <3>1
  <2>2. "access" \in DOMAIN server' /\ server'.access \in Seq(Sys!Elements(server'.access))
    BY <1>1, <1>4, <1>5, <1>6, <2>1
  <2>3. PICK a \in {0, 1} : calls' = [calls EXCEPT ![i].answer = a]
    BY <1>8 DEF AccessTab!ServeChangeRole, AccessTab!Answered
  <2>4. calls[i].op # "accesses" /\ view' = view
    BY <1>8 DEF AccessTab!ServeChangeRole
  <2>5. QED
    BY <2>2, <2>3, <2>4, AccessServes
<1>9. CASE AccessTab!ServeRevoke(i)
  <2>1. \/ server' = server
        \/ \E id, y : server' = [server EXCEPT !.access = [server.access EXCEPT ![id] = y]]
    BY <1>9 DEF AccessTab!ServeRevoke
  <2>2. "access" \in DOMAIN server' /\ server'.access \in Seq(Sys!Elements(server'.access))
    BY <1>1, <1>4, <1>6, <2>1
  <2>3. PICK a \in {0, 1} : calls' = [calls EXCEPT ![i].answer = a]
    BY <1>9 DEF AccessTab!ServeRevoke, AccessTab!Answered
  <2>4. calls[i].op # "accesses" /\ view' = view
    BY <1>9 DEF AccessTab!ServeRevoke
  <2>5. QED
    BY <2>2, <2>3, <2>4, AccessServes
<1>10. QED
  BY <1>2, <1>3, <1>7, <1>8, <1>9 DEF AccessTab!Serve

LEMMA AccessSends ==
    ASSUME AccessInv, NEW e, Sys!Says(e, {"row"}), "answer" \in DOMAIN e, e.answer = None,
           calls' = Append(calls, e), UNCHANGED server,
           AccessFields \subseteq DOMAIN view', RowsOk(view'.rows),
           view'.loading => view.loading \/ e.op = "accesses",
           view'.granting => view.granting \/ e.op = "grant",
           view'.busy = view.busy \/ (e.op \in RowWrites /\ e.row.id = view'.busy)
    PROVE  AccessInv'
<1>1. Sys!Calls(calls, {"row"}) /\ AccessOk(view, calls, server) /\ 0 \notin DOMAIN calls
  BY DEF AccessInv, AccessOk, Sys!Calls
<1>2. /\ Sys!Calls(calls', {"row"}) /\ Sys!Survive(calls, calls', 0, {"row"})
      /\ \E j \in DOMAIN calls' : calls'[j] = e
      /\ \A j \in DOMAIN calls' : calls'[j] = e \/ \E k \in DOMAIN calls : calls'[j] = calls[k]
  BY <1>1, Sys!OneIsSent
<1>3. CallsRows(calls')
  BY <1>1, <1>2 DEF AccessOk, CallsRows
<1> DEFINE v == view
           w == view'
           t == calls'
<1>4. /\ w.loading => v.loading \/ \E j \in DOMAIN t : t[j].op = "accesses"
      /\ w.granting => v.granting \/ \E j \in DOMAIN t : t[j].op = "grant"
      /\ \/ w.busy = v.busy
         \/ \E j \in DOMAIN t : t[j].op \in RowWrites /\ t[j].row.id = w.busy
      /\ AccessFlags(v, calls) /\ Sys!Survive(calls, t, 0, {"row"})
  BY <1>1, <1>2 DEF AccessOk
<1> HIDE DEF v, w, t
<1>5. AccessFlags(w, t)
  BY <1>1, <1>4, AccessFlagsKept
<1> USE DEF v, w, t
<1>6. QED
  BY <1>1, <1>2, <1>3, <1>5 DEF AccessInv, AccessOk

\* Also when it asks for roles as it displays the answer.
LEMMA AccessSettles ==
    ASSUME AccessInv, NEW i \in DOMAIN calls, UNCHANGED server,
           AccessFields \subseteq DOMAIN view', RowsOk(view'.rows),
           \/ calls' = Sys!Rest(calls, i)
           \/ \E X : IsFiniteSet(X) /\ calls' = Sys!Rest(calls, i) \o AccessTab!RolesCalls(X),
           view'.loading => view.loading /\ calls[i].op # "accesses",
           view'.granting => view.granting /\ calls[i].op # "grant",
           view'.busy # None => view'.busy = view.busy /\ calls[i].op \notin RowWrites
    PROVE  AccessInv'
<1>1. /\ Sys!Calls(calls, {"row"}) /\ AccessOk(view, calls, server) /\ 0 \notin DOMAIN calls
      /\ CallsRows(calls)
  BY DEF AccessInv, AccessOk, Sys!Calls
<1> DEFINE r == Sys!Rest(calls, i)
<1>2. /\ Sys!Calls(r, {"row"}) /\ Sys!Survive(calls, r, i, {"row"}) /\ 0 \notin DOMAIN r
      /\ \A j \in DOMAIN r : \E k \in DOMAIN calls : r[j] = calls[k]
  <2>1. /\ Sys!Calls(r, {"row"}) /\ Sys!Survive(calls, r, i, {"row"})
        /\ \A j \in DOMAIN r : \E k \in DOMAIN calls : r[j] = calls[k]
    BY <1>1, Sys!OneIsGone
  <2> HIDE DEF r
  <2>2. 0 \notin DOMAIN r
    BY <2>1 DEF Sys!Calls
  <2>3. QED
    BY <2>1, <2>2
<1>3. CallsRows(r)
  BY <1>1, <1>2 DEF CallsRows
<1>4. AccessFlags(view', r)
  BY <1>1, <1>2, AccessFlagsKept DEF AccessOk
<1> HIDE DEF r
<1>5. CASE calls' = r
  BY <1>1, <1>2, <1>3, <1>4, <1>5 DEF AccessInv, AccessOk
<1>6. ASSUME NEW X, IsFiniteSet(X), calls' = r \o AccessTab!RolesCalls(X) PROVE AccessInv'
  <2> DEFINE q == AccessTab!RolesCalls(X)
  <2>1. /\ Sys!Calls(q, {"row"})
        /\ \A j \in DOMAIN q : q[j].op = "roles" /\ "answer" \in DOMAIN q[j]
    BY <1>6, RolesCallsOk
  <2> HIDE DEF q
  <2>2. /\ Sys!Calls(calls', {"row"}) /\ Sys!Survive(r, calls', 0, {"row"})
        /\ \A j \in DOMAIN calls' : \/ \E k \in DOMAIN r : calls'[j] = r[k]
                                    \/ \E k \in DOMAIN q : calls'[j] = q[k]
    BY <1>2, <1>6, <2>1, Sys!ManyAreSent DEF q
  <2>3. CallsRows(calls')
    BY <1>3, <2>1, <2>2 DEF CallsRows
  <2>4. AccessFlags(view', calls')
    BY <1>2, <1>4, <2>2, AccessFlagsKept
  <2>5. QED
    BY <1>1, <2>2, <2>3, <2>4 DEF AccessInv, AccessOk
<1>7. QED
  BY <1>5, <1>6 DEF r

LEMMA AccessRefetches ==
    ASSUME AccessInv, NEW i \in DOMAIN calls, UNCHANGED server, NEW u,
           AccessFields \subseteq DOMAIN view', RowsOk(view'.rows),
           calls' = Append(Sys!Rest(calls, i), AccessTab!AccessesCall(u)),
           view'.granting => view.granting /\ calls[i].op # "grant",
           view'.busy # None => view'.busy = view.busy /\ calls[i].op \notin RowWrites
    PROVE  AccessInv'
<1>1. /\ Sys!Calls(calls, {"row"}) /\ AccessOk(view, calls, server) /\ 0 \notin DOMAIN calls
  BY DEF AccessInv, AccessOk, Sys!Calls
<1> DEFINE e == AccessTab!AccessesCall(u)
<1>2. Sys!Says(e, {"row"}) /\ e.op = "accesses" /\ "answer" \in DOMAIN e /\ e.answer = None
  BY DEF AccessTab!AccessesCall, AccessTab!Call, Sys!Says
<1> HIDE DEF e
<1>3. /\ Sys!Calls(calls', {"row"}) /\ Sys!Survive(calls, calls', i, {"row"})
      /\ \E j \in DOMAIN calls' : calls'[j] = e
      /\ \A j \in DOMAIN calls' : calls'[j] = e \/ \E k \in DOMAIN calls : calls'[j] = calls[k]
  BY <1>1, <1>2, Sys!OneForAnother DEF e
<1>4. CallsRows(calls')
  BY <1>1, <1>2, <1>3 DEF AccessOk, CallsRows
<1> DEFINE v == view
           w == view'
           t == calls'
<1>5. /\ \E j \in DOMAIN t : t[j].op = "accesses"
      /\ w.granting => v.granting /\ calls[i].op # "grant"
      /\ w.busy # None => w.busy = v.busy /\ calls[i].op \notin RowWrites
      /\ AccessFlags(v, calls) /\ Sys!Survive(calls, t, i, {"row"})
  BY <1>1, <1>2, <1>3 DEF AccessOk
<1> HIDE DEF v, w, t
<1>6. AccessFlags(w, t)
  BY <1>5, AccessFlagsKept
<1> USE DEF v, w, t
<1>7. QED
  BY <1>1, <1>3, <1>4, <1>6 DEF AccessInv, AccessOk

LEMMA AccessClickKeeps == ASSUME AccessInv, AccessTab!Click PROVE AccessInv'
<1>1. /\ AccessFields \subseteq DOMAIN view /\ RowsOk(view.rows) /\ AccessOk(view, calls, server)
      /\ \A row \in view.rows : "id" \in DOMAIN row
  BY DEF AccessInv, AccessOk, RowsOk
<1>2. ASSUME UNCHANGED <<calls, server>>, AccessFields \subseteq DOMAIN view',
             RowsOk(view'.rows), view'.loading = view.loading, view'.granting = view.granting,
             view'.busy = view.busy
      PROVE  AccessInv'
  BY <1>1, <1>2 DEF AccessInv, AccessOk, AccessFlags
<1>3. CASE AccessTab!Grant
  BY <1>1, <1>3, AccessSends DEF AccessTab!Grant, AccessTab!Call, Sys!Says, AccessFields
<1>4. ASSUME NEW op \in RowWrites, NEW row, AccessTab!Send(op, row)
      PROVE  AccessInv'
  BY <1>1, <1>4, AccessSends DEF AccessTab!Send, AccessTab!Call, Sys!Says, AccessFields
<1>5. CASE AccessTab!ConfirmRevoke
  BY <1>4, <1>5 DEF AccessTab!ConfirmRevoke, RowWrites
<1>6. CASE AccessTab!CancelRevoke
  BY <1>1, <1>2, <1>6 DEF AccessTab!CancelRevoke, AccessFields
<1>7. ASSUME NEW u, AccessTab!SelectUser(u) PROVE AccessInv'
  <2>1. CASE u = None
    <3>1. view' = [view EXCEPT !.user = None, !.rows = {}] /\ UNCHANGED <<calls, server>>
      BY <1>7, <2>1 DEF AccessTab!SelectUser
    <3>2. RowsOk({})
      BY FS_EmptySet DEF RowsOk
    <3>3. QED
      BY <1>1, <1>2, <3>1, <3>2 DEF AccessFields
  <2>2. CASE u # None
    <3>1. /\ view' = [[view EXCEPT !.user = u] EXCEPT !.loading = TRUE]
          /\ calls' = Append(calls, AccessTab!AccessesCall(u)) /\ UNCHANGED server
      BY <1>7, <2>2 DEF AccessTab!SelectUser, AccessTab!FetchAccesses
    <3>2. QED
      BY <1>1, <3>1, AccessSends DEF AccessTab!AccessesCall, AccessTab!Call, Sys!Says, AccessFields
  <2>3. QED
    BY <2>1, <2>2
<1>8. ASSUME NEW s, AccessTab!SelectSystem(s) PROVE AccessInv'
  <2> DEFINE q == AccessTab!RolesCalls({s})
  <2>1. IsFiniteSet({s})
    BY FS_Singleton
  <2>2. /\ Sys!Calls(q, {"row"})
        /\ \A j \in DOMAIN q : q[j].op = "roles" /\ "answer" \in DOMAIN q[j]
    BY <2>1, RolesCallsOk
  <2>3. calls' = calls \o q
    BY <1>8 DEF AccessTab!SelectSystem
  <2> HIDE DEF q
  <2>4. /\ UNCHANGED server /\ AccessFields \subseteq DOMAIN view'
        /\ \A f \in AccessFields : view'[f] = view[f]
    BY <1>1, <1>8 DEF AccessTab!SelectSystem, AccessFields
  <2>5. /\ Sys!Calls(calls', {"row"}) /\ Sys!Survive(calls, calls', 0, {"row"})
        /\ \A j \in DOMAIN calls' : \/ \E k \in DOMAIN calls : calls'[j] = calls[k]
                                    \/ \E k \in DOMAIN q : calls'[j] = q[k]
    BY <1>1, <2>2, <2>3, Sys!ManyAreSent DEF AccessOk
  <2>6. CallsRows(calls')
    BY <1>1, <2>2, <2>5 DEF AccessOk, CallsRows
  <2>7. 0 \notin DOMAIN calls
    BY <1>1 DEF AccessOk, Sys!Calls
  <2>8. /\ view'.loading = view.loading /\ view'.granting = view.granting
        /\ view'.busy = view.busy /\ view'.rows = view.rows
    BY <2>4 DEF AccessFields
  <2>9. AccessFlags(view', calls')
    BY <1>1, <2>5, <2>7, <2>8, AccessFlagsKept DEF AccessOk
  <2>10. QED
    BY <1>1, <2>4, <2>5, <2>6, <2>8, <2>9 DEF AccessInv, AccessOk
<1>9. ASSUME NEW r, AccessTab!SelectRole(r) PROVE AccessInv'
  BY <1>1, <1>2, <1>9 DEF AccessTab!SelectRole, AccessFields
<1>10. ASSUME NEW row, AccessTab!AskRevoke(row) PROVE AccessInv'
  BY <1>1, <1>2, <1>10 DEF AccessTab!AskRevoke, AccessFields
<1>11. ASSUME NEW row, NEW r, AccessTab!ChangeRole(row, r) PROVE AccessInv'
  BY <1>4, <1>11 DEF AccessTab!ChangeRole, RowWrites
<1>12. QED
  BY <1>3, <1>5, <1>6, <1>7, <1>8, <1>9, <1>10, <1>11, Zenon DEF AccessTab!Click

LEMMA AccessSettleKeeps ==
    ASSUME AccessInv, NEW i \in DOMAIN calls, AccessTab!Settle(i) PROVE AccessInv'
<1>1. /\ AccessFields \subseteq DOMAIN view /\ RowsOk(view.rows) /\ CallsRows(calls)
  BY DEF AccessInv, AccessOk
<1>2. AccessTab!Without(i) = Sys!Rest(calls, i)
  BY DEF AccessTab!Without, Sys!Rest
<1>3. CASE AccessTab!ShowLookups(i) \/ AccessTab!ShowRoles(i)
  BY <1>1, <1>2, <1>3, AccessSettles DEF AccessTab!ShowLookups, AccessTab!ShowRoles,
     AccessFields, RowWrites
<1>4. CASE AccessTab!ShowAccesses(i)
  <2> DEFINE rows == calls[i].answer.rows
             X    == {row.system : row \in rows}
             f    == [row \in rows |-> row.system]
  <2>1. RowsOk(rows)
    BY <1>1, <1>4 DEF AccessTab!ShowAccesses, CallsRows
  <2>2. X = {f[row] : row \in rows} /\ DOMAIN f = rows
    OBVIOUS
  <2>3. calls[i].op = "accesses"
    BY <1>4 DEF AccessTab!ShowAccesses
  <2>4. view' = [view EXCEPT !.rows = rows, !.loading = FALSE] /\ UNCHANGED server
    BY <1>4 DEF AccessTab!ShowAccesses
  <2>5. calls' = Sys!Rest(calls, i) \o AccessTab!RolesCalls(X)
    BY <1>2, <1>4 DEF AccessTab!ShowAccesses
  <2> HIDE DEF rows, X, f
  <2>6. IsFiniteSet(X)
    BY <2>1, <2>2, FiniteImage DEF RowsOk
  <2>7. /\ AccessFields \subseteq DOMAIN view' /\ view'.rows = rows /\ ~view'.loading
        /\ view'.granting = view.granting /\ view'.busy = view.busy
    BY <1>1, <2>4 DEF AccessFields
  <2>8. QED
    BY <2>1, <2>3, <2>4, <2>5, <2>6, <2>7, AccessSettles DEF RowWrites
<1>5. ASSUME NEW v, AccessTab!Refetch(i, v), AccessFields \subseteq DOMAIN v,
             v.rows = view.rows,
             v.granting => view.granting /\ calls[i].op # "grant",
             v.busy # None => v.busy = view.busy /\ calls[i].op \notin RowWrites
      PROVE  AccessInv'
  <2>1. /\ view' = [v EXCEPT !.loading = TRUE] /\ UNCHANGED server
        /\ calls' = Append(Sys!Rest(calls, i), AccessTab!AccessesCall(calls[i].user))
    BY <1>2, <1>5 DEF AccessTab!Refetch, AccessTab!FetchAccesses
  <2>2. /\ AccessFields \subseteq DOMAIN view' /\ view'.rows = view.rows
        /\ view'.granting = v.granting /\ view'.busy = v.busy
    BY <1>5, <2>1 DEF AccessFields
  <2>3. QED
    BY <1>1, <1>5, <2>1, <2>2, AccessRefetches
<1>6. CASE AccessTab!Granted(i)
  <2> DEFINE v == [view EXCEPT !.grantSystem = None, !.grantRole = None, !.granting = FALSE]
  <2>1. AccessTab!Refetch(i, v) /\ calls[i].op = "grant"
    BY <1>6 DEF AccessTab!Granted
  <2>2. /\ AccessFields \subseteq DOMAIN v /\ v.rows = view.rows /\ ~v.granting
        /\ v.busy = view.busy
    BY <1>1 DEF AccessFields
  <2> HIDE DEF v
  <2>3. QED
    BY <1>5, <2>1, <2>2 DEF RowWrites
<1>7. CASE AccessTab!RoleChanged(i) \/ AccessTab!Revoked(i)
  <2>1. PICK v \in {[view EXCEPT !.busy = None], [view EXCEPT !.confirm = None,
  !.busy = None]} :
          AccessTab!Refetch(i, v)
    BY <1>7 DEF AccessTab!RoleChanged, AccessTab!Revoked
  <2>2. calls[i].op \in RowWrites
    BY <1>7 DEF AccessTab!RoleChanged, AccessTab!Revoked, RowWrites
  <2>3. /\ AccessFields \subseteq DOMAIN v /\ v.rows = view.rows /\ v.granting = view.granting
        /\ v.busy = None
    BY <1>1 DEF AccessFields
  <2>4. QED
    BY <1>5, <2>1, <2>2, <2>3 DEF RowWrites
<1>8. CASE AccessTab!Refused(i) \/ AccessTab!Lost(i)
  <2>1. calls' = Sys!Rest(calls, i) /\ view' = AccessTab!Released(i) /\ UNCHANGED server
    BY <1>2, <1>8 DEF AccessTab!Refused, AccessTab!Lost
  <2>2. /\ AccessFields \subseteq DOMAIN view' /\ view'.rows = view.rows
        /\ view'.loading => view.loading /\ calls[i].op # "accesses"
        /\ view'.granting => view.granting /\ calls[i].op # "grant"
        /\ view'.busy # None => view'.busy = view.busy /\ calls[i].op \notin RowWrites
    BY <1>1, <2>1 DEF AccessTab!Released, AccessFields, RowWrites
  <2>3. QED
    BY <1>1, <2>1, <2>2, AccessSettles
<1>9. QED
  BY <1>3, <1>4, <1>6, <1>7, <1>8 DEF AccessTab!Settle

LEMMA AccessStep == ASSUME AccessInv, AccessTab!Next PROVE AccessInv'
BY AccessClickKeeps, AccessServeKeeps, AccessSettleKeeps DEF AccessTab!Next

-----------------------------------------------------------------------------
(* Pages as they are mounted *)

LEMMA PanelMounts == ASSUME NEW m \in PanelTab!Mounts PROVE PanelOk(m.view, m.calls)
<1> DEFINE e == PanelTab!MeCall("mount")
<1>1. /\ PanelFields \subseteq DOMAIN m.view /\ ~m.view.submitting /\ m.calls = <<e>>
  BY DEF PanelTab!Mounts, PanelFields
<1>2. Sys!Says(e, {"then"}) /\ e.op = "me" /\ e.then = "mount"
  BY DEF PanelTab!MeCall, PanelTab!Call, Sys!Says
<1> HIDE DEF e
<1>3. Sys!Calls(<<e>>, {"then"}) /\ DOMAIN <<e>> = {1} /\ <<e>>[1] = e
  BY <1>2, Sys!OneCall
<1>4. QED
  BY <1>1, <1>2, <1>3 DEF PanelOk, Returns

LEMMA AuditMounts ==
    ASSUME NEW m \in AuditTab!Mounts
    PROVE  /\ Sys!Calls(m.calls, {}) /\ "loading" \in DOMAIN m.view
           /\ m.view.loading => \E i \in DOMAIN m.calls : m.calls[i].op = "list"
<1> DEFINE e == AuditTab!ListCall(AuditTab!FirstQuery)
<1>1. "loading" \in DOMAIN m.view /\ m.calls = <<e>>
  BY DEF AuditTab!Mounts, AuditTab!Mounted
<1>2. Sys!Says(e, {}) /\ e.op = "list"
  BY DEF AuditTab!ListCall, Sys!Says
<1> HIDE DEF e
<1>3. Sys!Calls(<<e>>, {}) /\ DOMAIN <<e>> = {1} /\ <<e>>[1] = e
  BY <1>2, Sys!OneCall
<1>4. QED
  BY <1>1, <1>2, <1>3

LEMMA AccessMounts ==
    ASSUME NEW m \in AccessTab!Mounts PROVE AccessOk(m.view, m.calls, m.server)
<1>1. PICK u \in {"ana", "rui"} \cup {None} :
        \E access : /\ m = AccessTab!MountedOn(u, access)
                    /\ access = <<>> \/ (\E a : access = <<a>>)
  BY DEF AccessTab!Mounts
<1>2. PICK access : /\ m = AccessTab!MountedOn(u, access)
                    /\ access = <<>> \/ (\E a : access = <<a>>)
  BY <1>1
<1> DEFINE c == AccessTab!Call("lookups", None, None)
           d == AccessTab!AccessesCall(u)
           t == IF u = None THEN <<>> ELSE <<d>>
<1>3. /\ m.view = AccessTab!Mounted(u) /\ m.calls = <<c>> \o t
      /\ m.server = [access |-> access]
  BY <1>2 DEF AccessTab!MountedOn
<1>4. /\ AccessFields \subseteq DOMAIN m.view /\ RowsOk(m.view.rows)
      /\ (m.view.loading => u # None) /\ ~m.view.granting /\ m.view.busy = None
  <2> DEFINE v == AccessTab!Mounted(u)
  <2>1. /\ AccessFields \subseteq DOMAIN v /\ v.rows = {} /\ (v.loading => u # None)
        /\ ~v.granting /\ v.busy = None
    BY DEF AccessTab!Mounted, AccessFields
  <2>2. RowsOk({})
    BY FS_EmptySet DEF RowsOk
  <2> HIDE DEF v
  <2>3. m.view = v
    BY <1>3 DEF v
  <2>4. QED
    BY <2>1, <2>2, <2>3
<1>5. /\ Sys!Says(c, {"row"}) /\ c.op = "lookups" /\ "answer" \in DOMAIN c
      /\ Sys!Says(d, {"row"}) /\ d.op = "accesses" /\ "answer" \in DOMAIN d /\ d.answer = None
  BY DEF AccessTab!AccessesCall, AccessTab!Call, Sys!Says
<1>6. "access" \in DOMAIN m.server /\ m.server.access \in Seq(Sys!Elements(m.server.access))
  <2>1. ASSUME access = <<>> PROVE access \in Seq(Sys!Elements(access))
    <3> DEFINE S == {}
    <3>1. access \in Seq(S)
      BY <2>1
    <3> HIDE DEF S
    <3>2. QED
      BY <3>1, Sys!OwnElements
  <2>2. ASSUME NEW a, access = <<a>> PROVE access \in Seq(Sys!Elements(access))
    <3>1. access \in Seq({a})
      BY <2>2
    <3>2. QED
      BY <3>1, Sys!OwnElements
  <2>3. access \in Seq(Sys!Elements(access))
    BY <1>2, <2>1, <2>2
  <2>4. "access" \in DOMAIN m.server /\ m.server.access = access
    BY <1>3
  <2>5. QED
    BY <2>3, <2>4
<1> HIDE DEF c, d
<1>7. Sys!Calls(<<c>>, {"row"}) /\ DOMAIN <<c>> = {1} /\ <<c>>[1] = c
  BY <1>5, Sys!OneCall
<1>8. CASE u = None
  <2>1. m.calls = <<c>>
    BY <1>3, <1>8
  <2>2. CallsRows(<<c>>) /\ AccessFlags(m.view, <<c>>)
    BY <1>4, <1>5, <1>7, <1>8 DEF CallsRows, AccessFlags
  <2>3. QED
    BY <1>4, <1>6, <1>7, <2>1, <2>2 DEF AccessOk
<1>9. CASE u # None
  <2> DEFINE s == <<c>>
             r == Append(s, d)
  <2>1. m.calls = r
    BY <1>3, <1>9
  <2>2. Sys!Calls(s, {"row"})
    BY <1>7
  <2>3. \A k \in DOMAIN s : s[k] = c
    BY <1>7
  <2> HIDE DEF s
  <2>4. /\ Sys!Calls(r, {"row"}) /\ Len(s) + 1 \in DOMAIN r /\ r[Len(s) + 1] = d
        /\ \A j \in DOMAIN r : r[j] = d \/ \E k \in DOMAIN s : r[j] = s[k]
    <3> DEFINE F == {"row"}
    <3>1. Sys!Calls(s, F) /\ Sys!Says(d, F)
      BY <1>5, <2>2
    <3> HIDE DEF F
    <3>2. /\ Sys!Calls(r, F) /\ Len(s) + 1 \in DOMAIN r /\ r[Len(s) + 1] = d
          /\ \A j \in DOMAIN r : r[j] = d \/ \E k \in DOMAIN s : r[j] = s[k]
      BY <3>1, Sys!OneIsSent
    <3>3. QED
      BY <3>2 DEF F
  <2> HIDE DEF r
  <2>5. CallsRows(r) /\ AccessFlags(m.view, r)
    BY <1>4, <1>5, <2>3, <2>4 DEF CallsRows, AccessFlags
  <2>6. QED
    BY <1>4, <1>6, <2>1, <2>4, <2>5 DEF AccessOk
<1>10. QED
  BY <1>8, <1>9

-----------------------------------------------------------------------------
(* What the page Acessos shows *)

\* The accesses on display are those of the user selected, or an answer under way
\* will put that right.  A write was sent for that user, so that the page asks again
\* for the right one.
AccessWrites   == {"grant", "changeRole", "revoke"}
AccessSays(s)  ==
    s \in Seq(Sys!Elements(s)) /\ \A i \in DOMAIN s : {"op", "user", "answer"} \subseteq DOMAIN s[i]
AccessLists(s) == {i \in DOMAIN s : s[i].op = "accesses"}
FreshAccesses(s, u, rows) ==
    {i \in AccessLists(s) : s[i].user = u /\ (s[i].answer = None \/ s[i].answer.rows = rows)}
AccessChange(c) == c.op \in AccessWrites /\ c.answer = 1
OfTheUser(s, u) == \A i \in DOMAIN s : s[i].op \in AccessWrites => s[i].user = u
AccessTruth(s, u, shown, rows) ==
    /\ OfTheUser(s, u)
    /\ Sys!Truth(AccessLists(s), FreshAccesses(s, u, rows),
                 \E i \in DOMAIN s : AccessChange(s[i]), shown = rows)
AccessTruthOk ==
    hist.calm /\ view.user # None =>
      AccessTruth(calls, view.user, view.rows, AccessTab!RowsOf(view.user))
AccessTruthInv ==
    /\ AccessInv /\ "user" \in DOMAIN view /\ "calm" \in DOMAIN hist
    /\ AccessSays(calls) /\ AccessTruthOk

\* The accesses in the table change by a write that is answered 1 only.
AccessTruthAnswered(s, t, i, a) ==
    \A u, shown, rows, rowsNow :
      /\ AccessTruth(s, u, shown, rows)
      /\ rowsNow = rows \/ (s[i].op \in AccessWrites /\ a = 1)
      /\ s[i].op = "accesses" /\ s[i].user = u => a.rows = rowsNow
      => AccessTruth(t, u, shown, rowsNow)

LEMMA AccessAnswered ==
    ASSUME NEW s, AccessSays(s), NEW i \in DOMAIN s, NEW a, s[i].answer # 1
    PROVE  /\ AccessSays([s EXCEPT ![i].answer = a])
           /\ AccessTruthAnswered(s, [s EXCEPT ![i].answer = a], i, a)
<1> DEFINE t == [s EXCEPT ![i].answer = a]
<1>1. /\ t \in Seq(Sys!Elements(t)) /\ DOMAIN t = DOMAIN s
      /\ \A j \in DOMAIN s : j # i => t[j] = s[j]
      /\ DOMAIN t[i] = DOMAIN s[i]
      /\ \A y \in DOMAIN s[i] : t[i][y] = IF y = "answer" THEN a ELSE s[i][y]
  BY Sys!Answering DEF AccessSays
<1> HIDE DEF t
<1>2. t[i].op = s[i].op /\ t[i].user = s[i].user /\ t[i].answer = a
  BY <1>1 DEF AccessSays
<1>3. AccessSays(t)
  BY <1>1 DEF AccessSays
<1>4. ASSUME NEW u, NEW shown, NEW rows, NEW rowsNow, AccessTruth(s, u, shown, rows),
             rowsNow = rows \/ (s[i].op \in AccessWrites /\ a = 1),
             s[i].op = "accesses" /\ s[i].user = u => a.rows = rowsNow
      PROVE  AccessTruth(t, u, shown, rowsNow)
  <2>1. OfTheUser(t, u)
    BY <1>1, <1>2, <1>4 DEF AccessTruth, OfTheUser
  <2> DEFINE dirty    == \E j \in DOMAIN s : AccessChange(s[j])
             dirtyNow == \E j \in DOMAIN t : AccessChange(t[j])
  <2>2. CASE s[i].op \in AccessWrites /\ a = 1
    <3>1. dirtyNow
      BY <1>1, <1>2, <2>2 DEF AccessChange
    <3>2. QED
      BY <2>1, <3>1 DEF AccessTruth, Sys!Truth
  <2>3. CASE rowsNow = rows
    <3>1. AccessLists(t) = AccessLists(s)
      BY <1>1, <1>2 DEF AccessLists
    <3>2. FreshAccesses(s, u, rows) \subseteq FreshAccesses(t, u, rowsNow)
      BY <1>1, <1>2, <1>4, <2>3, <3>1 DEF FreshAccesses, AccessLists
    <3>3. dirty => dirtyNow
      BY <1>1 DEF AccessChange
    <3>4. Sys!Truth(AccessLists(s), FreshAccesses(s, u, rows), dirty, shown = rows)
      BY <1>4 DEF AccessTruth
    <3> HIDE DEF dirty, dirtyNow
    <3>5. Sys!Truth(AccessLists(t), FreshAccesses(t, u, rowsNow), dirtyNow, shown = rowsNow)
      BY <2>3, <3>1, <3>2, <3>3, <3>4 DEF Sys!Truth, Sys!Newest
    <3>6. QED
      BY <2>1, <3>5 DEF AccessTruth, dirtyNow
  <2>4. QED
    BY <1>4, <2>2, <2>3
<1>5. AccessTruthAnswered(s, t, i, a)
  BY <1>4 DEF AccessTruthAnswered
<1>6. QED
  BY <1>3, <1>5 DEF t

\* Requests that do not ask for accesses go to the end.
LEMMA AccessMore ==
    ASSUME NEW s, AccessSays(s), NEW q, AccessSays(q), \A j \in DOMAIN q : q[j].op # "accesses",
           NEW u, OfTheUser(q, u), NEW shown, NEW rows, AccessTruth(s, u, shown, rows)
    PROVE  AccessTruth(s \o q, u, shown, rows)
<1> DEFINE S == Sys!Elements(s) \cup Sys!Elements(q)
           t == s \o q
<1>1. s \in Seq(S) /\ q \in Seq(S)
  BY DEF AccessSays
<1> HIDE DEF S
<1>2. /\ DOMAIN t = 1..(Len(s) + Len(q))
      /\ DOMAIN s = 1..Len(s) /\ Len(s) \in Nat /\ DOMAIN q = 1..Len(q) /\ Len(q) \in Nat
      /\ \A j \in 1..Len(s) : t[j] = s[j]
      /\ \A j \in (Len(s) + 1)..(Len(s) + Len(q)) : t[j] = q[j - Len(s)]
  BY <1>1
<1> HIDE DEF t
<1>3. DOMAIN s \subseteq DOMAIN t
  BY <1>2
<1>4. ASSUME NEW j \in DOMAIN t, j \notin DOMAIN s
      PROVE  \E k \in DOMAIN q : t[j] = q[k]
  <2>1. j - Len(s) \in DOMAIN q /\ t[j] = q[j - Len(s)]
    BY <1>2, <1>4
  <2>2. QED
    BY <2>1
<1>5. AccessLists(t) = AccessLists(s)
  BY <1>2, <1>3, <1>4 DEF AccessLists
<1>6. FreshAccesses(t, u, rows) = FreshAccesses(s, u, rows)
  BY <1>2, <1>5 DEF FreshAccesses, AccessLists
<1>7. OfTheUser(t, u)
  BY <1>2, <1>4 DEF OfTheUser, AccessTruth
<1> DEFINE dirty    == \E j \in DOMAIN s : AccessChange(s[j])
           dirtyNow == \E j \in DOMAIN t : AccessChange(t[j])
<1>8. dirty => dirtyNow
  BY <1>2, <1>3 DEF AccessChange
<1>9. Sys!Truth(AccessLists(s), FreshAccesses(s, u, rows), dirty, shown = rows)
  BY DEF AccessTruth
<1> HIDE DEF dirty, dirtyNow
<1>10. Sys!Truth(AccessLists(t), FreshAccesses(t, u, rows), dirtyNow, shown = rows)
  BY <1>5, <1>6, <1>8, <1>9 DEF Sys!Truth
<1>11. QED
  BY <1>7, <1>10 DEF AccessTruth, dirtyNow, t

LEMMA AccessMoreSays ==
    ASSUME NEW s, AccessSays(s), NEW q, AccessSays(q) PROVE AccessSays(s \o q)
<1> DEFINE S == Sys!Elements(s) \cup Sys!Elements(q)
           t == s \o q
<1>1. s \in Seq(S) /\ q \in Seq(S)
  BY DEF AccessSays
<1> HIDE DEF S
<1>2. /\ t \in Seq(S) /\ DOMAIN t = 1..(Len(s) + Len(q))
      /\ DOMAIN s = 1..Len(s) /\ Len(s) \in Nat /\ DOMAIN q = 1..Len(q) /\ Len(q) \in Nat
      /\ \A j \in 1..Len(s) : t[j] = s[j]
      /\ \A j \in (Len(s) + 1)..(Len(s) + Len(q)) : t[j] = q[j - Len(s)]
  BY <1>1
<1> HIDE DEF t
<1>3. t \in Seq(Sys!Elements(t))
  BY <1>2, Sys!OwnElements
<1>4. ASSUME NEW j \in DOMAIN t PROVE {"op", "user", "answer"} \subseteq DOMAIN t[j]
  <2>1. CASE j <= Len(s)
    BY <1>2, <2>1 DEF AccessSays
  <2>2. CASE ~(j <= Len(s))
    <3>1. j - Len(s) \in DOMAIN q /\ t[j] = q[j - Len(s)]
      BY <1>2, <2>2
    <3>2. QED
      BY <3>1 DEF AccessSays
  <2>3. QED
    BY <2>1, <2>2
<1>5. QED
  BY <1>3, <1>4 DEF AccessSays, t

LEMMA AccessGone ==
    ASSUME NEW s, AccessSays(s), NEW i \in DOMAIN s, ~AccessChange(s[i]),
           NEW u, NEW shown, NEW shownNow, NEW rows, AccessTruth(s, u, shown, rows),
           \/ s[i].op # "accesses" /\ shownNow = shown
           \/ /\ s[i].op = "accesses" /\ s[i].answer # None
              /\ \A j \in 1..(i - 1) : s[j].op # "accesses"
              /\ shownNow = s[i].answer.rows
    PROVE  AccessTruth(Sys!Rest(s, i), u, shownNow, rows)
<1> DEFINE t == Sys!Rest(s, i)
           L == AccessLists(s)
           M == AccessLists(t)
           F == FreshAccesses(s, u, rows)
           G == FreshAccesses(t, u, rows)
           dirty    == \E j \in DOMAIN s : AccessChange(s[j])
           dirtyNow == \E j \in DOMAIN t : AccessChange(t[j])
<1>1. Sys!IsGone(s, t, i)
  BY Sys!Going DEF AccessSays
<1> HIDE DEF t
<1>2. /\ DOMAIN s = 1..Len(s) /\ Len(s) \in Nat
      /\ \A j \in DOMAIN t : Sys!Before(i, j) \in DOMAIN s /\ t[j] = s[Sys!Before(i, j)]
      /\ \A j \in DOMAIN s : j # i => Sys!Now(i, j) \in DOMAIN t /\ t[Sys!Now(i, j)] = s[j]
  BY <1>1 DEF Sys!IsGone
<1>3. /\ L \subseteq DOMAIN s /\ F \subseteq L /\ M \subseteq DOMAIN t
      /\ \A j \in M : Sys!Before(i, j) \in L
      /\ \A k \in F : k # i => Sys!Now(i, k) \in G
  BY <1>2 DEF AccessLists, FreshAccesses
<1>4. dirty => dirtyNow
  BY <1>2 DEF AccessChange
<1>5. Sys!Truth(L, F, dirty, shown = rows)
  BY DEF AccessTruth
<1>6. OfTheUser(t, u)
  BY <1>2 DEF OfTheUser, AccessTruth
<1>7. \/ i \notin L /\ (shown = rows => shownNow = rows)
      \/ i \in L /\ (\A j \in L : ~(j < i)) /\ (i \in F => shownNow = rows)
  <2>1. CASE s[i].op # "accesses" /\ shownNow = shown
    BY <2>1 DEF AccessLists
  <2>2. CASE /\ s[i].op = "accesses" /\ s[i].answer # None
             /\ \A j \in 1..(i - 1) : s[j].op # "accesses"
             /\ shownNow = s[i].answer.rows
    <3>1. \A j \in L : ~(j < i)
      BY <1>2, <2>2 DEF AccessLists
    <3>2. QED
      BY <2>2, <3>1 DEF AccessLists, FreshAccesses
  <2>3. QED
    BY <2>1, <2>2
<1> DEFINE right    == shown = rows
           rightNow == shownNow = rows
<1>8. /\ Sys!Truth(L, F, dirty, right)
      /\ \/ i \notin L /\ (right => rightNow)
         \/ i \in L /\ (\A j \in L : ~(j < i)) /\ (i \in F => rightNow)
  BY <1>5, <1>7
<1> HIDE DEF L, M, F, G, dirty, dirtyNow, right, rightNow
<1>9. Sys!Truth(M, G, dirtyNow, rightNow)
  BY <1>1, <1>3, <1>4, <1>8, Sys!TruthGone
<1>10. QED
  BY <1>6, <1>9 DEF AccessTruth, M, G, dirtyNow, rightNow, t

LEMMA AccessAsked ==
    ASSUME NEW s, AccessSays(s), NEW u, OfTheUser(s, u), NEW shown, NEW rows, NEW e,
           e = AccessTab!AccessesCall(u)
    PROVE  AccessSays(Append(s, e)) /\ AccessTruth(Append(s, e), u, shown, rows)
<1> DEFINE t == Append(s, e)
<1>1. t \in Seq(Sys!Elements(t)) /\ Sys!IsSent(s, t, e)
  BY Sys!Sending DEF AccessSays
<1>2. /\ e.op = "accesses" /\ e.user = u /\ e.answer = None
      /\ {"op", "user", "answer"} \subseteq DOMAIN e
  BY DEF AccessTab!AccessesCall, AccessTab!Call
<1> HIDE DEF t
<1>3. /\ \A j \in DOMAIN t : (j \in DOMAIN s /\ t[j] = s[j]) \/ t[j] = e
      /\ Len(s) + 1 \in DOMAIN t /\ t[Len(s) + 1] = e
  BY <1>1 DEF Sys!IsSent
<1>4. AccessSays(t)
  BY <1>1, <1>2, <1>3 DEF AccessSays
<1>5. OfTheUser(t, u)
  BY <1>2, <1>3 DEF OfTheUser, AccessWrites
<1>6. Len(s) + 1 \in FreshAccesses(t, u, rows) /\ AccessLists(t) \subseteq DOMAIN t
  BY <1>2, <1>3 DEF FreshAccesses, AccessLists
<1> DEFINE dirty == \E j \in DOMAIN t : AccessChange(t[j])
           L == AccessLists(t)
           F == FreshAccesses(t, u, rows)
<1> HIDE DEF dirty, L, F
<1>7. Sys!Truth(L, F, dirty, shown = rows)
  BY <1>1, <1>6, Sys!TruthAsked DEF L, F
<1>8. QED
  BY <1>4, <1>5, <1>7 DEF AccessTruth, dirty, L, F, t

LEMMA AccessStays ==
    ASSUME AccessTruthInv, UNCHANGED <<calls, server, hist>>, view'.user = view.user,
           view'.rows = view.rows
    PROVE  AccessTruthOk'
<1>1. AccessTab!RowsOf(view.user)' = AccessTab!RowsOf(view.user)
  BY DEF AccessTab!RowsOf, AccessTab!ActiveIds
<1>2. QED
  BY <1>1 DEF AccessTruthInv, AccessTruthOk

LEMMA AccessTruthServe ==
    ASSUME NoneIsNoValue, AccessTruthInv, NEW i \in DOMAIN calls, AccessTab!Serve(i)
    PROVE  /\ "user" \in DOMAIN view' /\ "calm" \in DOMAIN hist'
           /\ AccessSays(calls') /\ AccessTruthOk'
<1>1. PICK a :
        /\ calls' = [calls EXCEPT ![i].answer = a] /\ view' = view /\ hist' = hist
        /\ calls[i].answer = None
        /\ server' = server \/ (calls[i].op \in AccessWrites /\ a = 1)
        /\ calls[i].op = "accesses" =>
             server' = server /\ a.rows = AccessTab!RowsOf(calls[i].user)
  <2>1. CASE AccessTab!ServeAccesses(i)
    <3> DEFINE b == [rows |-> AccessTab!RowsOf(calls[i].user)]
    <3>1. /\ calls' = [calls EXCEPT ![i].answer = b] /\ view' = view /\ hist' = hist
          /\ calls[i].answer = None /\ server' = server
      BY <2>1 DEF AccessTab!ServeAccesses, AccessTab!Answered
    <3>2. b.rows = AccessTab!RowsOf(calls[i].user)
      OBVIOUS
    <3> HIDE DEF b
    <3>3. QED
      BY <3>1, <3>2
  <2>2. CASE AccessTab!ServeLookup(i)
    BY <2>2 DEF AccessTab!ServeLookup, AccessTab!Answered
  <2>3. CASE AccessTab!ServeGrant(i)
    BY <2>3 DEF AccessTab!ServeGrant, AccessTab!Answered, AccessWrites
  <2>4. CASE AccessTab!ServeChangeRole(i)
    BY <2>4 DEF AccessTab!ServeChangeRole, AccessTab!Answered, AccessWrites
  <2>5. CASE AccessTab!ServeRevoke(i)
    BY <2>5 DEF AccessTab!ServeRevoke, AccessTab!Answered, AccessWrites
  <2>6. QED
    BY <2>1, <2>2, <2>3, <2>4, <2>5 DEF AccessTab!Serve
<1>2. AccessSays(calls) /\ calls[i].answer # 1
  BY <1>1 DEF AccessTruthInv, NoneIsNoValue
<1>3. AccessSays(calls') /\ AccessTruthAnswered(calls, calls', i, a)
  BY <1>1, <1>2, AccessAnswered
<1>4. AccessTruthOk'
  <2> SUFFICES ASSUME hist'.calm, view'.user # None
               PROVE  AccessTruth(calls', view'.user, view'.rows, AccessTab!RowsOf(view.user)')
    BY DEF AccessTruthOk
  <2>1. PICK u, shown : u = view.user /\ shown = view.rows
    OBVIOUS
  <2>2. PICK rows, rowsNow : rows = AccessTab!RowsOf(u) /\ rowsNow = AccessTab!RowsOf(u)'
    OBVIOUS
  <2>3. AccessTab!RowsOf(view.user)' = rowsNow
    BY <1>1, <2>1, <2>2 DEF AccessTab!RowsOf, AccessTab!ActiveIds
  <2>4. server' = server => rowsNow = rows
    BY <2>2 DEF AccessTab!RowsOf, AccessTab!ActiveIds
  <2>5. AccessTruth(calls, u, shown, rows)
    BY <1>1, <2>1, <2>2 DEF AccessTruthInv, AccessTruthOk
  <2>6. calls[i].op = "accesses" /\ calls[i].user = u => a.rows = rowsNow
    BY <1>1, <2>2, <2>4
  <2>7. AccessTruth(calls', u, shown, rowsNow)
    BY <1>1, <1>3, <2>4, <2>5, <2>6 DEF AccessTruthAnswered
  <2>8. QED
    BY <1>1, <2>1, <2>3, <2>7
<1>5. QED
  BY <1>1, <1>3, <1>4 DEF AccessTruthInv

\* One request more, or several, for anything but accesses.
LEMMA AccessSendsMore ==
    ASSUME AccessTruthInv, NEW q, AccessSays(q), \A j \in DOMAIN q : q[j].op # "accesses",
           OfTheUser(q, view.user), calls' = calls \o q, UNCHANGED <<server, hist>>,
           "user" \in DOMAIN view', view'.user = view.user, view'.rows = view.rows
    PROVE  /\ "user" \in DOMAIN view' /\ "calm" \in DOMAIN hist'
           /\ AccessSays(calls') /\ AccessTruthOk'
<1>1. AccessSays(calls')
  BY AccessMoreSays DEF AccessTruthInv
<1>2. AccessTruthOk'
  <2> SUFFICES ASSUME hist'.calm, view'.user # None
               PROVE  AccessTruth(calls', view'.user, view'.rows, AccessTab!RowsOf(view.user)')
    BY DEF AccessTruthOk
  <2>1. AccessTab!RowsOf(view.user)' = AccessTab!RowsOf(view.user)
    BY DEF AccessTab!RowsOf, AccessTab!ActiveIds
  <2>2. PICK u, shown, rows :
          u = view.user /\ shown = view.rows /\ rows = AccessTab!RowsOf(view.user)
    OBVIOUS
  <2>3. AccessTruth(calls, u, shown, rows) /\ AccessSays(calls) /\ OfTheUser(q, u)
    BY <2>2 DEF AccessTruthInv, AccessTruthOk
  <2>4. AccessTruth(calls', u, shown, rows)
    BY <2>3, AccessMore
  <2>5. QED
    BY <2>1, <2>2, <2>4
<1>3. QED
  BY <1>1, <1>2 DEF AccessTruthInv

LEMMA OneAccessCall ==
    ASSUME NEW e, {"op", "user", "answer"} \subseteq DOMAIN e, NEW s, AccessSays(s)
    PROVE  AccessSays(<<e>>) /\ DOMAIN <<e>> = {1} /\ <<e>>[1] = e /\ Append(s, e) = s \o <<e>>
<1>1. <<e>> \in Seq({e}) /\ DOMAIN <<e>> = {1} /\ <<e>>[1] = e
  OBVIOUS
<1>2. <<e>> \in Seq(Sys!Elements(<<e>>))
  BY <1>1, Sys!OwnElements
<1>3. Append(s, e) = s \o <<e>>
  BY DEF AccessSays
<1>4. QED
  BY <1>1, <1>2, <1>3 DEF AccessSays

LEMMA RolesCallsSay ==
    ASSUME NEW X, IsFiniteSet(X)
    PROVE  LET q == AccessTab!RolesCalls(X)
           IN  AccessSays(q) /\ \A j \in DOMAIN q : q[j].op = "roles"
<1> DEFINE q == AccessTab!RolesCalls(X)
<1>1. /\ Sys!Calls(q, {"row"})
      /\ \A j \in DOMAIN q : q[j].op = "roles" /\ "answer" \in DOMAIN q[j]
  BY RolesCallsOk
<1>2. \A j \in DOMAIN q : \E x : q[j] = AccessTab!RolesCall(x)
  BY DEF AccessTab!RolesCalls
<1>3. \A x : {"op", "user", "answer"} \subseteq DOMAIN AccessTab!RolesCall(x)
  BY DEF AccessTab!RolesCall, AccessTab!Call
<1> HIDE DEF q
<1>4. QED
  BY <1>1, <1>2, <1>3 DEF AccessSays, Sys!Calls, q

LEMMA AccessTruthClick ==
    ASSUME AccessTruthInv, AccessTab!Click
    PROVE  /\ "user" \in DOMAIN view' /\ "calm" \in DOMAIN hist'
           /\ AccessSays(calls') /\ AccessTruthOk'
<1>1. /\ {"user", "rows"} \subseteq DOMAIN view /\ AccessSays(calls) /\ "calm" \in DOMAIN hist
  BY DEF AccessTruthInv, AccessInv, AccessOk, AccessFields
<1>2. ASSUME UNCHANGED <<calls, server, hist>>, "user" \in DOMAIN view',
             view'.user = view.user, view'.rows = view.rows
      PROVE  /\ "user" \in DOMAIN view' /\ "calm" \in DOMAIN hist'
             /\ AccessSays(calls') /\ AccessTruthOk'
  BY <1>1, <1>2, AccessStays DEF AccessTruthInv
<1>3. ASSUME NEW op \in AccessWrites, NEW row, UNCHANGED <<server, hist>>,
             "user" \in DOMAIN view', view'.user = view.user, view'.rows = view.rows,
             calls' = Append(calls, AccessTab!Call(op, view.user, row))
      PROVE  /\ "user" \in DOMAIN view' /\ "calm" \in DOMAIN hist'
             /\ AccessSays(calls') /\ AccessTruthOk'
  <2>1. PICK e : e = AccessTab!Call(op, view.user, row)
    OBVIOUS
  <2>2. {"op", "user", "answer"} \subseteq DOMAIN e /\ e.op = op /\ e.user = view.user
    BY <2>1 DEF AccessTab!Call
  <2>3. PICK q : q = <<e>>
    OBVIOUS
  <2>4. AccessSays(q) /\ DOMAIN q = {1} /\ q[1] = e /\ calls' = calls \o q
    BY <1>1, <1>3, <2>1, <2>2, <2>3, OneAccessCall
  <2>5. (\A j \in DOMAIN q : q[j].op # "accesses") /\ OfTheUser(q, view.user)
    BY <2>2, <2>4 DEF OfTheUser, AccessWrites
  <2>6. QED
    BY <1>3, <2>4, <2>5, AccessSendsMore
<1>4. CASE AccessTab!Grant
  BY <1>1, <1>3, <1>4 DEF AccessTab!Grant, AccessWrites
<1>5. ASSUME NEW op \in RowWrites, NEW row, AccessTab!Send(op, row)
      PROVE  /\ "user" \in DOMAIN view' /\ "calm" \in DOMAIN hist'
             /\ AccessSays(calls') /\ AccessTruthOk'
  BY <1>1, <1>3, <1>5 DEF AccessTab!Send, AccessWrites, RowWrites
<1>6. CASE AccessTab!ConfirmRevoke
  BY <1>5, <1>6 DEF AccessTab!ConfirmRevoke, RowWrites
<1>7. CASE AccessTab!CancelRevoke
  BY <1>1, <1>2, <1>7 DEF AccessTab!CancelRevoke
<1>8. ASSUME NEW u, AccessTab!SelectUser(u)
      PROVE  /\ "user" \in DOMAIN view' /\ "calm" \in DOMAIN hist'
             /\ AccessSays(calls') /\ AccessTruthOk'
  <2>1. CASE u = None
    <3>1. view' = [view EXCEPT !.user = None, !.rows = {}] /\ UNCHANGED <<calls, hist>>
      BY <1>8, <2>1 DEF AccessTab!SelectUser
    <3>2. "user" \in DOMAIN view' /\ view'.user = None
      BY <1>1, <3>1
    <3>3. QED
      BY <1>1, <3>1, <3>2 DEF AccessTruthOk
  <2>2. CASE u # None
    <3>1. /\ view' = [[view EXCEPT !.user = u] EXCEPT !.loading = TRUE]
          /\ calls' = Append(calls, AccessTab!AccessesCall(u))
          /\ hist' = IF AccessTab!Pending(AccessTab!Writes) THEN AccessTab!Disturbed
                     ELSE AccessTab!Asked(calls, TRUE)
      BY <1>8, <2>2 DEF AccessTab!SelectUser, AccessTab!FetchAccesses
    <3>2. "user" \in DOMAIN view' /\ view'.user = u
      BY <1>1, <3>1
    <3>3. "calm" \in DOMAIN hist' /\ (hist'.calm => ~AccessTab!Pending(AccessTab!Writes))
      BY <1>1, <3>1 DEF AccessTab!Disturbed, AccessTab!Asked
    <3>4. ~AccessTab!Pending(AccessTab!Writes) => OfTheUser(calls, u)
      BY DEF AccessTab!Pending, AccessTab!Writes, OfTheUser, AccessWrites
    <3>5. hist'.calm => AccessTruth(calls', view'.user, view'.rows, AccessTab!RowsOf(view.user)')
      BY <1>1, <3>1, <3>2, <3>3, <3>4, AccessAsked
    <3>6. AccessSays(calls')
      <4>1. PICK e : e = AccessTab!AccessesCall(u)
        OBVIOUS
      <4>2. {"op", "user", "answer"} \subseteq DOMAIN e
        BY <4>1 DEF AccessTab!AccessesCall, AccessTab!Call
      <4>3. PICK q : q = <<e>>
        OBVIOUS
      <4>4. AccessSays(q) /\ calls' = calls \o q
        BY <1>1, <3>1, <4>1, <4>2, <4>3, OneAccessCall
      <4>5. QED
        BY <1>1, <4>4, AccessMoreSays
    <3>7. QED
      BY <3>2, <3>3, <3>5, <3>6 DEF AccessTruthOk
  <2>3. QED
    BY <2>1, <2>2
<1>9. ASSUME NEW x, AccessTab!SelectSystem(x)
      PROVE  /\ "user" \in DOMAIN view' /\ "calm" \in DOMAIN hist'
             /\ AccessSays(calls') /\ AccessTruthOk'
  <2>1. PICK q : q = AccessTab!RolesCalls({x})
    OBVIOUS
  <2>2. AccessSays(q) /\ \A j \in DOMAIN q : q[j].op = "roles"
    BY <2>1, RolesCallsSay, FS_Singleton
  <2>3. (\A j \in DOMAIN q : q[j].op # "accesses") /\ OfTheUser(q, view.user)
    BY <2>2 DEF OfTheUser, AccessWrites
  <2>4. /\ calls' = calls \o q /\ UNCHANGED <<server, hist>>
        /\ view' = [view EXCEPT !.grantSystem = x, !.grantRole = None]
    BY <1>9, <2>1 DEF AccessTab!SelectSystem
  <2>5. "user" \in DOMAIN view' /\ view'.user = view.user /\ view'.rows = view.rows
    BY <1>1, <2>4
  <2>6. QED
    BY <2>2, <2>3, <2>4, <2>5, AccessSendsMore
<1>10. ASSUME NEW r, AccessTab!SelectRole(r)
       PROVE  /\ "user" \in DOMAIN view' /\ "calm" \in DOMAIN hist'
              /\ AccessSays(calls') /\ AccessTruthOk'
  BY <1>1, <1>2, <1>10 DEF AccessTab!SelectRole
<1>11. ASSUME NEW row, AccessTab!AskRevoke(row)
       PROVE  /\ "user" \in DOMAIN view' /\ "calm" \in DOMAIN hist'
              /\ AccessSays(calls') /\ AccessTruthOk'
  BY <1>1, <1>2, <1>11 DEF AccessTab!AskRevoke
<1>12. ASSUME NEW row, NEW r, AccessTab!ChangeRole(row, r)
       PROVE  /\ "user" \in DOMAIN view' /\ "calm" \in DOMAIN hist'
              /\ AccessSays(calls') /\ AccessTruthOk'
  BY <1>5, <1>12 DEF AccessTab!ChangeRole, RowWrites
<1>13. QED
  BY <1>4, <1>6, <1>7, <1>8, <1>9, <1>10, <1>11, <1>12, Zenon DEF AccessTab!Click

LEMMA AccessGoneSays ==
    ASSUME NEW s, AccessSays(s), NEW i \in DOMAIN s PROVE AccessSays(Sys!Rest(s, i))
<1> DEFINE t == Sys!Rest(s, i)
<1>1. t \in Seq(Sys!Elements(t)) /\ \A j \in DOMAIN t : \E k \in DOMAIN s : t[j] = s[k]
  BY Sys!Going DEF AccessSays, Sys!IsGone
<1> HIDE DEF t
<1>2. QED
  BY <1>1 DEF AccessSays, t

\* The page asks again for the user of the write that is through.
LEMMA AccessAsksAgain ==
    ASSUME AccessTruthInv, NEW i \in DOMAIN calls, calls[i].op \in AccessWrites,
           UNCHANGED server, "user" \in DOMAIN view', view'.user = view.user,
           calls' = Append(Sys!Rest(calls, i), AccessTab!AccessesCall(calls[i].user)),
           hist' = AccessTab!Asked(Sys!Rest(calls, i), calls[i].user = view.user)
    PROVE  /\ "user" \in DOMAIN view' /\ "calm" \in DOMAIN hist'
           /\ AccessSays(calls') /\ AccessTruthOk'
<1> DEFINE rest == Sys!Rest(calls, i)
           e    == AccessTab!AccessesCall(calls[i].user)
           idle == \A j \in DOMAIN rest : rest[j].op \notin AccessTab!Reads \cup AccessTab!Writes
<1>1. AccessSays(calls) /\ "calm" \in DOMAIN hist /\ AccessTruthOk
  BY DEF AccessTruthInv
<1>2. /\ AccessSays(rest)
      /\ \A j \in DOMAIN rest : \E k \in DOMAIN calls : rest[j] = calls[k]
  <2>1. AccessSays(rest)
    BY <1>1, AccessGoneSays
  <2>2. \A j \in DOMAIN rest : \E k \in DOMAIN calls : rest[j] = calls[k]
    BY <1>1, Sys!Going DEF AccessSays, Sys!IsGone
  <2>3. QED
    BY <2>1, <2>2
<1>3. calls' = Append(rest, e) /\ hist' = AccessTab!Asked(rest, calls[i].user = view.user)
  OBVIOUS
<1>4. "calm" \in DOMAIN hist' /\ (hist'.calm => hist.calm \/ (calls[i].user = view.user /\ idle))
  BY <1>1, <1>3 DEF AccessTab!Asked
<1>5. idle => \A u : OfTheUser(rest, u)
  BY DEF AccessTab!Writes, OfTheUser, AccessWrites
<1> HIDE DEF rest, idle
<1>6. ASSUME hist'.calm, view'.user # None
      PROVE  calls[i].user = view.user /\ OfTheUser(rest, view.user)
  <2>1. CASE hist.calm
    <3>1. PICK u, shown, rows : u = view.user /\ AccessTruth(calls, u, shown, rows)
      BY <1>1, <1>6, <2>1 DEF AccessTruthOk
    <3>2. OfTheUser(calls, u)
      BY <3>1 DEF AccessTruth
    <3>3. calls[i].user = u /\ OfTheUser(rest, u)
      BY <1>2, <3>2 DEF OfTheUser
    <3>4. QED
      BY <3>1, <3>3
  <2>2. CASE calls[i].user = view.user /\ idle
    BY <1>5, <2>2
  <2>3. QED
    BY <1>4, <1>6, <2>1, <2>2
<1>7. e.op = "accesses" /\ {"op", "user", "answer"} \subseteq DOMAIN e
  BY DEF AccessTab!AccessesCall, AccessTab!Call
<1>8. AccessSays(calls')
  <2> HIDE DEF e
  <2>1. PICK q : q = <<e>>
    OBVIOUS
  <2>2. AccessSays(q) /\ calls' = rest \o q
    BY <1>2, <1>3, <1>7, <2>1, OneAccessCall
  <2>3. QED
    BY <1>2, <2>2, AccessMoreSays
<1>9. AccessTruthOk'
  <2> SUFFICES ASSUME hist'.calm, view'.user # None
               PROVE  AccessTruth(calls', view'.user, view'.rows, AccessTab!RowsOf(view.user)')
    BY DEF AccessTruthOk
  <2>1. PICK u, shown, rows :
          u = view.user /\ shown = view'.rows /\ rows = AccessTab!RowsOf(view.user)'
    OBVIOUS
  <2>2. OfTheUser(rest, u) /\ e = AccessTab!AccessesCall(u)
    BY <1>6, <2>1
  <2> HIDE DEF e
  <2>3. AccessTruth(calls', u, shown, rows)
    BY <1>2, <1>3, <2>2, AccessAsked
  <2>4. QED
    BY <2>1, <2>3
<1>10. QED
  BY <1>4, <1>8, <1>9

\* A request that is through and changes nothing, or gets lost.
LEMMA AccessLeaves ==
    ASSUME AccessTruthInv, NEW i \in DOMAIN calls, calls' = Sys!Rest(calls, i),
           UNCHANGED server, "user" \in DOMAIN view', view'.user = view.user,
           "calm" \in DOMAIN hist',
           hist'.calm => /\ hist.calm /\ ~AccessChange(calls[i])
                         /\ \/ calls[i].op # "accesses" /\ view'.rows = view.rows
                            \/ /\ calls[i].op = "accesses" /\ calls[i].answer # None
                               /\ \A j \in 1..(i - 1) : calls[j].op # "accesses"
                               /\ view'.rows = calls[i].answer.rows
    PROVE  AccessSays(calls') /\ AccessTruthOk'
<1>1. AccessSays(calls) /\ AccessTruthOk
  BY DEF AccessTruthInv
<1>2. AccessSays(calls')
  BY <1>1, AccessGoneSays
<1>3. AccessTruthOk'
  <2> SUFFICES ASSUME hist'.calm, view'.user # None
               PROVE  AccessTruth(calls', view'.user, view'.rows, AccessTab!RowsOf(view.user)')
    BY DEF AccessTruthOk
  <2>1. AccessTab!RowsOf(view.user)' = AccessTab!RowsOf(view.user)
    BY DEF AccessTab!RowsOf, AccessTab!ActiveIds
  <2>2. PICK u, shown, shownNow, rows :
          /\ u = view.user /\ shown = view.rows /\ shownNow = view'.rows
          /\ rows = AccessTab!RowsOf(view.user)
    OBVIOUS
  <2>3. PICK s, t : s = calls /\ t = calls' /\ t = Sys!Rest(s, i)
    OBVIOUS
  <2>4. AccessSays(s) /\ i \in DOMAIN s /\ AccessTruth(s, u, shown, rows) /\ ~AccessChange(s[i])
    BY <1>1, <2>2, <2>3 DEF AccessTruthOk
  <2>5. \/ s[i].op # "accesses" /\ shownNow = shown
        \/ /\ s[i].op = "accesses" /\ s[i].answer # None
           /\ \A j \in 1..(i - 1) : s[j].op # "accesses"
           /\ shownNow = s[i].answer.rows
    BY <2>2, <2>3
  <2>6. AccessTruth(t, u, shownNow, rows)
    BY <2>3, <2>4, <2>5, AccessGone
  <2>7. QED
    BY <2>1, <2>2, <2>3, <2>6
<1>4. QED
  BY <1>2, <1>3

LEMMA AccessTruthSettle ==
    ASSUME NoneIsNoValue, AccessTruthInv, NEW i \in DOMAIN calls, AccessTab!Settle(i)
    PROVE  /\ "user" \in DOMAIN view' /\ "calm" \in DOMAIN hist'
           /\ AccessSays(calls') /\ AccessTruthOk'
<1>1. /\ {"user", "rows"} \subseteq DOMAIN view /\ AccessSays(calls) /\ "calm" \in DOMAIN hist
      /\ CallsRows(calls) /\ AccessTab!Without(i) = Sys!Rest(calls, i)
  BY DEF AccessTruthInv, AccessInv, AccessOk, AccessFields, AccessTab!Without, Sys!Rest
<1>2. CASE AccessTab!ShowLookups(i) \/ AccessTab!ShowRoles(i)
  <2>1. /\ calls' = Sys!Rest(calls, i) /\ UNCHANGED <<server, hist>>
        /\ calls[i].op \in {"lookups", "roles"}
    BY <1>1, <1>2 DEF AccessTab!ShowLookups, AccessTab!ShowRoles
  <2>2. "user" \in DOMAIN view' /\ view'.user = view.user /\ view'.rows = view.rows
    BY <1>1, <1>2 DEF AccessTab!ShowLookups, AccessTab!ShowRoles
  <2>3. ~AccessChange(calls[i]) /\ calls[i].op # "accesses"
    BY <2>1 DEF AccessChange, AccessWrites
  <2>4. QED
    BY <1>1, <2>1, <2>2, <2>3, AccessLeaves
<1>3. CASE AccessTab!ShowAccesses(i)
  <2> DEFINE answer == calls[i].answer.rows
             X      == {row.system : row \in answer}
             f      == [row \in answer |-> row.system]
  <2>1. /\ view' = [view EXCEPT !.rows = answer, !.loading = FALSE] /\ UNCHANGED server
        /\ calls' = Sys!Rest(calls, i) \o AccessTab!RolesCalls(X)
        /\ hist' = AccessTab!Displayed(i)
        /\ calls[i].op = "accesses" /\ calls[i].answer # None
    BY <1>1, <1>3 DEF AccessTab!ShowAccesses
  <2>2. RowsOk(answer)
    BY <1>1, <2>1 DEF CallsRows
  <2>3. X = {f[row] : row \in answer} /\ DOMAIN f = answer
    OBVIOUS
  <2> HIDE DEF answer, X, f
  <2>4. IsFiniteSet(X)
    BY <2>2, <2>3, FiniteImage DEF RowsOk
  <2>5. "user" \in DOMAIN view' /\ view'.user = view.user /\ view'.rows = answer
    BY <1>1, <2>1
  <2>6. /\ "calm" \in DOMAIN hist'
        /\ hist'.calm => hist.calm /\ \A j \in 1..(i - 1) : calls[j].op # "accesses"
    <3>1. "calm" \in DOMAIN hist' /\ (hist'.calm => hist.calm /\ ~AccessTab!Overtakes(i))
      BY <1>1, <2>1 DEF AccessTab!Displayed
    <3>2. QED
      BY <2>1, <3>1 DEF AccessTab!Overtakes
  <2>7. PICK q : q = AccessTab!RolesCalls(X)
    OBVIOUS
  <2>8. AccessSays(q) /\ \A j \in DOMAIN q : q[j].op = "roles"
    BY <2>4, <2>7, RolesCallsSay
  <2>9. (\A j \in DOMAIN q : q[j].op # "accesses") /\ \A u : OfTheUser(q, u)
    BY <2>8 DEF OfTheUser, AccessWrites
  <2>10. PICK s, rest : s = calls /\ rest = Sys!Rest(s, i)
    OBVIOUS
  <2>11. AccessSays(rest) /\ calls' = rest \o q
    BY <1>1, <2>1, <2>7, <2>10, AccessGoneSays
  <2>12. AccessSays(calls')
    BY <2>8, <2>11, AccessMoreSays
  <2>13. AccessTruthOk'
    <3> SUFFICES ASSUME hist'.calm, view'.user # None
                 PROVE  AccessTruth(calls', view'.user, view'.rows, AccessTab!RowsOf(view.user)')
      BY DEF AccessTruthOk
    <3>1. AccessTab!RowsOf(view.user)' = AccessTab!RowsOf(view.user)
      BY <2>1, <2>5 DEF AccessTab!RowsOf, AccessTab!ActiveIds
    <3>2. PICK u, shown, shownNow, rows :
            /\ u = view.user /\ shown = view.rows /\ shownNow = answer
            /\ rows = AccessTab!RowsOf(view.user)
      OBVIOUS
    <3>3. /\ AccessSays(s) /\ i \in DOMAIN s /\ AccessTruth(s, u, shown, rows)
          /\ s[i].op = "accesses" /\ s[i].answer # None /\ shownNow = s[i].answer.rows
          /\ \A j \in 1..(i - 1) : s[j].op # "accesses"
      BY <1>1, <2>1, <2>5, <2>6, <2>10, <3>2 DEF AccessTruthInv, AccessTruthOk, answer
    <3>4. ~AccessChange(s[i])
      BY <3>3 DEF AccessChange, AccessWrites
    <3>5. AccessTruth(rest, u, shownNow, rows)
      BY <2>10, <3>3, <3>4, AccessGone
    <3>6. AccessTruth(calls', u, shownNow, rows)
      BY <2>8, <2>9, <2>11, <3>5, AccessMore
    <3>7. QED
      BY <2>5, <3>1, <3>2, <3>6
  <2>14. QED
    BY <2>5, <2>6, <2>12, <2>13
<1>4. ASSUME NEW v, AccessTab!Refetch(i, v), "user" \in DOMAIN v, v.user = view.user,
             calls[i].op \in AccessWrites
      PROVE  /\ "user" \in DOMAIN view' /\ "calm" \in DOMAIN hist'
             /\ AccessSays(calls') /\ AccessTruthOk'
  <2>1. /\ view' = [v EXCEPT !.loading = TRUE] /\ UNCHANGED server
        /\ calls' = Append(Sys!Rest(calls, i), AccessTab!AccessesCall(calls[i].user))
        /\ hist' = AccessTab!Asked(Sys!Rest(calls, i), calls[i].user = view.user)
    BY <1>1, <1>4 DEF AccessTab!Refetch, AccessTab!FetchAccesses
  <2>2. "user" \in DOMAIN view' /\ view'.user = view.user
    BY <1>4, <2>1
  <2>3. QED
    BY <1>4, <2>1, <2>2, AccessAsksAgain
<1>5. CASE AccessTab!Granted(i) \/ AccessTab!RoleChanged(i) \/ AccessTab!Revoked(i)
  <2>1. calls[i].op \in AccessWrites
    BY <1>5 DEF AccessTab!Granted, AccessTab!RoleChanged, AccessTab!Revoked, AccessWrites
  <2>2. PICK v : AccessTab!Refetch(i, v) /\ "user" \in DOMAIN v /\ v.user = view.user
    <3> DEFINE v1 == [view EXCEPT !.grantSystem = None, !.grantRole = None, !.granting = FALSE]
               v2 == [view EXCEPT !.busy = None]
               v3 == [view EXCEPT !.confirm = None, !.busy = None]
    <3>1. AccessTab!Refetch(i, v1) \/ AccessTab!Refetch(i, v2) \/ AccessTab!Refetch(i, v3)
      BY <1>5 DEF AccessTab!Granted, AccessTab!RoleChanged, AccessTab!Revoked
    <3>2. /\ "user" \in DOMAIN v1 /\ v1.user = view.user
          /\ "user" \in DOMAIN v2 /\ v2.user = view.user
          /\ "user" \in DOMAIN v3 /\ v3.user = view.user
      BY <1>1
    <3> HIDE DEF v1, v2, v3
    <3>3. QED
      BY <3>1, <3>2
  <2>3. QED
    BY <1>4, <2>1, <2>2
<1>6. CASE AccessTab!Refused(i) \/ AccessTab!Lost(i)
  <2>1. calls' = Sys!Rest(calls, i) /\ view' = AccessTab!Released(i) /\ UNCHANGED server
    BY <1>1, <1>6 DEF AccessTab!Refused, AccessTab!Lost
  <2>2. "user" \in DOMAIN view' /\ view'.user = view.user /\ view'.rows = view.rows
    BY <1>1, <2>1 DEF AccessTab!Released
  <2>3. CASE AccessTab!Refused(i)
    <3>1. UNCHANGED hist /\ calls[i].op \in AccessTab!Writes /\ calls[i].answer = 0
      BY <2>3 DEF AccessTab!Refused
    <3>2. ~AccessChange(calls[i]) /\ calls[i].op # "accesses"
      BY <3>1 DEF AccessChange, AccessTab!Writes
    <3>3. QED
      BY <1>1, <2>1, <2>2, <3>1, <3>2, AccessLeaves
  <2>4. CASE AccessTab!Lost(i)
    <3>1. hist' = IF calls[i].op \in {"lookups", "roles"} THEN hist ELSE AccessTab!Disturbed
      BY <2>4 DEF AccessTab!Lost
    <3>2. /\ "calm" \in DOMAIN hist'
          /\ hist'.calm => hist.calm /\ calls[i].op \in {"lookups", "roles"}
      BY <1>1, <3>1 DEF AccessTab!Disturbed
    <3>3. calls[i].op \in {"lookups", "roles"} =>
            ~AccessChange(calls[i]) /\ calls[i].op # "accesses"
      BY DEF AccessChange, AccessWrites
    <3>4. QED
      BY <1>1, <2>1, <2>2, <3>2, <3>3, AccessLeaves
  <2>5. QED
    BY <1>6, <2>3, <2>4
<1>7. QED
  BY <1>2, <1>3, <1>5, <1>6 DEF AccessTab!Settle

LEMMA AccessTruthStep ==
    ASSUME NoneIsNoValue, AccessTruthInv, AccessTab!Next PROVE AccessTruthInv'
<1>1. AccessInv'
  BY AccessStep DEF AccessTruthInv
<1>2. /\ "user" \in DOMAIN view' /\ "calm" \in DOMAIN hist'
      /\ AccessSays(calls') /\ AccessTruthOk'
  BY AccessTruthClick, AccessTruthServe, AccessTruthSettle, Zenon DEF AccessTab!Next
<1>3. QED
  BY <1>1, <1>2 DEF AccessTruthInv

LEMMA AccessTruthMounts ==
    ASSUME NEW m \in AccessTab!Mounts,
           view' = m.view, calls' = m.calls, server' = m.server, hist' = m.hist
    PROVE  AccessTruthInv'
<1>1. AccessInv'
  BY AccessMounts DEF AccessInv
<1>2. PICK u, access : m = AccessTab!MountedOn(u, access)
  BY DEF AccessTab!Mounts
<1> DEFINE c == AccessTab!Call("lookups", None, None)
           d == AccessTab!AccessesCall(u)
<1>3. /\ view' = AccessTab!Mounted(u) /\ hist' = [calm |-> TRUE]
      /\ calls' = <<c>> \o (IF u = None THEN <<>> ELSE <<d>>)
  BY <1>2 DEF AccessTab!MountedOn
<1>4. /\ "user" \in DOMAIN view' /\ view'.user = u /\ "calm" \in DOMAIN hist'
  BY <1>3 DEF AccessTab!Mounted
<1>5. /\ {"op", "user", "answer"} \subseteq DOMAIN c /\ c.op = "lookups"
      /\ {"op", "user", "answer"} \subseteq DOMAIN d
  BY DEF AccessTab!AccessesCall, AccessTab!Call
<1> HIDE DEF c, d
<1>6. PICK s : s = <<c>>
  OBVIOUS
<1>7. <<c>> \in Seq({c}) /\ DOMAIN <<c>> = {1} /\ <<c>>[1] = c
  OBVIOUS
<1>8. AccessSays(s) /\ DOMAIN s = {1} /\ s[1] = c
  BY <1>5, <1>6, <1>7, Sys!OwnElements DEF AccessSays
<1>9. OfTheUser(s, u)
  BY <1>5, <1>8 DEF OfTheUser, AccessWrites
<1>10. AccessSays(calls') /\ AccessTruthOk'
  <2>1. CASE u = None
    <3>1. calls' = s
      BY <1>3, <1>6, <2>1
    <3>2. QED
      BY <1>4, <1>8, <2>1, <3>1 DEF AccessTruthOk
  <2>2. CASE u # None
    <3>1. calls' = Append(s, d)
      <4>1. calls' = s \o <<d>>
        BY <1>3, <1>6, <2>2
      <4>2. Append(s, d) = s \o <<d>>
        BY <1>5, <1>8, OneAccessCall
      <4>3. QED
        BY <4>1, <4>2
    <3>2. \A shown, rows :
            AccessSays(Append(s, d)) /\ AccessTruth(Append(s, d), u, shown, rows)
      BY <1>8, <1>9, AccessAsked DEF d
    <3>3. QED
      BY <1>4, <3>1, <3>2 DEF AccessTruthOk
  <2>3. QED
    BY <2>1, <2>2
<1>11. QED
  BY <1>1, <1>4, <1>10 DEF AccessTruthInv

LEMMA AccessTruthStays == ASSUME AccessTruthInv, UNCHANGED pageVars PROVE AccessTruthInv'
<1>1. UNCHANGED <<view, calls, server, hist>>
  BY DEF pageVars
<1>2. AccessTruthOk' /\ AccessInv'
  BY <1>1, AccessStays DEF AccessTruthInv, AccessInv
<1>3. QED
  BY <1>1, <1>2 DEF AccessTruthInv

LEMMA AccessTruths ==
    ASSUME AccessTruthInv PROVE AccessTab!FlagsHaveCalls /\ AccessTab!ShowsTheTable
<1>1. AccessTab!FlagsHaveCalls
  BY DEF AccessTruthInv, AccessInv, AccessOk, AccessFlags, RowWrites, AccessTab!FlagsHaveCalls,
     AccessTab!Pending
<1>2. ASSUME calls = <<>>, hist.calm, view.user # None
      PROVE  view.rows = AccessTab!RowsOf(view.user)
  <2>1. DOMAIN calls = {}
    BY <1>2
  <2>2. AccessTruth(calls, view.user, view.rows, AccessTab!RowsOf(view.user))
    BY <1>2 DEF AccessTruthInv, AccessTruthOk
  <2>3. QED
    BY <2>1, <2>2 DEF AccessTruth, Sys!Truth, Sys!Newest, AccessLists, FreshAccesses
<1>3. AccessTab!ShowsTheTable
  BY <1>2 DEF AccessTab!ShowsTheTable, AccessTab!AtRest
<1>4. QED
  BY <1>1, <1>3

-----------------------------------------------------------------------------
(* What the page Auditoria shows *)

\* Rows and total of the moments since the query was put.
Moments       == hist.asked..Len(server.log)
RowsSeen(q)   == {AuditTab!PageOf(q, n) : n \in Moments}
TotalsSeen(q) == {AuditTab!TotalOf(q, n) : n \in Moments}

\* The rows and the total on display are among those, or an answer under way will
\* put that right.
AuditSays(s) ==
    /\ s \in Seq(Sys!Elements(s))
    /\ \A i \in DOMAIN s :
         {"op", "query", "rows", "total"} \subseteq DOMAIN s[i] /\ s[i].op = "list"
FreshLogs(s, q, R, T) ==
    {i \in DOMAIN s : /\ s[i].query = q
                      /\ s[i].rows \in R \cup {None} /\ s[i].total \in T \cup {None}}
AuditTruth(s, q, rows, total, R, T) ==
    Sys!Truth(DOMAIN s, FreshLogs(s, q, R, T), FALSE, rows \in R /\ total \in T)
AuditTruthOk ==
    hist.calm =>
      AuditTruth(calls, view.query, view.rows, view.total,
                 RowsSeen(view.query), TotalsSeen(view.query))
AuditShape ==
    /\ {"query", "rows", "total"} \subseteq DOMAIN view
    /\ {"calm", "asked"} \subseteq DOMAIN hist
    /\ "log" \in DOMAIN server /\ server.log \in Seq(Sys!Elements(server.log))
    /\ hist.asked \in 0..Len(server.log)
    /\ AuditSays(calls)
AuditTruthInv == AuditInv /\ AuditShape /\ AuditTruthOk

\* One field of a request is filled in.
LEMMA FieldFilled ==
    ASSUME NEW s, s \in Seq(Sys!Elements(s)), NEW i \in DOMAIN s, NEW x, NEW a
    PROVE  LET t == [s EXCEPT ![i] = [s[i] EXCEPT ![x] = a]] IN
             /\ t \in Seq(Sys!Elements(t)) /\ DOMAIN t = DOMAIN s
             /\ \A j \in DOMAIN s : j # i => t[j] = s[j]
             /\ DOMAIN t[i] = DOMAIN s[i]
             /\ \A y \in DOMAIN s[i] : t[i][y] = IF y = x THEN a ELSE s[i][y]
<1> DEFINE r == [s[i] EXCEPT ![x] = a]
           t == [s EXCEPT ![i] = r]
<1>1. DOMAIN r = DOMAIN s[i] /\ \A y \in DOMAIN s[i] : r[y] = IF y = x THEN a ELSE s[i][y]
  OBVIOUS
<1> HIDE DEF r
<1>2. DOMAIN t = DOMAIN s /\ t[i] = r /\ \A j \in DOMAIN s : j # i => t[j] = s[j]
  OBVIOUS
<1>3. t \in Seq(Sys!Elements(t))
  BY ReplacedElement
<1>4. QED
  BY <1>1, <1>2, <1>3 DEF r

\* The requests t are s with a for the rows, or for the total, of the one at i.
IsFilled(s, t, i, x, a) ==
    /\ DOMAIN t = DOMAIN s /\ \A j \in DOMAIN s : j # i => t[j] = s[j]
    /\ t[i].query = s[i].query
    /\ t[i].rows = IF x = "rows" THEN a ELSE s[i].rows
    /\ t[i].total = IF x = "total" THEN a ELSE s[i].total

LEMMA AuditFilled ==
    ASSUME NEW s, AuditSays(s), NEW i \in DOMAIN s, NEW x \in {"rows", "total"}, NEW a
    PROVE  /\ AuditSays([s EXCEPT ![i] = [s[i] EXCEPT ![x] = a]])
           /\ IsFilled(s, [s EXCEPT ![i] = [s[i] EXCEPT ![x] = a]], i, x, a)
<1> DEFINE t == [s EXCEPT ![i] = [s[i] EXCEPT ![x] = a]]
<1>1. /\ t \in Seq(Sys!Elements(t)) /\ DOMAIN t = DOMAIN s
      /\ \A j \in DOMAIN s : j # i => t[j] = s[j]
      /\ DOMAIN t[i] = DOMAIN s[i]
      /\ \A y \in DOMAIN s[i] : t[i][y] = IF y = x THEN a ELSE s[i][y]
  BY FieldFilled DEF AuditSays
<1> HIDE DEF t
<1>2. /\ t[i].query = s[i].query /\ t[i].op = s[i].op
      /\ t[i].rows = IF x = "rows" THEN a ELSE s[i].rows
      /\ t[i].total = IF x = "total" THEN a ELSE s[i].total
  BY <1>1 DEF AuditSays
<1>3. AuditSays(t)
  BY <1>1, <1>2 DEF AuditSays
<1>4. QED
  BY <1>1, <1>2, <1>3 DEF t, IsFilled

LEMMA AuditGrows ==
    ASSUME NEW s, NEW q, NEW rows, NEW total, NEW R, NEW T, AuditTruth(s, q, rows, total, R, T),
           NEW Q, NEW U, R \subseteq Q, T \subseteq U, NEW t, DOMAIN t = DOMAIN s,
           \A j \in DOMAIN s :
             /\ t[j].query = s[j].query
             /\ t[j].rows = s[j].rows \/ (s[j].query = q => t[j].rows \in Q)
             /\ t[j].total = s[j].total \/ (s[j].query = q => t[j].total \in U)
    PROVE  AuditTruth(t, q, rows, total, Q, U)
<1>1. FreshLogs(s, q, R, T) \subseteq FreshLogs(t, q, Q, U)
  BY DEF FreshLogs
<1>2. rows \in R /\ total \in T => rows \in Q /\ total \in U
  OBVIOUS
<1>3. QED
  BY <1>1, <1>2 DEF AuditTruth, Sys!Truth, Sys!Newest

LEMMA AuditGone ==
    ASSUME NEW s, AuditSays(s), NEW i \in DOMAIN s, s[i].rows # None, s[i].total # None,
           NEW q, NEW rows, NEW total, NEW R, NEW T, AuditTruth(s, q, rows, total, R, T),
           \A j \in DOMAIN s : ~(j < i)
    PROVE  AuditTruth(Sys!Rest(s, i), q, s[i].rows, s[i].total, R, T)
<1> DEFINE t == Sys!Rest(s, i)
           L == DOMAIN s
           M == DOMAIN t
           F == FreshLogs(s, q, R, T)
           G == FreshLogs(t, q, R, T)
           right    == rows \in R /\ total \in T
           rightNow == s[i].rows \in R /\ s[i].total \in T
           dirty    == FALSE
<1>1. Sys!IsGone(s, t, i)
  BY Sys!Going DEF AuditSays
<1> HIDE DEF t
<1>2. /\ \A j \in DOMAIN t : Sys!Before(i, j) \in DOMAIN s /\ t[j] = s[Sys!Before(i, j)]
      /\ \A j \in DOMAIN s : j # i => Sys!Now(i, j) \in DOMAIN t /\ t[Sys!Now(i, j)] = s[j]
  BY <1>1 DEF Sys!IsGone
<1>3. /\ L \in SUBSET DOMAIN s /\ F \in SUBSET L /\ M \in SUBSET DOMAIN t
      /\ \A j \in M : Sys!Before(i, j) \in L
      /\ \A k \in F : k # i => Sys!Now(i, k) \in G
  BY <1>2 DEF FreshLogs
<1>4. i \in L /\ (\A j \in L : ~(j < i)) /\ (i \in F => rightNow)
  BY DEF FreshLogs
<1>5. Sys!Truth(L, F, dirty, right)
  BY DEF AuditTruth
<1> HIDE DEF L, M, F, G, right, rightNow, dirty
<1>6. Sys!Truth(M, G, dirty, rightNow)
  BY <1>1, <1>3, <1>4, <1>5, Sys!TruthGone
<1>7. QED
  BY <1>6 DEF AuditTruth, M, G, rightNow, dirty, t

LEMMA AuditAsked ==
    ASSUME NEW s, AuditSays(s), NEW q, NEW rows, NEW total, NEW R, NEW T, NEW e,
           e = AuditTab!ListCall(q)
    PROVE  AuditSays(Append(s, e)) /\ AuditTruth(Append(s, e), q, rows, total, R, T)
<1> DEFINE t == Append(s, e)
           L == DOMAIN t
           F == FreshLogs(t, q, R, T)
           right == rows \in R /\ total \in T
           dirty == FALSE
<1>1. t \in Seq(Sys!Elements(t)) /\ Sys!IsSent(s, t, e)
  BY Sys!Sending DEF AuditSays
<1>2. /\ e.op = "list" /\ e.query = q /\ e.rows = None /\ e.total = None
      /\ {"op", "query", "rows", "total"} \subseteq DOMAIN e
  BY DEF AuditTab!ListCall
<1> HIDE DEF t
<1>3. /\ \A j \in DOMAIN t : (j \in DOMAIN s /\ t[j] = s[j]) \/ t[j] = e
      /\ Len(s) + 1 \in DOMAIN t /\ t[Len(s) + 1] = e
  BY <1>1 DEF Sys!IsSent
<1>4. AuditSays(t)
  BY <1>1, <1>2, <1>3 DEF AuditSays
<1>5. Len(s) + 1 \in F /\ L \in SUBSET DOMAIN t
  BY <1>2, <1>3 DEF FreshLogs
<1> HIDE DEF L, F, right, dirty
<1>6. Sys!Truth(L, F, dirty, right)
  BY <1>1, <1>5, Sys!TruthAsked
<1>7. QED
  BY <1>4, <1>6 DEF AuditTruth, L, F, right, dirty, t

LEMMA AuditGoneSays ==
    ASSUME NEW s, AuditSays(s), NEW i \in DOMAIN s PROVE AuditSays(Sys!Rest(s, i))
<1> DEFINE t == Sys!Rest(s, i)
<1>1. t \in Seq(Sys!Elements(t)) /\ \A j \in DOMAIN t : \E k \in DOMAIN s : t[j] = s[k]
  BY Sys!Going DEF AuditSays, Sys!IsGone
<1> HIDE DEF t
<1>2. QED
  BY <1>1 DEF AuditSays, t

\* What was read of the log stays read: an entry does not change it.
LEMMA PastStays ==
    ASSUME AuditShape, NEW kind, AuditTab!WriteEntry(kind)
    PROVE  /\ "log" \in DOMAIN server' /\ server'.log \in Seq(Sys!Elements(server'.log))
           /\ Len(server'.log) = Len(server.log) + 1
           /\ \A q, n : n \in Nat /\ n <= Len(server.log) =>
                /\ AuditTab!PageOf(q, n)' = AuditTab!PageOf(q, n)
                /\ AuditTab!TotalOf(q, n)' = AuditTab!TotalOf(q, n)
<1> DEFINE log == server.log
           new == Append(log, kind)
<1>1. log \in Seq(Sys!Elements(log)) /\ server' = [log |-> new]
  BY DEF AuditShape, AuditTab!WriteEntry
<1>2. "log" \in DOMAIN server' /\ server'.log = new
  BY <1>1
<1>3. new \in Seq(Sys!Elements(new)) /\ Sys!IsSent(log, new, kind)
  BY <1>1, Sys!Sending
<1> HIDE DEF log, new
<1>4. /\ Len(log) \in Nat /\ Len(new) = Len(log) + 1
      /\ \A j \in 1..Len(log) : new[j] = log[j]
  BY <1>3 DEF Sys!IsSent
<1>5. ASSUME NEW q, NEW n \in Nat, n <= Len(log)
      PROVE  /\ AuditTab!PageOf(q, n)' = AuditTab!PageOf(q, n)
             /\ AuditTab!TotalOf(q, n)' = AuditTab!TotalOf(q, n)
  <2>1. ASSUME NEW f PROVE AuditTab!Passing(f, n)' = AuditTab!Passing(f, n)
    <3>1. \A e \in 1..n : server'.log[e] = server.log[e]
      BY <1>2, <1>4, <1>5 DEF log
    <3>2. QED
      BY <3>1 DEF AuditTab!Passing
  <2>2. AuditTab!Passing(q.filter, n)' = AuditTab!Passing(q.filter, n)
    BY <2>1
  <2>3. QED
    BY <2>2 DEF AuditTab!PageOf, AuditTab!TotalOf
<1>6. QED
  BY <1>2, <1>3, <1>4, <1>5 DEF log

\* Nothing is read anew.
LEMMA SeenStays ==
    ASSUME UNCHANGED server, hist'.asked = hist.asked, view'.query = view.query
    PROVE  /\ RowsSeen(view.query)' = RowsSeen(view.query)
           /\ TotalsSeen(view.query)' = TotalsSeen(view.query)
BY DEF RowsSeen, TotalsSeen, Moments, AuditTab!PageOf, AuditTab!TotalOf, AuditTab!Passing

LEMMA AuditWritten ==
    ASSUME AuditTruthInv, NEW kind, AuditTab!WriteEntry(kind) PROVE AuditShape' /\ AuditTruthOk'
<1>1. UNCHANGED <<view, calls, hist>> /\ AuditShape /\ AuditTruthOk
  BY DEF AuditTab!WriteEntry, AuditTruthInv
<1>2. /\ "log" \in DOMAIN server' /\ server'.log \in Seq(Sys!Elements(server'.log))
      /\ Len(server'.log) = Len(server.log) + 1
      /\ \A q, n : n \in Nat /\ n <= Len(server.log) =>
           /\ AuditTab!PageOf(q, n)' = AuditTab!PageOf(q, n)
           /\ AuditTab!TotalOf(q, n)' = AuditTab!TotalOf(q, n)
  BY <1>1, PastStays
<1>3. Len(server.log) \in Nat /\ hist.asked \in 0..Len(server.log)
  BY <1>1 DEF AuditShape
<1>4. AuditShape'
  BY <1>1, <1>2, <1>3 DEF AuditShape
<1>5. PICK q : q = view.query
  OBVIOUS
<1>6. /\ RowsSeen(view.query)' = {AuditTab!PageOf(q, n)' : n \in hist.asked..Len(server'.log)}
      /\ TotalsSeen(view.query)' = {AuditTab!TotalOf(q, n)' : n \in hist.asked..Len(server'.log)}
      /\ RowsSeen(view.query) = {AuditTab!PageOf(q, n) : n \in hist.asked..Len(server.log)}
      /\ TotalsSeen(view.query) = {AuditTab!TotalOf(q, n) : n \in hist.asked..Len(server.log)}
  BY <1>1, <1>5 DEF RowsSeen, TotalsSeen, Moments, AuditTab!PageOf, AuditTab!TotalOf,
     AuditTab!Passing
<1>7. ASSUME NEW n \in hist.asked..Len(server.log)
      PROVE  /\ n \in Nat /\ n <= Len(server.log)
             /\ n \in hist.asked..Len(server'.log)
  BY <1>2, <1>3, <1>7
<1>8. /\ RowsSeen(view.query) \subseteq RowsSeen(view.query)'
      /\ TotalsSeen(view.query) \subseteq TotalsSeen(view.query)'
  BY <1>2, <1>6, <1>7
<1>9. AuditTruthOk'
  <2> SUFFICES ASSUME hist'.calm
               PROVE  AuditTruth(calls', view'.query, view'.rows, view'.total,
                                 RowsSeen(view.query)', TotalsSeen(view.query)')
    BY DEF AuditTruthOk
  <2>1. PICK s, rows, total, R, T, Q, U :
          /\ s = calls /\ rows = view.rows /\ total = view.total
          /\ R = RowsSeen(view.query) /\ T = TotalsSeen(view.query)
          /\ Q = RowsSeen(view.query)' /\ U = TotalsSeen(view.query)'
    OBVIOUS
  <2>2. AuditTruth(s, q, rows, total, R, T) /\ R \subseteq Q /\ T \subseteq U
    BY <1>1, <1>5, <1>8, <2>1 DEF AuditTruthOk
  <2>3. AuditTruth(s, q, rows, total, Q, U)
    BY <2>2, AuditGrows
  <2>4. QED
    BY <1>1, <1>5, <2>1, <2>3
<1>10. QED
  BY <1>4, <1>9

LEMMA AuditReads ==
    ASSUME AuditTruthInv, NEW i \in DOMAIN calls, AuditTab!SelectRows(i) \/ AuditTab!CountRows(i)
    PROVE  AuditShape' /\ AuditTruthOk'
<1>1. /\ UNCHANGED <<view, server, hist>> /\ AuditShape /\ AuditTruthOk /\ AuditSays(calls)
      /\ Len(server.log) \in Moments
  BY DEF AuditTab!SelectRows, AuditTab!CountRows, AuditTruthInv, AuditShape, Moments
<1>2. PICK x, a :
        /\ calls' = [calls EXCEPT ![i] = [calls[i] EXCEPT ![x] = a]] /\ x \in {"rows", "total"}
        /\ x = "rows" => a = AuditTab!PageOf(calls[i].query, Len(server.log))
        /\ x = "total" => a = AuditTab!TotalOf(calls[i].query, Len(server.log))
  <2>1. CASE AuditTab!SelectRows(i)
    <3> DEFINE b == AuditTab!PageOf(calls[i].query, Len(server.log))
    <3>1. calls' = [calls EXCEPT ![i] = [calls[i] EXCEPT !["rows"] = b]]
      BY <2>1 DEF AuditTab!SelectRows
    <3>2. b = AuditTab!PageOf(calls[i].query, Len(server.log))
      OBVIOUS
    <3> HIDE DEF b
    <3>3. QED
      BY <3>1, <3>2
  <2>2. CASE AuditTab!CountRows(i)
    <3> DEFINE b == AuditTab!TotalOf(calls[i].query, Len(server.log))
    <3>1. calls' = [calls EXCEPT ![i] = [calls[i] EXCEPT !["total"] = b]]
      BY <2>2 DEF AuditTab!CountRows
    <3>2. b = AuditTab!TotalOf(calls[i].query, Len(server.log))
      OBVIOUS
    <3> HIDE DEF b
    <3>3. QED
      BY <3>1, <3>2
  <2>3. QED
    BY <2>1, <2>2
<1>3. PICK s, t : s = calls /\ t = calls'
  OBVIOUS
<1>4. /\ AuditSays(s) /\ i \in DOMAIN s /\ x \in {"rows", "total"}
      /\ t = [s EXCEPT ![i] = [s[i] EXCEPT ![x] = a]]
  BY <1>1, <1>2, <1>3
<1>5. AuditSays(t) /\ IsFilled(s, t, i, x, a)
  BY <1>4, AuditFilled
<1>6. AuditShape'
  BY <1>1, <1>3, <1>5 DEF AuditShape
<1>7. AuditTruthOk'
  <2> SUFFICES ASSUME hist'.calm
               PROVE  AuditTruth(calls', view'.query, view'.rows, view'.total,
                                 RowsSeen(view.query)', TotalsSeen(view.query)')
    BY DEF AuditTruthOk
  <2>1. /\ RowsSeen(view.query)' = RowsSeen(view.query)
        /\ TotalsSeen(view.query)' = TotalsSeen(view.query)
    BY <1>1, SeenStays
  <2>2. PICK q, rows, total, R, T :
          /\ q = view.query /\ rows = view.rows /\ total = view.total
          /\ R = RowsSeen(view.query) /\ T = TotalsSeen(view.query)
    OBVIOUS
  <2>3. AuditTruth(s, q, rows, total, R, T)
    BY <1>1, <1>3, <2>2 DEF AuditTruthOk
  <2>4. s[i].query = q =>
          /\ AuditTab!PageOf(calls[i].query, Len(server.log)) \in R
          /\ AuditTab!TotalOf(calls[i].query, Len(server.log)) \in T
    <3> SUFFICES ASSUME calls[i].query = view.query
                 PROVE  /\ AuditTab!PageOf(view.query, Len(server.log)) \in RowsSeen(view.query)
                        /\ AuditTab!TotalOf(view.query, Len(server.log)) \in TotalsSeen(view.query)
      BY <1>3, <2>2
    <3> QED
      BY <1>1 DEF RowsSeen, TotalsSeen
  <2>5. \A j \in DOMAIN s :
          /\ t[j].query = s[j].query
          /\ t[j].rows = s[j].rows \/ (s[j].query = q => t[j].rows \in R)
          /\ t[j].total = s[j].total \/ (s[j].query = q => t[j].total \in T)
    BY <1>2, <1>4, <1>5, <2>4 DEF IsFilled
  <2>6. AuditTruth(t, q, rows, total, R, T)
    BY <1>5, <2>3, <2>5, AuditGrows DEF IsFilled
  <2>7. QED
    BY <1>1, <1>3, <2>1, <2>2, <2>6
<1>8. QED
  BY <1>6, <1>7

LEMMA AuditAsks ==
    ASSUME AuditTruthInv, NEW q, AuditTab!Ask(q) PROVE AuditShape' /\ AuditTruthOk'
<1> DEFINE e == AuditTab!ListCall(q)
<1>1. /\ AuditShape /\ AuditSays(calls) /\ UNCHANGED server /\ calls' = Append(calls, e)
      /\ view' = [view EXCEPT !.query = q, !.loading = TRUE]
      /\ hist' = [AuditTab!Asked(calls, TRUE) EXCEPT !.asked = Len(server.log)]
  BY DEF AuditTab!Ask, AuditTruthInv, AuditShape
<1>2. {"query", "rows", "total"} \subseteq DOMAIN view' /\ view'.query = q
  BY <1>1 DEF AuditShape
<1>3. {"calm", "asked"} \subseteq DOMAIN hist' /\ hist'.asked = Len(server.log)
  BY <1>1 DEF AuditShape, AuditTab!Asked
<1>4. Len(server.log) \in 0..Len(server.log)
  BY <1>1 DEF AuditShape
<1> HIDE DEF e
<1>5. \A rows, total, R, T :
        AuditSays(Append(calls, e)) /\ AuditTruth(Append(calls, e), q, rows, total, R, T)
  BY <1>1, AuditAsked DEF e
<1>6. AuditShape'
  BY <1>1, <1>2, <1>3, <1>4, <1>5 DEF AuditShape
<1>7. AuditTruthOk'
  BY <1>1, <1>2, <1>5 DEF AuditTruthOk
<1>8. QED
  BY <1>6, <1>7

LEMMA AuditSettles ==
    ASSUME AuditTruthInv, NEW i \in DOMAIN calls, AuditTab!ShowList(i) \/ AuditTab!Lost(i)
    PROVE  AuditShape' /\ AuditTruthOk'
<1>1. /\ AuditShape /\ AuditTruthOk /\ AuditSays(calls) /\ UNCHANGED server
      /\ calls' = Sys!Rest(calls, i) /\ \A j \in DOMAIN calls : calls[j].op = "list"
  BY DEF AuditTab!ShowList, AuditTab!Lost, AuditTruthInv, AuditShape, AuditSays,
     AuditTab!Without, Sys!Rest
<1>2. AuditSays(calls')
  BY <1>1, AuditGoneSays
<1>3. CASE AuditTab!ShowList(i)
  <2>1. /\ calls[i].rows # None /\ calls[i].total # None /\ hist' = AuditTab!Displayed(i)
        /\ {"query", "rows", "total"} \subseteq DOMAIN view' /\ view'.query = view.query
        /\ view'.rows = calls[i].rows /\ view'.total = calls[i].total
    BY <1>1, <1>3 DEF AuditTab!ShowList, AuditShape
  <2>2. /\ {"calm", "asked"} \subseteq DOMAIN hist' /\ hist'.asked = hist.asked
        /\ hist'.calm => hist.calm /\ ~AuditTab!Overtakes(i)
    BY <1>1, <2>1 DEF AuditTab!Displayed, AuditShape
  <2>3. AuditShape'
    BY <1>1, <1>2, <2>1, <2>2 DEF AuditShape
  <2>4. AuditTruthOk'
    <3> SUFFICES ASSUME hist'.calm
                 PROVE  AuditTruth(calls', view'.query, view'.rows, view'.total,
                                   RowsSeen(view.query)', TotalsSeen(view.query)')
      BY DEF AuditTruthOk
    <3>1. /\ RowsSeen(view.query)' = RowsSeen(view.query)
          /\ TotalsSeen(view.query)' = TotalsSeen(view.query)
      BY <1>1, <2>1, <2>2, SeenStays
    <3>2. \A j \in DOMAIN calls : ~(j < i)
      <4>1. \A j \in 1..(i - 1) : calls[j].op # calls[i].op
        BY <2>2 DEF AuditTab!Overtakes
      <4>2. ASSUME NEW j \in DOMAIN calls, j < i PROVE FALSE
        <5>1. DOMAIN calls = 1..Len(calls) /\ Len(calls) \in Nat
          BY <1>1, Sys!OwnElements DEF AuditSays
        <5>2. j \in 1..(i - 1)
          BY <4>2, <5>1
        <5>3. QED
          BY <1>1, <4>1, <4>2, <5>2
      <4>3. QED
        BY <4>2
    <3>3. PICK s, q, rows, total, R, T :
            /\ s = calls /\ q = view.query /\ rows = view.rows /\ total = view.total
            /\ R = RowsSeen(view.query) /\ T = TotalsSeen(view.query)
      OBVIOUS
    <3>4. /\ AuditSays(s) /\ i \in DOMAIN s /\ s[i].rows # None /\ s[i].total # None
          /\ AuditTruth(s, q, rows, total, R, T) /\ \A j \in DOMAIN s : ~(j < i)
      BY <1>1, <2>1, <2>2, <3>2, <3>3 DEF AuditTruthOk
    <3>5. AuditTruth(Sys!Rest(s, i), q, s[i].rows, s[i].total, R, T)
      BY <3>4, AuditGone
    <3>6. QED
      BY <1>1, <2>1, <3>1, <3>3, <3>5
  <2>5. QED
    BY <2>3, <2>4
<1>4. CASE AuditTab!Lost(i)
  <2>1. /\ hist' = AuditTab!Disturbed /\ view' = [view EXCEPT !.loading = FALSE]
    BY <1>4 DEF AuditTab!Lost
  <2>2. /\ {"calm", "asked"} \subseteq DOMAIN hist' /\ hist'.asked = hist.asked /\ ~hist'.calm
        /\ {"query", "rows", "total"} \subseteq DOMAIN view'
    BY <1>1, <2>1 DEF AuditTab!Disturbed, AuditShape
  <2>3. QED
    BY <1>1, <1>2, <2>2 DEF AuditShape, AuditTruthOk
<1>5. QED
  BY <1>3, <1>4

LEMMA AuditTruthStep == ASSUME AuditTruthInv, AuditTab!Next PROVE AuditTruthInv'
<1>1. AuditInv'
  BY AuditStep DEF AuditTruthInv
<1>2. ASSUME (\E f : AuditTab!SetFilter(f)) \/ (\E p : AuditTab!GoToPage(p))
               \/ (\E l : AuditTab!SetLimit(l))
      PROVE  \E q : AuditTab!Ask(q)
  BY <1>2, Zenon DEF AuditTab!SetFilter, AuditTab!GoToPage, AuditTab!SetLimit
<1>3. AuditShape' /\ AuditTruthOk'
  BY <1>2, AuditWritten, AuditReads, AuditAsks, AuditSettles, Zenon DEF AuditTab!Next
<1>4. QED
  BY <1>1, <1>3 DEF AuditTruthInv

LEMMA AuditTruthMounts ==
    ASSUME NEW m \in AuditTab!Mounts,
           view' = m.view, calls' = m.calls, server' = m.server, hist' = m.hist
    PROVE  AuditTruthInv'
<1> DEFINE e == AuditTab!ListCall(AuditTab!FirstQuery)
<1>1. AuditInv'
  BY AuditMounts DEF AuditInv
<1>2. PICK log : /\ m = [view |-> AuditTab!Mounted, calls |-> <<e>>, server |-> [log |-> log],
                         hist |-> [calm |-> TRUE, asked |-> Len(log)]]
                 /\ log = <<>> \/ \E k : log = <<k>>
  BY DEF AuditTab!Mounts
<1>3. /\ calls' = <<e>> /\ server' = [log |-> log] /\ view' = AuditTab!Mounted
      /\ hist' = [calm |-> TRUE, asked |-> Len(log)]
  BY <1>2
<1>4. log \in Seq(Sys!Elements(log)) /\ Len(log) \in Nat
  <2>1. ASSUME log = <<>> PROVE log \in Seq(Sys!Elements(log)) /\ Len(log) \in Nat
    <3> DEFINE S == {}
    <3>1. log \in Seq(S)
      BY <2>1
    <3> HIDE DEF S
    <3>2. QED
      BY <3>1, Sys!OwnElements
  <2>2. ASSUME NEW k, log = <<k>> PROVE log \in Seq(Sys!Elements(log)) /\ Len(log) \in Nat
    <3>1. log \in Seq({k})
      BY <2>2
    <3>2. QED
      BY <3>1, Sys!OwnElements
  <2>3. QED
    BY <1>2, <2>1, <2>2
<1>5. /\ {"query", "rows", "total"} \subseteq DOMAIN view' /\ view'.query = AuditTab!FirstQuery
      /\ {"calm", "asked"} \subseteq DOMAIN hist' /\ hist'.asked = Len(log)
      /\ "log" \in DOMAIN server' /\ server'.log = log
  BY <1>3 DEF AuditTab!Mounted
<1> DEFINE s == <<>>
<1>6. AuditSays(s) /\ Append(s, e) = <<e>>
  <2>1. s \in Seq({}) /\ DOMAIN s = {}
    OBVIOUS
  <2>2. s \in Seq(Sys!Elements(s))
    BY <2>1, Sys!OwnElements
  <2>3. Append(s, e) = <<e>>
    OBVIOUS
  <2> HIDE DEF s, e
  <2>4. QED
    BY <2>1, <2>2, <2>3 DEF AuditSays
<1> HIDE DEF s, e
<1>7. \A q, rows, total, R, T : e = AuditTab!ListCall(q) =>
        AuditSays(Append(s, e)) /\ AuditTruth(Append(s, e), q, rows, total, R, T)
  BY <1>6, AuditAsked
<1>8. e = AuditTab!ListCall(view'.query)
  BY <1>5 DEF e
<1>9. AuditSays(calls') /\ AuditTruthOk'
  BY <1>3, <1>6, <1>7, <1>8 DEF AuditTruthOk
<1>10. AuditShape'
  <2>1. Len(log) \in 0..Len(log)
    BY <1>4
  <2>2. QED
    BY <1>4, <1>5, <1>9, <2>1 DEF AuditShape
<1>11. QED
  BY <1>1, <1>9, <1>10 DEF AuditTruthInv

LEMMA AuditTruthStays == ASSUME AuditTruthInv, UNCHANGED pageVars PROVE AuditTruthInv'
<1>1. UNCHANGED <<view, calls, server, hist>>
  BY DEF pageVars
<1>2. /\ RowsSeen(view.query)' = RowsSeen(view.query)
      /\ TotalsSeen(view.query)' = TotalsSeen(view.query)
  BY <1>1, SeenStays
<1>3. QED
  BY <1>1, <1>2 DEF AuditTruthInv, AuditInv, AuditShape, AuditTruthOk

LEMMA AuditTruths == ASSUME AuditTruthInv PROVE AuditTab!FlagsHaveCalls /\ AuditTab!ShowsTheTable
<1>1. AuditTab!FlagsHaveCalls
  BY DEF AuditTruthInv, AuditInv, AuditTab!FlagsHaveCalls, AuditTab!Pending
<1>2. ASSUME calls = <<>>, hist.calm
      PROVE  view.rows \in RowsSeen(view.query) /\ view.total \in TotalsSeen(view.query)
  <2>1. DOMAIN calls = {}
    BY <1>2
  <2>2. AuditTruth(calls, view.query, view.rows, view.total,
                   RowsSeen(view.query), TotalsSeen(view.query))
    BY <1>2 DEF AuditTruthInv, AuditTruthOk
  <2>3. QED
    BY <2>1, <2>2 DEF AuditTruth, Sys!Truth, Sys!Newest, FreshLogs
<1>3. AuditTab!ShowsTheTable
  BY <1>2 DEF AuditTab!ShowsTheTable, AuditTab!AtRest, RowsSeen, TotalsSeen, Moments
<1>4. QED
  BY <1>1, <1>3

-----------------------------------------------------------------------------
(* Whom the panel takes for logged in *)

\* Who is on display is who is logged in, or an answer under way will put that
\* right: a login or change of password is through, after which the page asks; and
\* no such request, nor a logout, is under way that was sent before a question.
PanelWrites   == {"login", "change", "logout"}
PanelSays(s)  ==
    s \in Seq(Sys!Elements(s)) /\ \A i \in DOMAIN s : {"op", "answer"} \subseteq DOMAIN s[i]
Displaying(s) == {i \in DOMAIN s : s[i].op \in {"me", "logout"}}
FreshUser(s, me) ==
    {i \in Displaying(s) :
       s[i].answer = None \/ IF s[i].op = "me" THEN s[i].answer.user = me ELSE me = None}
PanelChange(c) == c.op \in {"login", "change"} /\ c.answer = 1
WritesAreLast(s) ==
    \A i, j \in DOMAIN s : s[i].op \in PanelWrites /\ s[j].op = "me" => j < i
PanelTruth(s, user, me) ==
    /\ WritesAreLast(s)
    /\ Sys!Truth(Displaying(s), FreshUser(s, me),
                 \E i \in DOMAIN s : PanelChange(s[i]), user = me)
PanelTruthOk == hist.calm => PanelTruth(calls, view.user, PanelTab!Me)
PanelShape ==
    "calm" \in DOMAIN hist /\ "session" \in DOMAIN server /\ PanelSays(calls)
PanelTruthInv == PanelInv /\ PanelShape /\ PanelTruthOk

\* The session changes by a login or change that is answered 1, and by a logout.
PanelTruthAnswered(s, t, i, a) ==
    \A user, me, meNow :
      /\ PanelTruth(s, user, me)
      /\ \/ s[i].op = "me" /\ meNow = me /\ a.user = me
         \/ s[i].op \in {"login", "change"} /\ (meNow = me \/ a = 1)
         \/ s[i].op = "logout" /\ meNow = None
      => PanelTruth(t, user, meNow)

LEMMA PanelAnswered ==
    ASSUME NoneIsNoValue, NEW s, PanelSays(s), NEW i \in DOMAIN s, s[i].answer = None, NEW a
    PROVE  /\ PanelSays([s EXCEPT ![i].answer = a])
           /\ PanelTruthAnswered(s, [s EXCEPT ![i].answer = a], i, a)
<1> DEFINE t == [s EXCEPT ![i].answer = a]
<1>1. /\ t \in Seq(Sys!Elements(t)) /\ DOMAIN t = DOMAIN s
      /\ \A j \in DOMAIN s : j # i => t[j] = s[j]
      /\ DOMAIN t[i] = DOMAIN s[i]
      /\ \A y \in DOMAIN s[i] : t[i][y] = IF y = "answer" THEN a ELSE s[i][y]
  BY Sys!Answering DEF PanelSays
<1> HIDE DEF t
<1>2. t[i].op = s[i].op /\ t[i].answer = a
  BY <1>1 DEF PanelSays
<1>3. PanelSays(t)
  BY <1>1 DEF PanelSays
<1>4. s[i].answer # 1 /\ DOMAIN s \subseteq Nat
  <2>1. s[i].answer # 1
    BY DEF NoneIsNoValue
  <2>2. DOMAIN s = 1..Len(s) /\ Len(s) \in Nat
    BY Sys!OwnElements DEF PanelSays
  <2>3. QED
    BY <2>1, <2>2
<1>5. ASSUME NEW user, NEW me, NEW meNow, PanelTruth(s, user, me),
             \/ s[i].op = "me" /\ meNow = me /\ a.user = me
             \/ s[i].op \in {"login", "change"} /\ (meNow = me \/ a = 1)
             \/ s[i].op = "logout" /\ meNow = None
      PROVE  PanelTruth(t, user, meNow)
  <2>1. WritesAreLast(t)
    BY <1>1, <1>2, <1>5 DEF PanelTruth, WritesAreLast
  <2> DEFINE dirty    == \E j \in DOMAIN s : PanelChange(s[j])
             dirtyNow == \E j \in DOMAIN t : PanelChange(t[j])
  <2>2. Displaying(t) = Displaying(s)
    BY <1>1, <1>2 DEF Displaying
  <2>3. dirty => dirtyNow
    BY <1>1, <1>4 DEF PanelChange
  <2>4. Sys!Truth(Displaying(s), FreshUser(s, me), dirty, user = me)
    BY <1>5 DEF PanelTruth
  <2>5. CASE s[i].op \in {"login", "change"} /\ a = 1
    <3>1. dirtyNow
      BY <1>1, <1>2, <2>5 DEF PanelChange
    <3>2. QED
      BY <2>1, <3>1 DEF PanelTruth, Sys!Truth
  <2>6. CASE \/ s[i].op = "me" /\ meNow = me /\ a.user = me
             \/ s[i].op \in {"login", "change"} /\ meNow = me
    <3>1. FreshUser(s, me) \subseteq FreshUser(t, meNow)
      BY <1>1, <1>2, <2>2, <2>6 DEF FreshUser, Displaying
    <3> HIDE DEF dirty, dirtyNow
    <3>2. Sys!Truth(Displaying(t), FreshUser(t, meNow), dirtyNow, user = meNow)
      BY <2>2, <2>3, <2>4, <2>6, <3>1 DEF Sys!Truth, Sys!Newest
    <3>3. QED
      BY <2>1, <3>2 DEF PanelTruth, dirtyNow
  <2>7. CASE s[i].op = "logout" /\ meNow = None
    <3>1. i \in Displaying(s)
      BY <2>7 DEF Displaying
    <3>2. ASSUME NEW k \in FreshUser(s, me), \A j \in Displaying(s) : j <= k
          PROVE  k \in FreshUser(t, meNow)
      <4>1. i <= k /\ k \in Displaying(s) /\ k \in Nat /\ i \in Nat
        BY <1>4, <3>1, <3>2 DEF FreshUser, Displaying
      <4>2. s[k].op # "me"
        <5>1. s[k].op = "me" => k < i
          BY <1>5, <2>7, <4>1 DEF PanelTruth, WritesAreLast, PanelWrites, Displaying
        <5>2. QED
          BY <4>1, <5>1
      <4>3. t[k].op = "logout"
        BY <1>1, <1>2, <4>1, <4>2 DEF Displaying
      <4>4. QED
        BY <2>2, <2>7, <4>1, <4>3 DEF FreshUser
    <3> HIDE DEF dirty, dirtyNow
    <3>3. Sys!Truth(Displaying(t), FreshUser(t, meNow), dirtyNow, user = meNow)
      BY <2>2, <2>3, <2>4, <3>1, <3>2 DEF Sys!Truth, Sys!Newest
    <3>4. QED
      BY <2>1, <3>3 DEF PanelTruth, dirtyNow
  <2>8. QED
    BY <1>5, <2>5, <2>6, <2>7
<1>6. PanelTruthAnswered(s, t, i, a)
  BY <1>5 DEF PanelTruthAnswered
<1>7. QED
  BY <1>3, <1>6 DEF t

\* One request more, that changes something.
PanelTruthSent(s, t) == \A user, me : PanelTruth(s, user, me) => PanelTruth(t, user, me)

LEMMA PanelSent ==
    ASSUME NEW s, PanelSays(s), NEW e, {"op", "answer"} \subseteq DOMAIN e,
           e.op \in PanelWrites, e.answer = None
    PROVE  PanelSays(Append(s, e)) /\ PanelTruthSent(s, Append(s, e))
<1> DEFINE t == Append(s, e)
<1>1. t \in Seq(Sys!Elements(t)) /\ Sys!IsSent(s, t, e)
  BY Sys!Sending DEF PanelSays
<1> HIDE DEF t
<1>2. /\ DOMAIN s = 1..Len(s) /\ Len(s) \in Nat /\ DOMAIN t = 1..(Len(s) + 1)
      /\ t[Len(s) + 1] = e /\ \A j \in DOMAIN s : t[j] = s[j]
  BY <1>1 DEF Sys!IsSent
<1>3. /\ DOMAIN s \subseteq DOMAIN t /\ Len(s) + 1 \in DOMAIN t
      /\ \A j \in DOMAIN t : j \in DOMAIN s \/ j = Len(s) + 1
      /\ \A j \in DOMAIN s : j < Len(s) + 1
  BY <1>2
<1>4. PanelSays(t)
  BY <1>1, <1>2, <1>3 DEF PanelSays
<1>5. ASSUME NEW user, NEW me, PanelTruth(s, user, me) PROVE PanelTruth(t, user, me)
  <2>1. WritesAreLast(t)
    <3> SUFFICES ASSUME NEW j \in DOMAIN t, NEW k \in DOMAIN t, t[j].op \in PanelWrites,
                        t[k].op = "me"
                 PROVE  k < j
      BY DEF WritesAreLast
    <3>1. k \in DOMAIN s
      BY <1>2, <1>3 DEF PanelWrites
    <3>2. CASE j \in DOMAIN s
      BY <1>2, <1>5, <3>1, <3>2 DEF PanelTruth, WritesAreLast
    <3>3. CASE j = Len(s) + 1
      BY <1>3, <3>1, <3>3
    <3>4. QED
      BY <1>3, <3>2, <3>3
  <2> DEFINE dirty    == \E j \in DOMAIN s : PanelChange(s[j])
             dirtyNow == \E j \in DOMAIN t : PanelChange(t[j])
             L == Displaying(t)
             F == FreshUser(t, me)
             right == user = me
  <2>2. dirty => dirtyNow
    BY <1>2, <1>3 DEF PanelChange
  <2>3. Sys!Truth(Displaying(s), FreshUser(s, me), dirty, right)
    BY <1>5 DEF PanelTruth
  <2>4. CASE e.op = "logout"
    <3>1. Len(s) + 1 \in F /\ L \in SUBSET DOMAIN t
      BY <1>2, <1>3, <2>4 DEF FreshUser, Displaying
    <3> HIDE DEF dirtyNow, L, F, right
    <3>2. Sys!Truth(L, F, dirtyNow, right)
      BY <1>1, <3>1, Sys!TruthAsked
    <3>3. QED
      BY <2>1, <3>2 DEF PanelTruth, dirtyNow, L, F, right
  <2>5. CASE e.op # "logout"
    <3>1. L = Displaying(s)
      BY <1>2, <1>3, <2>5 DEF Displaying, PanelWrites
    <3>2. F = FreshUser(s, me)
      BY <1>2, <3>1 DEF FreshUser, Displaying
    <3> HIDE DEF dirty, dirtyNow, L, F, right
    <3>3. Sys!Truth(L, F, dirtyNow, right)
      BY <2>2, <2>3, <3>1, <3>2 DEF Sys!Truth
    <3>4. QED
      BY <2>1, <3>3 DEF PanelTruth, dirtyNow, L, F, right
  <2>6. QED
    BY <2>4, <2>5
<1>6. QED
  BY <1>4, <1>5 DEF PanelTruthSent, t

LEMMA PanelAsked ==
    ASSUME NEW s, PanelSays(s), \A j \in DOMAIN s : s[j].op \notin PanelWrites, NEW e,
           {"op", "answer"} \subseteq DOMAIN e, e.op = "me", e.answer = None, NEW user, NEW me
    PROVE  PanelTruth(Append(s, e), user, me)
<1> DEFINE t == Append(s, e)
           dirty == \E j \in DOMAIN t : PanelChange(t[j])
           L == Displaying(t)
           F == FreshUser(t, me)
           right == user = me
<1>1. Sys!IsSent(s, t, e)
  BY Sys!Sending DEF PanelSays
<1> HIDE DEF t
<1>2. /\ \A j \in DOMAIN t : (j \in DOMAIN s /\ t[j] = s[j]) \/ t[j] = e
      /\ Len(s) + 1 \in DOMAIN t /\ t[Len(s) + 1] = e
  BY <1>1 DEF Sys!IsSent
<1>3. WritesAreLast(t)
  BY <1>2 DEF WritesAreLast, PanelWrites
<1>4. Len(s) + 1 \in F /\ L \in SUBSET DOMAIN t
  BY <1>2 DEF FreshUser, Displaying
<1> HIDE DEF dirty, L, F, right
<1>5. Sys!Truth(L, F, dirty, right)
  BY <1>1, <1>4, Sys!TruthAsked
<1>6. QED
  BY <1>3, <1>5 DEF PanelTruth, dirty, L, F, right, t

LEMMA PanelGoneSays ==
    ASSUME NEW s, PanelSays(s), NEW i \in DOMAIN s PROVE PanelSays(Sys!Rest(s, i))
<1> DEFINE t == Sys!Rest(s, i)
<1>1. t \in Seq(Sys!Elements(t)) /\ \A j \in DOMAIN t : \E k \in DOMAIN s : t[j] = s[k]
  BY Sys!Going DEF PanelSays, Sys!IsGone
<1> HIDE DEF t
<1>2. QED
  BY <1>1 DEF PanelSays, t

LEMMA PanelGone ==
    ASSUME NEW s, PanelSays(s), NEW i \in DOMAIN s, ~PanelChange(s[i]),
           NEW user, NEW userNow, NEW me, PanelTruth(s, user, me),
           \/ s[i].op \notin {"me", "logout"} /\ userNow = user
           \/ /\ s[i].op \in {"me", "logout"} /\ s[i].answer # None
              /\ \A j \in Displaying(s) : ~(j < i)
              /\ userNow = IF s[i].op = "me" THEN s[i].answer.user ELSE None
    PROVE  PanelTruth(Sys!Rest(s, i), userNow, me)
<1> DEFINE t == Sys!Rest(s, i)
           L == Displaying(s)
           M == Displaying(t)
           F == FreshUser(s, me)
           G == FreshUser(t, me)
           dirty    == \E j \in DOMAIN s : PanelChange(s[j])
           dirtyNow == \E j \in DOMAIN t : PanelChange(t[j])
           right    == user = me
           rightNow == userNow = me
<1>1. Sys!IsGone(s, t, i)
  BY Sys!Going DEF PanelSays
<1> HIDE DEF t
<1>2. /\ DOMAIN s = 1..Len(s) /\ Len(s) \in Nat /\ DOMAIN t = 1..(Len(s) - 1)
      /\ \A j \in DOMAIN t : Sys!Before(i, j) \in DOMAIN s /\ t[j] = s[Sys!Before(i, j)]
      /\ \A j \in DOMAIN s : j # i => Sys!Now(i, j) \in DOMAIN t /\ t[Sys!Now(i, j)] = s[j]
  BY <1>1 DEF Sys!IsGone
<1>3. /\ L \in SUBSET DOMAIN s /\ F \in SUBSET L /\ M \in SUBSET DOMAIN t
      /\ \A j \in M : Sys!Before(i, j) \in L
      /\ \A k \in F : k # i => Sys!Now(i, k) \in G
  BY <1>2 DEF Displaying, FreshUser
<1>4. dirty => dirtyNow
  BY <1>2 DEF PanelChange
<1>5. WritesAreLast(t)
  <2>1. ASSUME NEW j \in DOMAIN t, NEW k \in DOMAIN t,
               Sys!Before(i, k) < Sys!Before(i, j)
        PROVE  k < j
    BY <1>2, <2>1 DEF Sys!Before
  <2>2. QED
    BY <1>2, <2>1 DEF PanelTruth, WritesAreLast
<1>6. \/ i \notin L /\ (right => rightNow)
      \/ i \in L /\ (\A j \in L : ~(j < i)) /\ (i \in F => rightNow)
  BY DEF Displaying, FreshUser
<1>7. Sys!Truth(L, F, dirty, right)
  BY DEF PanelTruth
<1> HIDE DEF L, M, F, G, dirty, dirtyNow, right, rightNow
<1>8. Sys!Truth(M, G, dirtyNow, rightNow)
  BY <1>1, <1>3, <1>4, <1>6, <1>7, Sys!TruthGone
<1>9. QED
  BY <1>5, <1>8 DEF PanelTruth, M, G, dirtyNow, rightNow, t

LEMMA PanelServed ==
    ASSUME NoneIsNoValue, PanelTruthInv, NEW i \in DOMAIN calls,
           \/ PanelTab!ServeMe(i) \/ PanelTab!ServeLogin(i)
           \/ PanelTab!ServeLogout(i) \/ PanelTab!ServeChange(i)
    PROVE  PanelShape' /\ PanelTruthOk'
<1>1. PanelShape /\ PanelTruthOk /\ PanelSays(calls)
  BY DEF PanelTruthInv, PanelShape
<1>2. PICK a :
        /\ calls' = [calls EXCEPT ![i].answer = a] /\ UNCHANGED <<view, hist>>
        /\ calls[i].answer = None /\ "session" \in DOMAIN server'
        /\ \/ calls[i].op = "me" /\ server' = server /\ a.user = PanelTab!Me
           \/ calls[i].op \in {"login", "change"} /\ (server' = server \/ a = 1)
           \/ calls[i].op = "logout" /\ server'.session = None
  <2>1. CASE PanelTab!ServeMe(i)
    <3> DEFINE b == [user |-> PanelTab!Me]
    <3>1. /\ calls' = [calls EXCEPT ![i].answer = b] /\ UNCHANGED <<view, hist, server>>
          /\ calls[i].answer = None /\ calls[i].op = "me"
      BY <2>1 DEF PanelTab!ServeMe, PanelTab!Answered
    <3>2. b.user = PanelTab!Me
      OBVIOUS
    <3> HIDE DEF b
    <3>3. QED
      BY <1>1, <3>1, <3>2 DEF PanelShape
  <2>2. CASE PanelTab!ServeLogin(i)
    BY <1>1, <2>2 DEF PanelTab!ServeLogin, PanelTab!Answered, PanelShape
  <2>3. CASE PanelTab!ServeLogout(i)
    BY <1>1, <2>3 DEF PanelTab!ServeLogout, PanelTab!Answered, PanelShape
  <2>4. CASE PanelTab!ServeChange(i)
    <3>1. /\ calls[i].op = "change" /\ calls[i].answer = None /\ UNCHANGED <<view, hist>>
          /\ \/ PanelTab!Answered(i, 0) /\ UNCHANGED server
             \/ PanelTab!Answered(i, 1) /\ \E f : server' = [server EXCEPT !.must = f]
      BY <2>4 DEF PanelTab!ServeChange
    <3>2. QED
      BY <1>1, <3>1 DEF PanelTab!Answered, PanelShape
  <2>5. QED
    BY <2>1, <2>2, <2>3, <2>4
<1>3. PanelSays(calls') /\ PanelTruthAnswered(calls, calls', i, a)
  BY <1>1, <1>2, PanelAnswered
<1>4. PanelShape'
  BY <1>1, <1>2, <1>3 DEF PanelShape
<1>5. PanelTruthOk'
  <2> SUFFICES ASSUME hist'.calm PROVE PanelTruth(calls', view'.user, PanelTab!Me')
    BY DEF PanelTruthOk
  <2>1. PICK user, me, meNow : user = view.user /\ me = PanelTab!Me /\ meNow = PanelTab!Me'
    OBVIOUS
  <2>2. server' = server => meNow = me
    BY <2>1 DEF PanelTab!Me
  <2>3. server'.session = None => meNow = None
    BY <2>1 DEF PanelTab!Me
  <2>4. PanelTruth(calls, user, me)
    BY <1>1, <1>2, <2>1 DEF PanelTruthOk
  <2>5. PanelTruth(calls', user, meNow)
    BY <1>2, <1>3, <2>1, <2>2, <2>3, <2>4 DEF PanelTruthAnswered
  <2>6. QED
    BY <1>2, <2>1, <2>5
<1>6. QED
  BY <1>4, <1>5

LEMMA PanelSends ==
    ASSUME PanelTruthInv, NEW op \in PanelWrites, NEW name,
           calls' = Append(calls, PanelTab!Call(op, name, None)), UNCHANGED <<server, hist>>,
           view'.user = view.user
    PROVE  PanelShape' /\ PanelTruthOk'
<1>1. PanelShape /\ PanelTruthOk /\ PanelSays(calls)
  BY DEF PanelTruthInv, PanelShape
<1>2. PICK e : e = PanelTab!Call(op, name, None)
  OBVIOUS
<1>3. {"op", "answer"} \subseteq DOMAIN e /\ e.op = op /\ e.answer = None
  BY <1>2 DEF PanelTab!Call
<1>4. PanelSays(calls') /\ PanelTruthSent(calls, calls')
  BY <1>1, <1>2, <1>3, PanelSent
<1>5. PanelTab!Me' = PanelTab!Me
  BY DEF PanelTab!Me
<1>6. PanelTruthOk'
  BY <1>1, <1>4, <1>5 DEF PanelTruthOk, PanelTruthSent
<1>7. QED
  BY <1>1, <1>4, <1>6 DEF PanelShape

LEMMA PanelLeaves ==
    ASSUME PanelTruthInv, NEW i \in DOMAIN calls, calls' = Sys!Rest(calls, i), UNCHANGED server,
           "calm" \in DOMAIN hist',
           hist'.calm =>
             /\ hist.calm /\ ~PanelChange(calls[i])
             /\ \/ calls[i].op \notin {"me", "logout"} /\ view'.user = view.user
                \/ /\ calls[i].op \in {"me", "logout"} /\ calls[i].answer # None
                   /\ \A j \in Displaying(calls) : ~(j < i)
                   /\ view'.user = IF calls[i].op = "me" THEN calls[i].answer.user ELSE None
    PROVE  PanelShape' /\ PanelTruthOk'
<1>1. PanelShape /\ PanelTruthOk /\ PanelSays(calls)
  BY DEF PanelTruthInv, PanelShape
<1>2. PanelSays(calls')
  BY <1>1, PanelGoneSays
<1>3. PanelTruthOk'
  <2> SUFFICES ASSUME hist'.calm PROVE PanelTruth(calls', view'.user, PanelTab!Me')
    BY DEF PanelTruthOk
  <2>1. PanelTab!Me' = PanelTab!Me
    BY DEF PanelTab!Me
  <2>2. PICK s, t, user, userNow, me :
          /\ s = calls /\ t = calls' /\ user = view.user /\ userNow = view'.user
          /\ me = PanelTab!Me
    OBVIOUS
  <2>3. /\ PanelSays(s) /\ i \in DOMAIN s /\ t = Sys!Rest(s, i) /\ PanelTruth(s, user, me)
        /\ ~PanelChange(s[i])
    BY <1>1, <2>2 DEF PanelTruthOk
  <2>4. \/ s[i].op \notin {"me", "logout"} /\ userNow = user
        \/ /\ s[i].op \in {"me", "logout"} /\ s[i].answer # None
           /\ \A j \in Displaying(s) : ~(j < i)
           /\ userNow = IF s[i].op = "me" THEN s[i].answer.user ELSE None
    BY <2>2
  <2>5. PanelTruth(t, userNow, me)
    BY <2>3, <2>4, PanelGone
  <2>6. QED
    BY <2>1, <2>2, <2>5
<1>4. QED
  BY <1>1, <1>2, <1>3 DEF PanelShape

LEMMA PanelTruthStep ==
    ASSUME NoneIsNoValue, PanelTruthInv, PanelTab!Next PROVE PanelTruthInv'
<1> DEFINE Kept == PanelShape' /\ PanelTruthOk'
<1>1. /\ PanelInv' /\ PanelShape /\ PanelTruthOk /\ PanelSays(calls) /\ "calm" \in DOMAIN hist
      /\ PanelFields \subseteq DOMAIN view
      /\ \A i \in DOMAIN calls : calls[i].op = "me" => calls[i].then \in Returns
  BY PanelStep DEF PanelTruthInv, PanelShape, PanelInv, PanelOk
<1>2. ASSUME PanelTab!Elsewhere PROVE Kept
  <2>1. /\ UNCHANGED <<view, calls>> /\ hist' = PanelTab!Disturbed
        /\ \/ \E s : server' = [server EXCEPT !.session = s]
           \/ \E f : server' = [server EXCEPT !.must = f]
    BY <1>2 DEF PanelTab!Elsewhere
  <2>2. "calm" \in DOMAIN hist' /\ ~hist'.calm /\ "session" \in DOMAIN server'
    BY <1>1, <2>1 DEF PanelTab!Disturbed, PanelShape
  <2>3. QED
    BY <1>1, <2>1, <2>2 DEF PanelShape, PanelTruthOk
<1>3. ASSUME PanelTab!SubmitChange \/ PanelTab!Logout \/ \E a : PanelTab!SubmitLogin(a)
      PROVE  Kept
  <2>1. view'.user = view.user /\ UNCHANGED <<server, hist>>
    BY <1>1, <1>3 DEF PanelTab!SubmitChange, PanelTab!Logout, PanelTab!SubmitLogin, PanelFields
  <2>2. PICK op, name : /\ op \in PanelWrites
                        /\ calls' = Append(calls, PanelTab!Call(op, name, None))
    BY <1>3 DEF PanelTab!SubmitChange, PanelTab!Logout, PanelTab!SubmitLogin, PanelWrites
  <2>3. QED
    BY <2>1, <2>2, PanelSends
<1>4. ASSUME NEW i \in DOMAIN calls PROVE PanelTab!Without(i) = Sys!Rest(calls, i)
  BY DEF PanelTab!Without, Sys!Rest
<1>5. ASSUME NEW i \in DOMAIN calls, hist' = PanelTab!Shown(i)
      PROVE  /\ "calm" \in DOMAIN hist'
             /\ hist'.calm => hist.calm /\ \A j \in Displaying(calls) : ~(j < i)
  <2>1. /\ "calm" \in DOMAIN hist'
        /\ hist'.calm => hist.calm /\ ~\E j \in 1..(i - 1) : calls[j].op \in PanelTab!Displays
    BY <1>1, <1>5 DEF PanelTab!Shown
  <2>2. DOMAIN calls = 1..Len(calls) /\ Len(calls) \in Nat
    BY <1>1, Sys!OwnElements DEF PanelSays
  <2>3. ASSUME NEW j \in DOMAIN calls, j < i PROVE j \in 1..(i - 1)
    BY <2>2, <2>3
  <2>4. QED
    BY <2>1, <2>3 DEF Displaying, PanelTab!Displays
<1>6. ASSUME NEW v, PanelFields \subseteq DOMAIN v PROVE PanelTab!Routed(v).user = v.user
  BY <1>6 DEF PanelTab!Routed, PanelFields
<1>7. ASSUME NEW i \in DOMAIN calls, PanelTab!ShowMe(i) PROVE Kept
  <2>1. /\ calls[i].op = "me" /\ calls[i].answer # None /\ UNCHANGED server
        /\ view' = PanelTab!Refreshed(i, calls[i].answer.user)
        /\ calls' = Sys!Rest(calls, i) /\ hist' = PanelTab!Shown(i)
        /\ calls[i].then \in Returns
    BY <1>1, <1>4, <1>7 DEF PanelTab!ShowMe
  <2>2. view'.user = calls[i].answer.user
    <3> DEFINE user == calls[i].answer.user
               v    == [view EXCEPT !.user = user]
               x    == [v EXCEPT !.loading = FALSE]
               y    == [v EXCEPT !.path = "trocar", !.submitting = FALSE]
               z    == [v EXCEPT !.path = "page", !.submitting = FALSE]
    <3>1. view' \in {PanelTab!Routed(x), y, PanelTab!Routed(z)}
      <4>1. CASE calls[i].then = "mount"
        BY <2>1, <4>1 DEF PanelTab!Refreshed
      <4>2. CASE calls[i].then = "login"
        BY <2>1, <4>2 DEF PanelTab!Refreshed
      <4>3. CASE calls[i].then = "change"
        BY <2>1, <4>3 DEF PanelTab!Refreshed
      <4>4. QED
        BY <2>1, <4>1, <4>2, <4>3 DEF Returns
    <3>2. /\ PanelFields \subseteq DOMAIN x /\ x.user = user
          /\ y.user = user
          /\ PanelFields \subseteq DOMAIN z /\ z.user = user
      BY <1>1 DEF PanelFields
    <3> HIDE DEF x, y, z, user
    <3>3. view'.user = user
      BY <1>6, <3>1, <3>2
    <3>4. QED
      BY <3>3 DEF user
  <2>3. ~PanelChange(calls[i])
    BY <2>1 DEF PanelChange
  <2>4. QED
    BY <1>5, <2>1, <2>2, <2>3, PanelLeaves
<1>8. ASSUME NEW i \in DOMAIN calls, PanelTab!LoggedOut(i) PROVE Kept
  <2> DEFINE v == [view EXCEPT !.user = None]
  <2>1. /\ calls[i].op = "logout" /\ calls[i].answer # None /\ UNCHANGED server
        /\ view' = PanelTab!Routed(v)
        /\ calls' = Sys!Rest(calls, i) /\ hist' = PanelTab!Shown(i)
    BY <1>4, <1>8 DEF PanelTab!LoggedOut
  <2>2. PanelFields \subseteq DOMAIN v /\ v.user = None
    BY <1>1 DEF PanelFields
  <2> HIDE DEF v
  <2>3. view'.user = None
    BY <1>6, <2>1, <2>2
  <2>4. ~PanelChange(calls[i])
    BY <2>1 DEF PanelChange
  <2>5. QED
    BY <1>5, <2>1, <2>3, <2>4, PanelLeaves
<1>9. ASSUME NEW i \in DOMAIN calls, PanelTab!Refused(i) PROVE Kept
  <2>1. /\ calls[i].op \in {"login", "change"} /\ calls[i].answer = 0
        /\ calls' = Sys!Rest(calls, i) /\ UNCHANGED <<server, hist>> /\ view'.user = view.user
    BY <1>1, <1>4, <1>9 DEF PanelTab!Refused, PanelFields
  <2>2. ~PanelChange(calls[i]) /\ calls[i].op \notin {"me", "logout"}
    BY <2>1 DEF PanelChange
  <2>3. QED
    BY <1>1, <2>1, <2>2, PanelLeaves
<1>10. ASSUME NEW i \in DOMAIN calls, PanelTab!Lost(i) PROVE Kept
  <2>1. calls' = Sys!Rest(calls, i) /\ UNCHANGED server /\ hist' = PanelTab!Disturbed
    BY <1>4, <1>10 DEF PanelTab!Lost
  <2>2. "calm" \in DOMAIN hist' /\ ~hist'.calm
    BY <1>1, <2>1 DEF PanelTab!Disturbed
  <2>3. QED
    BY <2>1, <2>2, PanelLeaves
<1>11. ASSUME NEW i \in DOMAIN calls, PanelTab!Refresh(i) PROVE Kept
  <2> DEFINE rest == Sys!Rest(calls, i)
             e    == PanelTab!MeCall(calls[i].op)
             writes == \E j \in DOMAIN rest : rest[j].op \in PanelTab!Writes
  <2>1. /\ UNCHANGED <<view, server>> /\ calls' = Append(rest, e)
        /\ hist' = IF writes THEN PanelTab!Disturbed ELSE PanelTab!Asked(rest, TRUE)
    BY <1>4, <1>11 DEF PanelTab!Refresh
  <2>2. {"op", "answer"} \subseteq DOMAIN e /\ e.op = "me" /\ e.answer = None
    BY DEF PanelTab!MeCall, PanelTab!Call
  <2>3. PanelSays(rest)
    BY <1>1, PanelGoneSays
  <2>4. ~writes => \A j \in DOMAIN rest : rest[j].op \notin PanelWrites
    BY DEF PanelTab!Writes, PanelWrites
  <2> HIDE DEF rest, e, writes
  <2>5. "calm" \in DOMAIN hist' /\ (hist'.calm => ~writes)
    BY <1>1, <2>1 DEF PanelTab!Disturbed, PanelTab!Asked
  <2>6. PanelSays(calls')
    <3>1. calls' \in Seq(Sys!Elements(calls')) /\ Sys!IsSent(rest, calls', e)
      BY <2>1, <2>3, Sys!Sending DEF PanelSays
    <3>2. \A j \in DOMAIN calls' : (j \in DOMAIN rest /\ calls'[j] = rest[j]) \/ calls'[j] = e
      BY <3>1 DEF Sys!IsSent
    <3>3. QED
      BY <2>2, <2>3, <3>1, <3>2 DEF PanelSays
  <2>7. PanelTruthOk'
    <3> SUFFICES ASSUME hist'.calm PROVE PanelTruth(calls', view'.user, PanelTab!Me')
      BY DEF PanelTruthOk
    <3>1. PICK user, me : user = view'.user /\ me = PanelTab!Me'
      OBVIOUS
    <3>2. PanelTruth(Append(rest, e), user, me)
      BY <2>2, <2>3, <2>4, <2>5, PanelAsked
    <3>3. QED
      BY <2>1, <3>1, <3>2
  <2>8. QED
    BY <1>1, <2>1, <2>5, <2>6, <2>7 DEF PanelShape
<1>12. Kept
  <2> HIDE DEF Kept
  <2> QED
    BY <1>2, <1>3, <1>7, <1>8, <1>9, <1>10, <1>11, PanelServed, Zenon DEF PanelTab!Next, Kept
<1>13. QED
  BY <1>1, <1>12 DEF PanelTruthInv

LEMMA PanelTruthMounts ==
    ASSUME NEW m \in PanelTab!Mounts,
           view = m.view, calls = m.calls, server = m.server, hist = m.hist
    PROVE  PanelTruthInv
<1> DEFINE e == PanelTab!MeCall("mount")
           s == <<>>
<1>1. PanelInv
  BY PanelMounts DEF PanelInv
<1>2. calls = <<e>> /\ "calm" \in DOMAIN hist /\ "session" \in DOMAIN server
  BY DEF PanelTab!Mounts
<1>3. {"op", "answer"} \subseteq DOMAIN e /\ e.op = "me" /\ e.answer = None
  BY DEF PanelTab!MeCall, PanelTab!Call
<1>4. /\ s \in Seq({}) /\ DOMAIN s = {} /\ Append(s, e) = <<e>>
      /\ <<e>> \in Seq({e}) /\ DOMAIN <<e>> = {1} /\ <<e>>[1] = e
  OBVIOUS
<1> HIDE DEF s, e
<1>5. PanelSays(s) /\ PanelSays(<<e>>)
  BY <1>3, <1>4, Sys!OwnElements DEF PanelSays
<1>6. \A user, me : PanelTruth(<<e>>, user, me)
  BY <1>3, <1>4, <1>5, PanelAsked
<1>7. PanelShape /\ PanelTruthOk
  BY <1>2, <1>5, <1>6 DEF PanelShape, PanelTruthOk
<1>8. QED
  BY <1>1, <1>7 DEF PanelTruthInv

LEMMA PanelTruthStays == ASSUME PanelTruthInv, UNCHANGED pageVars PROVE PanelTruthInv'
<1>1. UNCHANGED <<view, calls, server, hist>>
  BY DEF pageVars
<1>2. PanelTab!Me' = PanelTab!Me
  BY <1>1 DEF PanelTab!Me
<1>3. QED
  BY <1>1, <1>2 DEF PanelTruthInv, PanelInv, PanelShape, PanelTruthOk

LEMMA PanelTruths == ASSUME PanelTruthInv PROVE PanelTab!FlagsHaveCalls /\ PanelTab!ShowsTheTable
<1>1. PanelTab!FlagsHaveCalls
  BY DEF PanelTruthInv, PanelInv, PanelOk, PanelTab!FlagsHaveCalls
<1>2. ASSUME calls = <<>>, hist.calm PROVE view.user = PanelTab!Me
  <2>1. DOMAIN calls = {}
    BY <1>2
  <2>2. PanelTruth(calls, view.user, PanelTab!Me)
    BY <1>2 DEF PanelTruthInv, PanelTruthOk
  <2>3. QED
    BY <2>1, <2>2 DEF PanelTruth, Sys!Truth, Sys!Newest, Displaying, FreshUser
<1>3. PanelTab!ShowsTheTable
  BY <1>2 DEF PanelTab!ShowsTheTable, PanelTab!AtRest
<1>4. QED
  BY <1>1, <1>3

\* Nothing is under way for a page that has been left.
LEMMA PanelIsBack == ASSUME NoneIsNoValue, LeavePage PROVE PanelTruthInv'
<1>1. /\ calls' = <<>> /\ PanelFields \subseteq DOMAIN view' /\ ~view'.loading /\ ~view'.submitting
      /\ view'.user = [name |-> "ti", must |-> FALSE] /\ "calm" \in DOMAIN hist'
      /\ "session" \in DOMAIN server' /\ server'.session = "ti" /\ server'.must["ti"] = FALSE
  BY DEF LeavePage, PanelFields
<1>2. <<>> \in Seq({}) /\ DOMAIN <<>> = {}
  OBVIOUS
<1>3. Sys!Calls(<<>>, {"then"}) /\ PanelSays(<<>>)
  BY <1>2, Sys!OwnElements DEF Sys!Calls, PanelSays
<1>4. PanelInv'
  BY <1>1, <1>2, <1>3 DEF PanelInv, PanelOk
<1>5. PanelTab!Me' = view'.user
  <2>1. None # "ti"
    BY DEF NoneIsNoValue
  <2>2. QED
    BY <1>1, <2>1 DEF PanelTab!Me
<1>6. PanelTruthOk'
  BY <1>1, <1>2, <1>5 DEF PanelTruthOk, PanelTruth, WritesAreLast, Sys!Truth, Displaying
<1>7. QED
  BY <1>1, <1>3, <1>4, <1>6 DEF PanelTruthInv, PanelShape

-----------------------------------------------------------------------------
(* The pages Sistemas and Usuarios, each in two instances *)

Saved == INSTANCE PagesProofs WITH
    Slugs <- {"farol"}, Contents <- {1, 2}, Roles <- {"gerente"},
    MaxCalls <- PageRequests, MaxSecrets <- 2,
    Users <- 1..2, Terms <- {""}, NoTerm <- "", Limits <- {2}, FirstLimit <- 2,
    Found <- [t \in {""} |-> 1..2], UserSecrets <- 2

LEMMA SystemsServes == ASSUME NEW i, SystemsTab!Serve(i) PROVE Sys!Serve(i)
  BY DEF SystemsTab!Serve, Sys!Serve, SystemsTab!ServeList, Sys!ServeList,
     SystemsTab!ServeRoles, Sys!ServeRoles, SystemsTab!ServeCreate, Sys!ServeCreate,
     SystemsTab!ServeRegenerate, Sys!ServeRegenerate, SystemsTab!ServeUpdate, Sys!ServeUpdate,
     SystemsTab!ServeCreateRole, Sys!ServeCreateRole, SystemsTab!ServeRemoveRole,
     Sys!ServeRemoveRole, SystemsTab!DrawFor, Sys!DrawFor, SystemsTab!Registered,
     Sys!Registered, SystemsTab!SystemRows, Sys!SystemRows, SystemsTab!RolesOf, Sys!RolesOf,
     SystemsTab!Answered, Sys!Answered

LEMMA SystemsSettles == ASSUME NEW i, SystemsTab!Settle(i) PROVE Sys!Settle(i)
  BY DEF SystemsTab!Settle, Sys!Settle, SystemsTab!ShowList, Sys!ShowList,
     SystemsTab!ShowRoles, Sys!ShowRoles, SystemsTab!Created, Sys!Created,
     SystemsTab!Regenerated, Sys!Regenerated, SystemsTab!Updated, Sys!Updated,
     SystemsTab!RolesChanged, Sys!RolesChanged, SystemsTab!Refused, Sys!Refused,
     SystemsTab!Lost, Sys!Lost, SystemsTab!Released, Sys!Released, SystemsTab!FetchSystems,
     Sys!FetchSystems, SystemsTab!FetchRoles, Sys!FetchRoles, SystemsTab!Reveal, Sys!Reveal,
     SystemsTab!Seen, Sys!Seen, SystemsTab!Asked, Sys!Asked, SystemsTab!Displayed,
     Sys!Displayed, SystemsTab!Disturbed, Sys!Disturbed, SystemsTab!Overtakes, Sys!Overtakes,
     SystemsTab!Without, Sys!Without, SystemsTab!SecretOf, Sys!SecretOf, SystemsTab!Draws,
     Sys!Draws, SystemsTab!Reads, Sys!Reads, SystemsTab!Writes, Sys!Writes, SystemsTab!Call,
     Sys!Call, SystemsTab!ListCall, Sys!ListCall

LEMMA SystemsClicks ==
    ASSUME SystemsTab!Next, ~\E i \in DOMAIN calls : SystemsTab!Serve(i) \/ SystemsTab!Settle(i)
    PROVE  Sys!Next
  BY DEF SystemsTab!Next, Sys!Next, SystemsTab!OpenForm, Sys!OpenForm, SystemsTab!CancelForm,
     Sys!CancelForm, SystemsTab!CloseReveal, Sys!CloseReveal, SystemsTab!CloseModal,
     Sys!CloseModal, SystemsTab!AskRegenerate, Sys!AskRegenerate, SystemsTab!CancelConfirm,
     Sys!CancelConfirm, SystemsTab!Confirm, Sys!Confirm, SystemsTab!Confirming,
     Sys!Confirming, SystemsTab!Confirmed, Sys!Confirmed, SystemsTab!SubmitForm,
     Sys!SubmitForm, SystemsTab!OpenModal, Sys!OpenModal, SystemsTab!Save, Sys!Save,
     SystemsTab!CreateRole, Sys!CreateRole, SystemsTab!InModal, Sys!InModal,
     SystemsTab!AskRemoveRole, Sys!AskRemoveRole, SystemsTab!Open, Sys!Open,
     SystemsTab!InForm, Sys!InForm, SystemsTab!Click, Sys!Click, SystemsTab!Send, Sys!Send,
     SystemsTab!Room, Sys!Room, SystemsTab!SecretsLeft, Sys!SecretsLeft,
     SystemsTab!Cardinality, Sys!Cardinality, SystemsTab!Call, Sys!Call, SystemsTab!Pending,
     Sys!Pending, SystemsTab!Writes, Sys!Writes, SystemsTab!Draws, Sys!Draws,
     SystemsTab!Disturbed, Sys!Disturbed

LEMMA SystemsMounts == ASSUME NEW m \in SystemsTab!Mounts PROVE m \in Sys!Mounts
  BY DEF SystemsTab!Mounts, Sys!Mounts, SystemsTab!Mounted, Sys!Mounted, SystemsTab!ListCall,
     Sys!ListCall, SystemsTab!Call, Sys!Call

LEMMA SystemsShows ==
    ASSUME Sys!FlagsHaveCalls, Sys!ShowsTheTable, Sys!SecretsShown
    PROVE  SystemsTab!FlagsHaveCalls /\ SystemsTab!ShowsTheTable /\ SystemsTab!SecretsShown
  BY DEF SystemsTab!FlagsHaveCalls, Sys!FlagsHaveCalls, SystemsTab!ShowsTheTable,
     Sys!ShowsTheTable, SystemsTab!SecretsShown, Sys!SecretsShown, SystemsTab!Pending,
     Sys!Pending, SystemsTab!AtRest, Sys!AtRest, SystemsTab!SystemRows, Sys!SystemRows,
     SystemsTab!Registered, Sys!Registered, SystemsTab!RolesOf, Sys!RolesOf, SystemsTab!Draws,
     Sys!Draws

LEMMA SystemsTabStep ==
    ASSUME NoneIsNoValue, Sys!SystemsTruthInv, SystemsTab!Next
    PROVE  Sys!SystemsTruthInv'
<1>1. Sys!NoneIsNoValue
  BY DEF NoneIsNoValue, Sys!NoneIsNoValue, Sys!NoneIsNoModal, Sys!ModalFields
<1>2. Sys!Next
  <2>1. ASSUME NEW i \in DOMAIN calls, SystemsTab!Serve(i) \/ SystemsTab!Settle(i) PROVE Sys!Next
    BY <2>1, SystemsServes, SystemsSettles, Zenon DEF Sys!Next
  <2>2. QED
    BY <2>1, SystemsClicks
<1>3. QED
  BY <1>1, <1>2, Sys!SystemsTruthStep

LEMMA SystemsTabMounts ==
    ASSUME NoneIsNoValue, NEW m \in SystemsTab!Mounts,
           view' = m.view, calls' = m.calls, server' = m.server, hist' = m.hist
    PROVE  Sys!SystemsTruthInv'
<1>1. Sys!NoneIsNoValue
  BY DEF NoneIsNoValue, Sys!NoneIsNoValue, Sys!NoneIsNoModal, Sys!ModalFields
<1>2. m \in Sys!Mounts
  BY SystemsMounts
<1>3. QED
  BY <1>1, <1>2, Sys!SystemsTruthMounts

LEMMA SystemsTabShows ==
    ASSUME Sys!SystemsTruthInv
    PROVE  SystemsTab!FlagsHaveCalls /\ SystemsTab!ShowsTheTable /\ SystemsTab!SecretsShown
BY Sys!SystemsTruth, SystemsShows

LEMMA SavedServes == ASSUME NEW i, SavedTab!Serve(i) PROVE Saved!Serve(i)
  BY DEF SavedTab!Serve, Saved!Serve, SavedTab!ServeList, Saved!ServeList,
     SavedTab!ServeRoles, Saved!ServeRoles, SavedTab!ServeCreate, Saved!ServeCreate,
     SavedTab!ServeRegenerate, Saved!ServeRegenerate, SavedTab!ServeUpdate, Saved!ServeUpdate,
     SavedTab!ServeCreateRole, Saved!ServeCreateRole, SavedTab!ServeRemoveRole,
     Saved!ServeRemoveRole, SavedTab!DrawFor, Saved!DrawFor, SavedTab!Registered,
     Saved!Registered, SavedTab!SystemRows, Saved!SystemRows, SavedTab!RolesOf, Saved!RolesOf,
     SavedTab!Answered, Saved!Answered

LEMMA SavedSettles == ASSUME NEW i, SavedTab!Settle(i) PROVE Saved!Settle(i)
  BY DEF SavedTab!Settle, Saved!Settle, SavedTab!ShowList, Saved!ShowList, SavedTab!ShowRoles,
     Saved!ShowRoles, SavedTab!Created, Saved!Created, SavedTab!Regenerated,
     Saved!Regenerated, SavedTab!Updated, Saved!Updated, SavedTab!RolesChanged,
     Saved!RolesChanged, SavedTab!Refused, Saved!Refused, SavedTab!Lost, Saved!Lost,
     SavedTab!Released, Saved!Released, SavedTab!FetchSystems, Saved!FetchSystems,
     SavedTab!FetchRoles, Saved!FetchRoles, SavedTab!Reveal, Saved!Reveal, SavedTab!Seen,
     Saved!Seen, SavedTab!Asked, Saved!Asked, SavedTab!Displayed, Saved!Displayed,
     SavedTab!Disturbed, Saved!Disturbed, SavedTab!Overtakes, Saved!Overtakes,
     SavedTab!Without, Saved!Without, SavedTab!SecretOf, Saved!SecretOf, SavedTab!Draws,
     Saved!Draws, SavedTab!Reads, Saved!Reads, SavedTab!Writes, Saved!Writes, SavedTab!Call,
     Saved!Call, SavedTab!ListCall, Saved!ListCall

LEMMA SavedClicks ==
    ASSUME SavedTab!Next, ~\E i \in DOMAIN calls : SavedTab!Serve(i) \/ SavedTab!Settle(i)
    PROVE  Saved!Next
  BY DEF SavedTab!Next, Saved!Next, SavedTab!OpenForm, Saved!OpenForm, SavedTab!CancelForm,
     Saved!CancelForm, SavedTab!CloseReveal, Saved!CloseReveal, SavedTab!CloseModal,
     Saved!CloseModal, SavedTab!AskRegenerate, Saved!AskRegenerate, SavedTab!CancelConfirm,
     Saved!CancelConfirm, SavedTab!Confirm, Saved!Confirm, SavedTab!Confirming,
     Saved!Confirming, SavedTab!Confirmed, Saved!Confirmed, SavedTab!SubmitForm,
     Saved!SubmitForm, SavedTab!OpenModal, Saved!OpenModal, SavedTab!Save, Saved!Save,
     SavedTab!CreateRole, Saved!CreateRole, SavedTab!InModal, Saved!InModal,
     SavedTab!AskRemoveRole, Saved!AskRemoveRole, SavedTab!Open, Saved!Open, SavedTab!InForm,
     Saved!InForm, SavedTab!Click, Saved!Click, SavedTab!Send, Saved!Send, SavedTab!Room,
     Saved!Room, SavedTab!SecretsLeft, Saved!SecretsLeft, SavedTab!Cardinality,
     Saved!Cardinality, SavedTab!Call, Saved!Call, SavedTab!Pending, Saved!Pending,
     SavedTab!Writes, Saved!Writes, SavedTab!Draws, Saved!Draws, SavedTab!Disturbed,
     Saved!Disturbed

LEMMA SavedMounts == ASSUME NEW m \in SavedTab!Mounts PROVE m \in Saved!Mounts
  BY DEF SavedTab!Mounts, Saved!Mounts, SavedTab!Mounted, Saved!Mounted, SavedTab!ListCall,
     Saved!ListCall, SavedTab!Call, Saved!Call

LEMMA SavedShows ==
    ASSUME Saved!FlagsHaveCalls, Saved!ShowsTheTable, Saved!SecretsShown
    PROVE  SavedTab!FlagsHaveCalls /\ SavedTab!ShowsTheTable /\ SavedTab!SecretsShown
  BY DEF SavedTab!FlagsHaveCalls, Saved!FlagsHaveCalls, SavedTab!ShowsTheTable,
     Saved!ShowsTheTable, SavedTab!SecretsShown, Saved!SecretsShown, SavedTab!Pending,
     Saved!Pending, SavedTab!AtRest, Saved!AtRest, SavedTab!SystemRows, Saved!SystemRows,
     SavedTab!Registered, Saved!Registered, SavedTab!RolesOf, Saved!RolesOf, SavedTab!Draws,
     Saved!Draws

LEMMA SavedTabStep ==
    ASSUME NoneIsNoValue, Saved!SystemsTruthInv, SavedTab!Next
    PROVE  Saved!SystemsTruthInv'
<1>1. Saved!NoneIsNoValue
  BY DEF NoneIsNoValue, Saved!NoneIsNoValue, Saved!NoneIsNoModal, Saved!ModalFields
<1>2. Saved!Next
  <2>1. ASSUME NEW i \in DOMAIN calls, SavedTab!Serve(i) \/ SavedTab!Settle(i) PROVE Saved!Next
    BY <2>1, SavedServes, SavedSettles, Zenon DEF Saved!Next
  <2>2. QED
    BY <2>1, SavedClicks
<1>3. QED
  BY <1>1, <1>2, Saved!SystemsTruthStep

LEMMA SavedTabMounts ==
    ASSUME NoneIsNoValue, NEW m \in SavedTab!Mounts,
           view' = m.view, calls' = m.calls, server' = m.server, hist' = m.hist
    PROVE  Saved!SystemsTruthInv'
<1>1. Saved!NoneIsNoValue
  BY DEF NoneIsNoValue, Saved!NoneIsNoValue, Saved!NoneIsNoModal, Saved!ModalFields
<1>2. m \in Saved!Mounts
  BY SavedMounts
<1>3. QED
  BY <1>1, <1>2, Saved!SystemsTruthMounts

LEMMA SavedTabShows ==
    ASSUME Saved!SystemsTruthInv
    PROVE  SavedTab!FlagsHaveCalls /\ SavedTab!ShowsTheTable /\ SavedTab!SecretsShown
BY Saved!SystemsTruth, SavedShows


\* What a term finds is among the users, and the empty term is one of them.
LEMMA FindsAmong ==
    ASSUME NEW S, NEW e \in S
    PROVE  \A t \in S : [x \in S |-> IF x = e THEN 1..2 ELSE {1}][t] \subseteq 1..2
OBVIOUS

LEMMA FindsAll ==
    ASSUME NEW e PROVE \A t \in {e} : [x \in {e} |-> 1..2][t] \subseteq 1..2
OBVIOUS

LEMMA SearchFinds == Sys!TermsFindUsers
<1>1. "" \in SearchTerms
  BY Zenon DEF SearchTerms
<1>2. QED
  BY <1>1, FindsAmong, Zenon DEF Sys!TermsFindUsers

LEMMA UsersFinds == Saved!TermsFindUsers
BY FindsAll, Zenon DEF Saved!TermsFindUsers

LEMMA SearchServes == ASSUME NEW i, SearchTab!Serve(i) PROVE Sys!UP!Serve(i)
BY Zenon DEF SearchTab!Serve, Sys!UP!Serve, SearchTab!ServeList, Sys!UP!ServeList,
   SearchTab!ServeCreate, Sys!UP!ServeCreate, SearchTab!ServeSetActive,
   Sys!UP!ServeSetActive, SearchTab!ServeReset, Sys!UP!ServeReset, SearchTab!DrawFor,
   Sys!UP!DrawFor, SearchTab!RowsOf, Sys!UP!RowsOf, SearchTab!OnPage, Sys!UP!OnPage,
   SearchTab!Newer, Sys!UP!Newer, SearchTab!Matching, Sys!UP!Matching, SearchTab!PagesOf,
   Sys!UP!PagesOf, SearchTab!Answered, Sys!UP!Answered, SearchTab!Cardinality,
   Sys!UP!Cardinality

LEMMA SearchSettles == ASSUME NEW i, SearchTab!Settle(i) PROVE Sys!UP!Settle(i)
BY Zenon DEF SearchTab!Settle, Sys!UP!Settle, SearchTab!ShowList, Sys!UP!ShowList,
   SearchTab!Created, Sys!UP!Created, SearchTab!NotCreated, Sys!UP!NotCreated,
   SearchTab!Toggled, Sys!UP!Toggled, SearchTab!PasswordReset, Sys!UP!PasswordReset,
   SearchTab!Lost, Sys!UP!Lost, SearchTab!Fetch, Sys!UP!Fetch, SearchTab!ListCall,
   Sys!UP!ListCall, SearchTab!Reveal, Sys!UP!Reveal, SearchTab!Asked, Sys!UP!Asked,
   SearchTab!Displayed, Sys!UP!Displayed, SearchTab!Disturbed, Sys!UP!Disturbed,
   SearchTab!Overtakes, Sys!UP!Overtakes, SearchTab!Without, Sys!UP!Without,
   SearchTab!SecretOf, Sys!UP!SecretOf, SearchTab!Draws, Sys!UP!Draws, SearchTab!Reads,
   Sys!UP!Reads, SearchTab!Writes, Sys!UP!Writes

LEMMA SearchClicks == ASSUME SearchTab!Click PROVE Sys!UP!Click
BY Zenon DEF SearchTab!Click, Sys!UP!Click, SearchTab!ClearSearch, Sys!UP!ClearSearch,
   SearchTab!OpenForm, Sys!UP!OpenForm, SearchTab!CancelForm, Sys!UP!CancelForm,
   SearchTab!ConfirmDeactivate, Sys!UP!ConfirmDeactivate, SearchTab!CancelDeactivate,
   Sys!UP!CancelDeactivate, SearchTab!CloseReveal, Sys!UP!CloseReveal, SearchTab!Type,
   Sys!UP!Type, SearchTab!GoToPage, Sys!UP!GoToPage, SearchTab!SetLimit, Sys!UP!SetLimit,
   SearchTab!SubmitForm, Sys!UP!SubmitForm, SearchTab!Toggle, Sys!UP!Toggle,
   SearchTab!ResetPassword, Sys!UP!ResetPassword, SearchTab!SetActive, Sys!UP!SetActive,
   SearchTab!RowsShown, Sys!UP!RowsShown, SearchTab!Open, Sys!UP!Open, SearchTab!Room,
   Sys!UP!Room, SearchTab!SecretsLeft, Sys!UP!SecretsLeft, SearchTab!ShowQuery,
   Sys!UP!ShowQuery, SearchTab!Searched, Sys!UP!Searched, SearchTab!Write, Sys!UP!Write,
   SearchTab!Earlier, Sys!UP!Earlier, SearchTab!Fetch, Sys!UP!Fetch, SearchTab!ListCall,
   Sys!UP!ListCall, SearchTab!Pending, Sys!UP!Pending, SearchTab!Writes, Sys!UP!Writes,
   SearchTab!Reads, Sys!UP!Reads, SearchTab!Draws, Sys!UP!Draws, SearchTab!Disturbed,
   Sys!UP!Disturbed, SearchTab!Asked, Sys!UP!Asked, SearchTab!Cardinality,
   Sys!UP!Cardinality

LEMMA SearchTimer == ASSUME SearchTab!SearchFires PROVE Sys!UP!SearchFires
BY Zenon DEF SearchTab!SearchFires, Sys!UP!SearchFires, SearchTab!ShowQuery,
   Sys!UP!ShowQuery, SearchTab!Searched, Sys!UP!Searched, SearchTab!Fetch, Sys!UP!Fetch,
   SearchTab!ListCall, Sys!UP!ListCall, SearchTab!Pending, Sys!UP!Pending, SearchTab!Writes,
   Sys!UP!Writes, SearchTab!Reads, Sys!UP!Reads, SearchTab!Disturbed, Sys!UP!Disturbed,
   SearchTab!Asked, Sys!UP!Asked

LEMMA SearchMounts == ASSUME NEW m \in SearchTab!Mounts PROVE m \in Sys!UP!Mounts
BY Zenon DEF SearchTab!Mounts, Sys!UP!Mounts, SearchTab!Mounted, Sys!UP!Mounted,
   SearchTab!ListCall, Sys!UP!ListCall, SearchTab!FirstQuery, Sys!UP!FirstQuery,
   SearchTab!Earlier, Sys!UP!Earlier

LEMMA SearchShows ==
    ASSUME Sys!UP!FlagsHaveCalls, Sys!UP!ShowsTheTable, Sys!UP!SecretsShown
    PROVE  SearchTab!FlagsHaveCalls /\ SearchTab!ShowsTheTable /\ SearchTab!SecretsShown
BY Zenon DEF SearchTab!FlagsHaveCalls, Sys!UP!FlagsHaveCalls, SearchTab!ShowsTheTable,
   Sys!UP!ShowsTheTable, SearchTab!SecretsShown, Sys!UP!SecretsShown, SearchTab!Pending,
   Sys!UP!Pending, SearchTab!AtRest, Sys!UP!AtRest, SearchTab!RowsOf, Sys!UP!RowsOf,
   SearchTab!OnPage, Sys!UP!OnPage, SearchTab!Newer, Sys!UP!Newer, SearchTab!Matching,
   Sys!UP!Matching, SearchTab!Draws, Sys!UP!Draws, SearchTab!Cardinality, Sys!UP!Cardinality

LEMMA SearchTabStep ==
    ASSUME NoneIsNoValue, Sys!UsersTruthInv, SearchTab!Next PROVE Sys!UsersTruthInv'
<1>1. Sys!NoneIsNoUser
  BY DEF NoneIsNoValue, Sys!NoneIsNoUser
<1>2. Sys!TermsFindUsers
  BY SearchFinds
<1>3. Sys!UP!Next
  BY SearchServes, SearchSettles, SearchClicks, SearchTimer, Zenon DEF SearchTab!Next, Sys!UP!Next
<1>4. QED
  BY <1>1, <1>2, <1>3, Sys!UsersTruthStep

LEMMA SearchTabMounts ==
    ASSUME NoneIsNoValue, NEW m \in SearchTab!Mounts,
           view' = m.view, calls' = m.calls, server' = m.server, hist' = m.hist
    PROVE  Sys!UsersTruthInv'
<1>1. Sys!NoneIsNoUser
  BY DEF NoneIsNoValue, Sys!NoneIsNoUser
<1>2. Sys!TermsFindUsers
  BY SearchFinds
<1>3. m \in Sys!UP!Mounts
  BY SearchMounts
<1>4. QED
  BY <1>1, <1>2, <1>3, Sys!UsersTruthMounts

LEMMA SearchTabShows ==
    ASSUME Sys!UsersTruthInv
    PROVE  SearchTab!FlagsHaveCalls /\ SearchTab!ShowsTheTable /\ SearchTab!SecretsShown
<1>1. Sys!UP!FlagsHaveCalls /\ Sys!UP!ShowsTheTable /\ Sys!UP!SecretsShown
  BY Sys!UsersTruths
<1>2. QED
  BY <1>1, SearchShows

LEMMA UsersServes == ASSUME NEW i, UsersTab!Serve(i) PROVE Saved!UP!Serve(i)
BY Zenon DEF UsersTab!Serve, Saved!UP!Serve, UsersTab!ServeList, Saved!UP!ServeList,
   UsersTab!ServeCreate, Saved!UP!ServeCreate, UsersTab!ServeSetActive,
   Saved!UP!ServeSetActive, UsersTab!ServeReset, Saved!UP!ServeReset, UsersTab!DrawFor,
   Saved!UP!DrawFor, UsersTab!RowsOf, Saved!UP!RowsOf, UsersTab!OnPage, Saved!UP!OnPage,
   UsersTab!Newer, Saved!UP!Newer, UsersTab!Matching, Saved!UP!Matching, UsersTab!PagesOf,
   Saved!UP!PagesOf, UsersTab!Answered, Saved!UP!Answered, UsersTab!Cardinality,
   Saved!UP!Cardinality

LEMMA UsersSettles == ASSUME NEW i, UsersTab!Settle(i) PROVE Saved!UP!Settle(i)
BY Zenon DEF UsersTab!Settle, Saved!UP!Settle, UsersTab!ShowList, Saved!UP!ShowList,
   UsersTab!Created, Saved!UP!Created, UsersTab!NotCreated, Saved!UP!NotCreated,
   UsersTab!Toggled, Saved!UP!Toggled, UsersTab!PasswordReset, Saved!UP!PasswordReset,
   UsersTab!Lost, Saved!UP!Lost, UsersTab!Fetch, Saved!UP!Fetch, UsersTab!ListCall,
   Saved!UP!ListCall, UsersTab!Reveal, Saved!UP!Reveal, UsersTab!Asked, Saved!UP!Asked,
   UsersTab!Displayed, Saved!UP!Displayed, UsersTab!Disturbed, Saved!UP!Disturbed,
   UsersTab!Overtakes, Saved!UP!Overtakes, UsersTab!Without, Saved!UP!Without,
   UsersTab!SecretOf, Saved!UP!SecretOf, UsersTab!Draws, Saved!UP!Draws, UsersTab!Reads,
   Saved!UP!Reads, UsersTab!Writes, Saved!UP!Writes

LEMMA UsersClicks == ASSUME UsersTab!Click PROVE Saved!UP!Click
BY Zenon DEF UsersTab!Click, Saved!UP!Click, UsersTab!ClearSearch, Saved!UP!ClearSearch,
   UsersTab!OpenForm, Saved!UP!OpenForm, UsersTab!CancelForm, Saved!UP!CancelForm,
   UsersTab!ConfirmDeactivate, Saved!UP!ConfirmDeactivate, UsersTab!CancelDeactivate,
   Saved!UP!CancelDeactivate, UsersTab!CloseReveal, Saved!UP!CloseReveal, UsersTab!Type,
   Saved!UP!Type, UsersTab!GoToPage, Saved!UP!GoToPage, UsersTab!SetLimit,
   Saved!UP!SetLimit, UsersTab!SubmitForm, Saved!UP!SubmitForm, UsersTab!Toggle,
   Saved!UP!Toggle, UsersTab!ResetPassword, Saved!UP!ResetPassword, UsersTab!SetActive,
   Saved!UP!SetActive, UsersTab!RowsShown, Saved!UP!RowsShown, UsersTab!Open, Saved!UP!Open,
   UsersTab!Room, Saved!UP!Room, UsersTab!SecretsLeft, Saved!UP!SecretsLeft,
   UsersTab!ShowQuery, Saved!UP!ShowQuery, UsersTab!Searched, Saved!UP!Searched,
   UsersTab!Write, Saved!UP!Write, UsersTab!Earlier, Saved!UP!Earlier, UsersTab!Fetch,
   Saved!UP!Fetch, UsersTab!ListCall, Saved!UP!ListCall, UsersTab!Pending, Saved!UP!Pending,
   UsersTab!Writes, Saved!UP!Writes, UsersTab!Reads, Saved!UP!Reads, UsersTab!Draws,
   Saved!UP!Draws, UsersTab!Disturbed, Saved!UP!Disturbed, UsersTab!Asked, Saved!UP!Asked,
   UsersTab!Cardinality, Saved!UP!Cardinality

LEMMA UsersTimer == ASSUME UsersTab!SearchFires PROVE Saved!UP!SearchFires
BY Zenon DEF UsersTab!SearchFires, Saved!UP!SearchFires, UsersTab!ShowQuery,
   Saved!UP!ShowQuery, UsersTab!Searched, Saved!UP!Searched, UsersTab!Fetch, Saved!UP!Fetch,
   UsersTab!ListCall, Saved!UP!ListCall, UsersTab!Pending, Saved!UP!Pending,
   UsersTab!Writes, Saved!UP!Writes, UsersTab!Reads, Saved!UP!Reads, UsersTab!Disturbed,
   Saved!UP!Disturbed, UsersTab!Asked, Saved!UP!Asked

LEMMA UsersMounts == ASSUME NEW m \in UsersTab!Mounts PROVE m \in Saved!UP!Mounts
BY Zenon DEF UsersTab!Mounts, Saved!UP!Mounts, UsersTab!Mounted, Saved!UP!Mounted,
   UsersTab!ListCall, Saved!UP!ListCall, UsersTab!FirstQuery, Saved!UP!FirstQuery,
   UsersTab!Earlier, Saved!UP!Earlier

LEMMA UsersShows ==
    ASSUME Saved!UP!FlagsHaveCalls, Saved!UP!ShowsTheTable, Saved!UP!SecretsShown
    PROVE  UsersTab!FlagsHaveCalls /\ UsersTab!ShowsTheTable /\ UsersTab!SecretsShown
BY Zenon DEF UsersTab!FlagsHaveCalls, Saved!UP!FlagsHaveCalls, UsersTab!ShowsTheTable,
   Saved!UP!ShowsTheTable, UsersTab!SecretsShown, Saved!UP!SecretsShown, UsersTab!Pending,
   Saved!UP!Pending, UsersTab!AtRest, Saved!UP!AtRest, UsersTab!RowsOf, Saved!UP!RowsOf,
   UsersTab!OnPage, Saved!UP!OnPage, UsersTab!Newer, Saved!UP!Newer, UsersTab!Matching,
   Saved!UP!Matching, UsersTab!Draws, Saved!UP!Draws, UsersTab!Cardinality,
   Saved!UP!Cardinality

LEMMA UsersTabStep ==
    ASSUME NoneIsNoValue, Saved!UsersTruthInv, UsersTab!Next PROVE Saved!UsersTruthInv'
<1>1. Saved!NoneIsNoUser
  BY DEF NoneIsNoValue, Saved!NoneIsNoUser
<1>2. Saved!TermsFindUsers
  BY UsersFinds
<1>3. Saved!UP!Next
  BY UsersServes, UsersSettles, UsersClicks, UsersTimer, Zenon DEF UsersTab!Next, Saved!UP!Next
<1>4. QED
  BY <1>1, <1>2, <1>3, Saved!UsersTruthStep

LEMMA UsersTabMounts ==
    ASSUME NoneIsNoValue, NEW m \in UsersTab!Mounts,
           view' = m.view, calls' = m.calls, server' = m.server, hist' = m.hist
    PROVE  Saved!UsersTruthInv'
<1>1. Saved!NoneIsNoUser
  BY DEF NoneIsNoValue, Saved!NoneIsNoUser
<1>2. Saved!TermsFindUsers
  BY UsersFinds
<1>3. m \in Saved!UP!Mounts
  BY UsersMounts
<1>4. QED
  BY <1>1, <1>2, <1>3, Saved!UsersTruthMounts

LEMMA UsersTabShows ==
    ASSUME Saved!UsersTruthInv
    PROVE  UsersTab!FlagsHaveCalls /\ UsersTab!ShowsTheTable /\ UsersTab!SecretsShown
<1>1. Saved!UP!FlagsHaveCalls /\ Saved!UP!ShowsTheTable /\ Saved!UP!SecretsShown
  BY Saved!UsersTruths
<1>2. QED
  BY <1>1, UsersShows

-----------------------------------------------------------------------------
(* The theorems *)

PagesInv ==
    /\ tab = "panel" => PanelTruthInv
    /\ tab = "search" => Sys!UsersTruthInv
    /\ tab = "users" => Saved!UsersTruthInv
    /\ tab = "access" => AccessTruthInv
    /\ tab = "systems" => Sys!SystemsTruthInv
    /\ tab = "saved" => Saved!SystemsTruthInv
    /\ tab = "audit" => AuditTruthInv

LEMMA PagesInit == Init => PagesInv
<1> SUFFICES ASSUME Init, tab = "panel" PROVE PanelTruthInv
  BY DEF Init, PagesInv
<1>1. PICK m \in PanelTab!Mounts :
        view = m.view /\ calls = m.calls /\ server = m.server /\ hist = m.hist
  BY DEF Init, MountsOf
<1>2. QED
  BY <1>1, PanelTruthMounts

LEMMA PageOpens ==
    ASSUME NoneIsNoValue, NEW t \in PanelPages, OpenPage(t) PROVE PagesInv'
<1>1. PICK m \in MountsOf(t) :
        /\ view' = m.view /\ calls' = m.calls /\ server' = m.server /\ hist' = m.hist
        /\ tab' = t
  BY DEF OpenPage
<1>2. CASE t = "search"
  <2>1. m \in SearchTab!Mounts
    BY <1>1, <1>2 DEF MountsOf
  <2>2. QED
    BY <1>1, <1>2, <2>1, SearchTabMounts DEF PagesInv
<1>3. CASE t = "users"
  <2>1. m \in UsersTab!Mounts
    BY <1>1, <1>3 DEF MountsOf
  <2>2. QED
    BY <1>1, <1>3, <2>1, UsersTabMounts DEF PagesInv
<1>4. CASE t = "access"
  <2>1. m \in AccessTab!Mounts
    BY <1>1, <1>4 DEF MountsOf
  <2>2. QED
    BY <1>1, <1>4, <2>1, AccessTruthMounts DEF PagesInv
<1>5. CASE t = "systems"
  <2>1. m \in SystemsTab!Mounts
    BY <1>1, <1>5 DEF MountsOf
  <2>2. QED
    BY <1>1, <1>5, <2>1, SystemsTabMounts DEF PagesInv
<1>6. CASE t = "saved"
  <2>1. m \in SavedTab!Mounts
    BY <1>1, <1>6 DEF MountsOf
  <2>2. QED
    BY <1>1, <1>6, <2>1, SavedTabMounts DEF PagesInv
<1>7. CASE t = "audit"
  <2>1. m \in AuditTab!Mounts
    BY <1>1, <1>7 DEF MountsOf
  <2>2. QED
    BY <1>1, <1>7, <2>1, AuditTruthMounts DEF PagesInv
<1>8. QED
  BY <1>2, <1>3, <1>4, <1>5, <1>6, <1>7 DEF PanelPages

LEMMA PageIsLeft == ASSUME NoneIsNoValue, LeavePage PROVE PagesInv'
<1>1. tab' = "panel"
  BY DEF LeavePage
<1>2. QED
  BY <1>1, PanelIsBack DEF PagesInv

LEMMA PagesStep ==
    ASSUME NoneIsNoValue PROVE PagesInv /\ [Next]_vars => PagesInv'
<1> SUFFICES ASSUME PagesInv, [Next]_vars PROVE PagesInv'
  OBVIOUS
<1>1. CASE UNCHANGED vars
  BY <1>1, Sys!SystemsTruthStays, Saved!SystemsTruthStays, Sys!UsersTruthStays,
     Saved!UsersTruthStays, PanelTruthStays, AccessTruthStays, AuditTruthStays
     DEF vars, pageVars, PagesInv, Sys!pageVars, Saved!pageVars
<1>2. CASE tab = "panel" /\ PanelTab!Next /\ UNCHANGED tab
  BY <1>2, PanelTruthStep DEF PagesInv
<1>3. CASE tab = "search" /\ SearchTab!Next /\ UNCHANGED tab
  BY <1>3, SearchTabStep DEF PagesInv
<1>4. CASE tab = "users" /\ UsersTab!Next /\ UNCHANGED tab
  BY <1>4, UsersTabStep DEF PagesInv
<1>5. CASE tab = "access" /\ AccessTab!Next /\ UNCHANGED tab
  BY <1>5, AccessTruthStep DEF PagesInv
<1>6. CASE tab = "systems" /\ SystemsTab!Next /\ UNCHANGED tab
  BY <1>6, SystemsTabStep DEF PagesInv
<1>7. CASE tab = "saved" /\ SavedTab!Next /\ UNCHANGED tab
  BY <1>7, SavedTabStep DEF PagesInv
<1>8. CASE tab = "audit" /\ AuditTab!Next /\ UNCHANGED tab
  BY <1>8, AuditTruthStep DEF PagesInv
<1>9. CASE tab \in {"login", "limiter"} /\ UNCHANGED tab
  BY <1>9 DEF PagesInv
<1>10. QED
  BY <1>1, <1>2, <1>3, <1>4, <1>5, <1>6, <1>7, <1>8, <1>9, PageOpens, PageIsLeft DEF Next

LEMMA PagesInvariance == ASSUME NoneIsNoValue PROVE Spec => []PagesInv
<1>1. PagesInv /\ [Next]_vars => PagesInv'
  BY PagesStep
<1>2. QED
  BY <1>1, PagesInit, PTL DEF Spec

\* For any number of requests under way, and however they are answered or lost:
\* a flag that disables a button or hides a table (loading, creating, saving,
\* busyAccessId, rowActionId, submitting) is up only while the request is under
\* way that takes it down.  None must not pass for the state of a modal.
THEOREM FlagsTheorem == ASSUME NoneIsNoValue PROVE Spec => []FlagsEndWithTheirCalls
<1>2. Spec => []PagesInv
  BY PagesInvariance
<1>3. PagesInv /\ SignInInv => FlagsEndWithTheirCalls
  <2> SUFFICES ASSUME PagesInv, SignInInv PROVE FlagsEndWithTheirCalls
    OBVIOUS
  <2>1. tab = "panel" => PanelTab!FlagsHaveCalls
    BY PanelTruths DEF PagesInv
  <2>2. tab = "search" => SearchTab!FlagsHaveCalls
    BY SearchTabShows DEF PagesInv
  <2>3. tab = "users" => UsersTab!FlagsHaveCalls
    BY UsersTabShows DEF PagesInv
  <2>4. tab = "access" => AccessTab!FlagsHaveCalls
    BY AccessTruths DEF PagesInv
  <2>5. tab = "systems" => SystemsTab!FlagsHaveCalls
    BY SystemsTabShows DEF PagesInv
  <2>6. tab = "saved" => SavedTab!FlagsHaveCalls
    BY SavedTabShows DEF PagesInv
  <2>7. tab = "audit" => AuditTab!FlagsHaveCalls
    BY AuditTruths DEF PagesInv
  <2>8. tab = "login" => LoginTab!FlagsHaveCalls
    BY DEF SignInInv, LoginInv, LoginOk, Waited, LoginTab!FlagsHaveCalls
  <2>9. QED
    BY <2>1, <2>2, <2>3, <2>4, <2>5, <2>6, <2>7, <2>8 DEF FlagsEndWithTheirCalls
<1>4. QED
  BY <1>2, <1>3, SignInInvariance, PTL

\* For any number of requests under way: a temporary password or client secret
\* that is in force was on display, under the right name, or its answer was lost
\* (Reveal and what calls it, in Usuarios.jsx and Sistemas.jsx).
THEOREM SecretsTheorem == ASSUME NoneIsNoValue PROVE Spec => []SecretsReachTheAdmin
<1>1. PagesInv => SecretsReachTheAdmin
  BY UsersTabShows, SystemsTabShows, SavedTabShows DEF PagesInv, SecretsReachTheAdmin
<1>2. QED
  BY <1>1, PagesInvariance, PTL

\* For any number of requests under way, and however they interleave: once all of
\* them are answered, and unless one was lost or refused, a page shows what the
\* server holds (the refetch after every write, the debounced search, the order in
\* which answers arrive), the page of the log at some moment since it was asked for.
THEOREM RestTheorem == ASSUME NoneIsNoValue PROVE Spec => []RestShowsTruth
<1>1. PagesInv => RestShowsTruth
  BY PanelTruths, SearchTabShows, UsersTabShows, AccessTruths, SystemsTabShows, SavedTabShows,
     AuditTruths DEF PagesInv, RestShowsTruth
<1>2. QED
  BY <1>1, PagesInvariance, PTL
=============================================================================
