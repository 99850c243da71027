------------------------------- MODULE LoginUi -------------------------------
(***************************************************************************)
(* The IdP's own pages (src/login-ui): login, forced password change, the  *)
(* menu of systems and the page for errors, and the way back to /authorize *)
(* that brought the user there.  returnTo says that the address of the     *)
(* page carries a return_to of the IdP's own origin; safeReturnTo takes    *)
(* any other for none.  "authorize" stands for GET /authorize, whose       *)
(* answer is a page load, and "system" for the client system it ends in.   *)
(*                                                                         *)
(* A handler of a page that is gone goes on and navigates all the same;    *)
(* only its own form is not there any more (live is FALSE).  A page load   *)
(* ends every handler.                                                     *)
(***************************************************************************)
EXTENDS PageCalls

Pages == {"login", "change", "home", "erro", "authorize", "system"}

-----------------------------------------------------------------------------
(* The IdP; server is the session of this browser and its user's row *)

\* 0: the password is wrong, the account inactive, or the limiter says no.
ServeLogin(i) ==
    /\ calls[i].op = "login" /\ calls[i].answer = None
    /\ \/ Answered(i, [ok |-> FALSE, must |-> FALSE]) /\ UNCHANGED server
       \/ /\ Answered(i, [ok |-> TRUE, must |-> server.must])
          /\ server' = [server EXCEPT !.session = TRUE]
    /\ UNCHANGED <<view, hist>>

ServeChange(i) ==
    /\ calls[i].op = "change" /\ calls[i].answer = None
    /\ \/ Answered(i, [ok |-> FALSE, must |-> FALSE]) /\ UNCHANGED server
       \/ /\ server.session
          /\ Answered(i, [ok |-> TRUE, must |-> FALSE])
          /\ server' = [server EXCEPT !.must = FALSE]
    /\ UNCHANGED <<view, hist>>

\* GET /me and GET /me/systems; without a session both are 401.
ServeMe(i) ==
    /\ calls[i].op = "me" /\ calls[i].answer = None
    /\ Answered(i, [ok |-> server.session, must |-> server.must])
    /\ UNCHANGED <<view, server, hist>>

ServeLogout(i) ==
    /\ calls[i].op = "logout" /\ calls[i].answer = None
    /\ Answered(i, [ok |-> server.session, must |-> FALSE])
    /\ server' = [server EXCEPT !.session = FALSE]
    /\ UNCHANGED <<view, hist>>

\* The session ends, or the user gets a temporary password.
Elsewhere ==
    /\ \/ server' = [server EXCEPT !.session = FALSE]
       \/ server' = [server EXCEPT !.must = TRUE]
    /\ server' # server
    /\ UNCHANGED <<view, calls, hist>>

-----------------------------------------------------------------------------
(* Pages and navigation *)

Call(op) == [op |-> op, returnTo |-> view.returnTo, live |-> TRUE, answer |-> None]
HomeCall == [op |-> "me", returnTo |-> FALSE, live |-> TRUE, answer |-> None]

Fresh(path, returnTo) ==
    [path |-> path, returnTo |-> returnTo, submitting |-> FALSE,
     loading |-> path = "home", menu |-> FALSE, leaving |-> FALSE]
FreshCalls(path) == IF path = "home" THEN <<HomeCall>> ELSE <<>>

\* The pages a browser may open first; only the forms have a return_to.
Starts == {start \in [path : Pages \ {"system"}, returnTo : BOOLEAN,
                      session : BOOLEAN, must : BOOLEAN] :
             start.returnTo => start.path \in {"login", "change"}}

\* goal (history): the login now in progress was begun by an /authorize, or by
\* a link that has an own return_to.
Mounts ==
    {[view |-> Fresh(start.path, start.returnTo), calls |-> FreshCalls(start.path),
      server |-> [session |-> start.session, must |-> start.must],
      hist |-> [goal |-> start.returnTo \/ start.path = "authorize"]] : start \in Starts}

Load(path, returnTo, goal) ==
    /\ view' = Fresh(path, returnTo) /\ calls' = FreshCalls(path)
    /\ hist' = [goal |-> goal]
    /\ UNCHANGED server

\* navigate(), in a handler whose call is no longer among rest.  The page that
\* is on display already stays as it is, but for its address.
Navigate(path, returnTo, rest) ==
    IF path = view.path
    THEN view' = [view EXCEPT !.returnTo = returnTo] /\ calls' = rest
    ELSE /\ view' = Fresh(path, returnTo)
         /\ calls' = [j \in DOMAIN rest |-> [rest[j] EXCEPT !.live = FALSE]]
                     \o FreshCalls(path)

\* GET /authorize (OAuthTokens) sends the browser to the page that is missing,
\* with its own address as return_to, or on to the client system.
Authorize ==
    /\ view.path = "authorize"
    /\ IF ~server.session THEN Load("login", TRUE, TRUE)
       ELSE IF server.must THEN Load("change", TRUE, TRUE)
       ELSE Load("system", FALSE, TRUE)

\* The address is not one of a client: nothing to go back to.
AuthorizeFails == view.path = "authorize" /\ Load("erro", FALSE, FALSE)
BackToLogin    == view.path = "erro" /\ Load("login", FALSE, FALSE)

\* The user comes back from the client system, by its login or for the menu.
ComeBack == view.path = "system" /\ (Load("authorize", FALSE, TRUE) \/ Load("home", FALSE, FALSE))

Room == Len(calls) < MaxCalls

Submit ==
    /\ view.path \in {"login", "change"} /\ ~view.submitting /\ Room
    /\ view' = [view EXCEPT !.submitting = TRUE]
    /\ calls' = Append(calls, Call(view.path))
    /\ UNCHANGED <<server, hist>>

Logout ==
    /\ view.path = "home" /\ ~view.leaving /\ Room
    /\ view' = [view EXCEPT !.leaving = TRUE]
    /\ calls' = Append(calls, Call("logout"))
    /\ UNCHANGED <<server, hist>>

\* A system of the menu, if it was loaded: its /auth/login leads to /authorize.
OpenSystem == view.path = "home" /\ view.menu /\ Load("authorize", FALSE, TRUE)

-----------------------------------------------------------------------------
(* Answers *)

\* After the last form: back to /authorize if it is known, or to the menu.
GoOn(i) ==
    IF calls[i].returnTo
    THEN Load("authorize", FALSE, hist.goal)
    ELSE Navigate("home", FALSE, Without(i)) /\ UNCHANGED <<server, hist>>

Succeeded(i, op) == calls[i].op = op /\ calls[i].answer # None /\ calls[i].answer.ok

\* Mutant of LoggedIn: the way back is dropped on the way to the second form.
LoggedInForgetful(i) ==
    /\ Succeeded(i, "login")
    /\ IF calls[i].answer.must
       THEN Navigate("change", FALSE, Without(i)) /\ UNCHANGED <<server, hist>>
       ELSE GoOn(i)

LoggedIn(i) ==
    /\ Succeeded(i, "login")
    /\ IF calls[i].answer.must
       THEN Navigate("change", calls[i].returnTo, Without(i)) /\ UNCHANGED <<server, hist>>
       ELSE GoOn(i)

Changed(i) == Succeeded(i, "change") /\ GoOn(i)

\* The menu: a temporary password has to go first, and without a session there
\* is no menu.
ShowHome(i) ==
    /\ calls[i].op = "me" /\ calls[i].answer # None
    /\ IF ~calls[i].answer.ok THEN Navigate("login", FALSE, Without(i))
       ELSE IF calls[i].answer.must THEN Navigate("change", FALSE, Without(i))
       ELSE /\ view' = IF calls[i].live
                       THEN [view EXCEPT !.loading = FALSE, !.menu = TRUE] ELSE view
            /\ calls' = Without(i)
    /\ UNCHANGED <<server, hist>>

\* Also after an error.
LoggedOut(i) ==
    /\ calls[i].op = "logout" /\ calls[i].answer # None
    /\ Navigate("login", FALSE, Without(i))
    /\ UNCHANGED <<server, hist>>

Refused(i) ==
    /\ calls[i].op \in {"login", "change"} /\ calls[i].answer # None /\ ~calls[i].answer.ok
    /\ view' = [view EXCEPT !.submitting = @ /\ ~calls[i].live]
    /\ calls' = Without(i)
    /\ UNCHANGED <<server, hist>>

\* The request did not arrive, or its answer did not.
Lost(i) ==
    /\ IF calls[i].op = "logout" THEN Navigate("login", FALSE, Without(i))
       ELSE /\ view' = IF ~calls[i].live THEN view
                       ELSE [view EXCEPT !.submitting = FALSE,
                                         !.loading = @ /\ calls[i].op # "me"]
            /\ calls' = Without(i)
    /\ UNCHANGED <<server, hist>>

Next ==
    \/ Elsewhere \/ Authorize \/ AuthorizeFails \/ BackToLogin \/ ComeBack
    \/ Submit \/ Logout \/ OpenSystem
    \/ \E i \in DOMAIN calls :
         \/ ServeLogin(i) \/ ServeChange(i) \/ ServeMe(i) \/ ServeLogout(i)
         \/ LoggedIn(i) \/ Changed(i) \/ ShowHome(i) \/ LoggedOut(i) \/ Refused(i) \/ Lost(i)

-----------------------------------------------------------------------------
(* Requirements *)

TypeOK ==
    /\ view \in [path : Pages, returnTo : BOOLEAN, submitting : BOOLEAN,
                 loading : BOOLEAN, menu : BOOLEAN, leaving : BOOLEAN]
    /\ \A i \in DOMAIN calls :
         /\ calls[i].op \in {"login", "change", "me", "logout"}
         /\ calls[i].returnTo \in BOOLEAN /\ calls[i].live \in BOOLEAN
         /\ calls[i].answer \in [ok : BOOLEAN, must : BOOLEAN] \cup {None}
    /\ server \in [session : BOOLEAN, must : BOOLEAN] /\ hist.goal \in BOOLEAN

\* Who was sent here by an /authorize, or with a return_to, keeps the way back
\* through both forms and never ends in the menu; nobody else is sent there.
ReturnsToWhereItStarted ==
    /\ view.path \in {"login", "change"} => view.returnTo = hist.goal
    /\ view.path = "home" => ~hist.goal
    /\ view.path \in {"authorize", "system"} => hist.goal

FlagsHaveCalls ==
    LET Live(ops) == \E i \in DOMAIN calls : calls[i].op \in ops /\ calls[i].live
    IN  /\ view.submitting => Live({"login", "change"})
        /\ view.loading => Live({"me"})
        /\ view.leaving => Live({"logout"})
=============================================================================
