------------------------------ MODULE PanelAuth ------------------------------
(***************************************************************************)
(* Who is logged in, as the panel sees it: AuthContext, ProtectedRoute and *)
(* the pages Entrar and TrocarSenha.  The context holds the answer of the  *)
(* last GET /me, and null after any error.  The session it is about lives  *)
(* at the IdP (IdpSession) and changes there: it expires, another tab uses *)
(* it, the user is deactivated or gets a temporary password.               *)
(***************************************************************************)
EXTENDS PageCalls

CONSTANTS Accounts, Admins      \* Admins: those with isTI

Me == IF server.session = None THEN None
      ELSE [name |-> server.session, must |-> server.must[server.session]]

Persons == [name : Accounts, must : BOOLEAN] \cup {None}

-----------------------------------------------------------------------------
(* auth.controller.ts and auth.service.ts *)

ServeMe(i) ==
    /\ calls[i].op = "me" /\ calls[i].answer = None
    /\ Answered(i, [user |-> Me])
    /\ UNCHANGED <<view, server, hist>>

\* 0: the password is wrong, or the account inactive.
ServeLogin(i) ==
    /\ calls[i].op = "login" /\ calls[i].answer = None
    /\ \/ Answered(i, 0) /\ UNCHANGED server
       \/ Answered(i, 1) /\ server' = [server EXCEPT !.session = calls[i].name]
    /\ UNCHANGED <<view, hist>>

ServeLogout(i) ==
    /\ calls[i].op = "logout" /\ calls[i].answer = None
    /\ Answered(i, 1) /\ server' = [server EXCEPT !.session = None]
    /\ UNCHANGED <<view, hist>>

\* 0: no session, or the password is wrong.
ServeChange(i) ==
    /\ calls[i].op = "change" /\ calls[i].answer = None
    /\ \/ Answered(i, 0) /\ UNCHANGED server
       \/ /\ server.session # None
          /\ Answered(i, 1) /\ server' = [server EXCEPT !.must[server.session] = FALSE]
    /\ UNCHANGED <<view, hist>>

\* What happens to the session without this page.
Elsewhere ==
    /\ \/ \E s \in Accounts \cup {None} : server' = [server EXCEPT !.session = s]
       \/ \E a \in Accounts : server' = [server EXCEPT !.must[a] = TRUE]
    /\ server' # server
    /\ hist' = Disturbed
    /\ UNCHANGED <<view, calls>>

-----------------------------------------------------------------------------
(* The panel *)

Call(op, name, then) == [op |-> op, name |-> name, then |-> then, answer |-> None]
MeCall(then)         == Call("me", None, then)

\* ProtectedRoute: who is not logged in is sent to /entrar, who must change the
\* password to /trocar-senha.  Those two pages stand outside of it.
Routed(v) ==
    IF v.path # "page" \/ v.loading THEN v
    ELSE IF v.user = None THEN [v EXCEPT !.path = "entrar"]
    ELSE IF v.user.must THEN [v EXCEPT !.path = "trocar"]
    ELSE v

Mounts ==
    {[view   |-> [path |-> path, user |-> None, loading |-> TRUE, submitting |-> FALSE],
      calls  |-> <<MeCall("mount")>>,
      server |-> [session |-> s, must |-> must],
      hist   |-> [calm |-> TRUE]] :
       path \in {"entrar", "trocar", "page"}, s \in Accounts \cup {None},
       must \in [Accounts -> BOOLEAN]}

Room == Len(calls) < MaxCalls

\* One of the pages is on display; those who are no administrators see a notice.
Inside == view.path = "page" /\ ~view.loading
Outlet == Inside /\ view.user.name \in Admins

SubmitLogin(a) ==
    /\ view.path = "entrar" /\ ~view.submitting /\ Room
    /\ view' = [view EXCEPT !.submitting = TRUE]
    /\ calls' = Append(calls, Call("login", a, None))
    /\ UNCHANGED <<server, hist>>

SubmitChange ==
    /\ view.path = "trocar" /\ ~view.submitting /\ Room
    /\ view' = [view EXCEPT !.submitting = TRUE]
    /\ calls' = Append(calls, Call("change", None, None))
    /\ UNCHANGED <<server, hist>>

\* The button Sair, in the layout, under the notice and in TrocarSenha.
Logout ==
    /\ \/ Inside
       \/ view.path = "trocar" /\ ~view.submitting
    /\ Room
    /\ calls' = Append(calls, Call("logout", None, None))
    /\ UNCHANGED <<view, server, hist>>

-----------------------------------------------------------------------------
(* Answers *)

Displays == {"me", "logout"}

\* refresh: setUser, and what the handler that called it does next.
Refreshed(i, user) ==
    LET v == [view EXCEPT !.user = user] IN
    CASE calls[i].then = "mount"  -> Routed([v EXCEPT !.loading = FALSE])
      [] calls[i].then = "login"  ->
           IF user # None /\ user.must
           THEN [v EXCEPT !.path = "trocar", !.submitting = FALSE]
           ELSE Routed([v EXCEPT !.path = "page", !.submitting = FALSE])
      [] calls[i].then = "change" -> Routed([v EXCEPT !.path = "page", !.submitting = FALSE])

\* hist after the user on display was set by the answer to request i.
Shown(i) ==
    [hist EXCEPT !.calm = @ /\ ~\E j \in 1..(i - 1) : calls[j].op \in Displays]

ShowMe(i) ==
    /\ calls[i].op = "me" /\ calls[i].answer # None
    /\ view' = Refreshed(i, calls[i].answer.user)
    /\ calls' = Without(i)
    /\ hist' = Shown(i)
    /\ UNCHANGED server

\* login and changePassword are followed by refresh.
Refresh(i) ==
    /\ calls[i].op \in {"login", "change"} /\ calls[i].answer = 1
    /\ calls' = Append(Without(i), MeCall(calls[i].op))
    /\ hist' = IF \E j \in DOMAIN Without(i) : Without(i)[j].op \in Writes
               THEN Disturbed ELSE Asked(Without(i), TRUE)
    /\ UNCHANGED <<view, server>>

Refused(i) ==
    /\ calls[i].op \in {"login", "change"} /\ calls[i].answer = 0
    /\ view' = [view EXCEPT !.submitting = FALSE]
    /\ calls' = Without(i)
    /\ UNCHANGED <<server, hist>>

\* setUser(null), whatever became of the request.
LoggedOut(i) ==
    /\ calls[i].op = "logout" /\ calls[i].answer # None
    /\ view' = Routed([view EXCEPT !.user = None])
    /\ calls' = Without(i)
    /\ hist' = Shown(i)
    /\ UNCHANGED server

\* The request did not arrive, or its answer did not; refresh takes it for null.
Lost(i) ==
    /\ view' = CASE calls[i].op = "me"     -> Refreshed(i, None)
                 [] calls[i].op = "logout" -> Routed([view EXCEPT !.user = None])
                 [] OTHER                  -> [view EXCEPT !.submitting = FALSE]
    /\ calls' = Without(i)
    /\ hist' = Disturbed
    /\ UNCHANGED server

Next ==
    \/ Elsewhere \/ SubmitChange \/ Logout
    \/ \E a \in Accounts : SubmitLogin(a)
    \/ \E i \in DOMAIN calls :
         \/ ServeMe(i) \/ ServeLogin(i) \/ ServeLogout(i) \/ ServeChange(i)
         \/ ShowMe(i) \/ Refresh(i) \/ Refused(i) \/ LoggedOut(i) \/ Lost(i)

-----------------------------------------------------------------------------
(* Requirements *)

TypeOK ==
    /\ view \in [path : {"entrar", "trocar", "page"}, user : Persons,
                 loading : BOOLEAN, submitting : BOOLEAN]
    /\ \A i \in DOMAIN calls : /\ calls[i].name \in Accounts \cup {None}
                               /\ calls[i].then \in {"mount", "login", "change", None}
    /\ server \in [session : Accounts \cup {None}, must : [Accounts -> BOOLEAN]]

AtRest == calls = <<>>

\* The panel knows who is logged in and whether the password must be changed.
ShowsTheTable == AtRest /\ hist.calm => view.user = Me

FlagsHaveCalls ==
    /\ view.loading =>
         \E i \in DOMAIN calls : calls[i].op = "me" /\ calls[i].then = "mount"
    /\ view.submitting =>
         \E i \in DOMAIN calls : \/ calls[i].op \in {"login", "change"}
                                 \/ calls[i].op = "me" /\ calls[i].then # "mount"
=============================================================================
