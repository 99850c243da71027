----------------------------- MODULE IdpSession -----------------------------
(***************************************************************************)
(* The session an employee has with the IdP itself: POST /login and        *)
(* /logout, GET /session/end, POST /password/change, the middlewares every *)
(* protected route starts with, the two admin operations that change a     *)
(* user under the feet of a session, and the table behind it all           *)
(* (src/lib/sessionStore.ts).                                              *)
(*                                                                         *)
(* One action is one database call with the synchronous code around it.    *)
(* express-session, configured in src/app.ts with resave and               *)
(* saveUninitialized off, loads the session named by the cookie before the *)
(* handler and, before the response ends, saves a session the handler has  *)
(* created or touches one it found.  Of the audit trail only LOGIN_SUCCESS *)
(* is kept; a password stands for itself and its hash.                     *)
(***************************************************************************)
EXTENDS Naturals, FiniteSets, FiniteSetsExt

CONSTANTS
    Users, TIUsers,     \* TIUsers: isTI, which no operation ever changes
    Passwords,
    Sids,               \* session ids, each drawn once
    Requests,
    None

Routes   == {"login", "me", "logout", "end", "change", "admin"}
LoginPcs == {"findByEmail", "auditLogin", "regenerate", "save"}
Pcs      == {"idle", "get", "findById", "serve", "writePassword", "writeUser",
             "destroy", "drop", "touch"} \cup LoginPcs

SessionRows == [user : Users, expired : BOOLEAN]
UserRows    == [active : BOOLEAN, mustChange : BOOLEAN, password : Passwords]
Locals      == [pc : Pcs, route : Routes \cup {None}, sid : Sids \cup {None},
                user : Users \cup {None}, password : Passwords \cup {None}]

ASSUME UsersAssumption == TIUsers \subseteq Users
ASSUME NoneAssumption ==
    /\ None \notin Users \cup Passwords \cup Sids \cup Routes \cup SessionRows
    /\ {"active", "ready"} \cap Passwords = {}
\* What a process has drawn and has in flight is finite; the rows are counted.
ASSUME FiniteAssumption == IsFiniteSet(Sids) /\ IsFiniteSet(Requests)

VARIABLES
    users,      \* table users
    sessions,   \* table sessions
    logins,     \* number of LOGIN_SUCCESS rows of each user
    req,        \* local variables of the request
    owner,      \* history: who each session was created for
    window      \* history: what was in force for the user of a request

vars == <<users, sessions, logins, req, owner, window>>

Idle == [pc |-> "idle", route |-> None, sid |-> None, user |-> None,
         password |-> None]

Init ==
    /\ users \in [Users -> {row \in UserRows : row.active /\ row.mustChange}]
    /\ sessions = [s \in Sids |-> None]
    /\ logins = [u \in Users |-> 0]
    /\ req = [r \in Requests |-> Idle]
    /\ owner = [s \in Sids |-> None]
    /\ window = [r \in Requests |-> {}]

-----------------------------------------------------------------------------

At(r, pc)   == req[r].pc = pc
Goto(r, pc) == req' = [req EXCEPT ![r].pc = pc]
Finish(r)   == req' = [req EXCEPT ![r] = Idle]

\* The end of a response: the session that was loaded is touched, if any.
Respond(r) == IF req[r].sid = None THEN Finish(r) ELSE Goto(r, "touch")

InForce(user) ==
    (IF user.active THEN {"active"} ELSE {})
      \cup (IF user.mustChange THEN {} ELSE {"ready"})
      \cup {user.password}

\* window[r] collects what has been in force since r learnt its user.
TrackWindow ==
    window' = [r \in Requests |->
                 IF req'[r].user = None THEN {}
                 ELSE window[r] \cup InForce(users'[req'[r].user])]

ReadsOnly      == UNCHANGED <<users, sessions, logins, owner>> /\ TrackWindow
WritesUsers    == UNCHANGED <<sessions, logins, owner>> /\ TrackWindow
WritesSessions == UNCHANGED <<users, logins, owner>> /\ TrackWindow

\* Bound: no more successful logins than session ids.
LoginsLeft ==
    MapThenSumSet(LAMBDA u : logins[u], Users)
      + Cardinality({r \in Requests : req[r].route = "login"
                                        /\ req[r].pc \in {"get", "findByEmail", "auditLogin"}})
      < Cardinality(Sids)

-----------------------------------------------------------------------------
(* Before the handler: express-session and requireAuth *)

\* A request comes with the cookie of any session ever saved, or with none.
Start(r, route, sid) ==
    /\ At(r, "idle")
    /\ route = "login" => LoginsLeft
    /\ sid # None => owner[sid] # None
    /\ req' = [req EXCEPT ![r] = [Idle EXCEPT !.pc = "get", !.route = route, !.sid = sid]]
    /\ ReadsOnly

\* Where a request goes once its session is known.  GET /session/end looks up
\* the client and its redirect first, and leaves the session alone if they are
\* not registered; it does not look at the user.
AfterGet(route, found) ==
    CASE route = "login" -> {"findByEmail"}
      [] route = "end"   -> IF found THEN {"destroy", "touch"} ELSE {"idle"}
      [] OTHER           -> IF found THEN {"findById"} ELSE {"idle"}

\* Mutant of Get: get does not compare expiresAt with the clock.
GetAnyAge(r) ==
    /\ At(r, "get")
    /\ LET sid == req[r].sid
           found == sid # None /\ sessions[sid] # None IN
         \E pc \in AfterGet(req[r].route, found) :
           IF pc = "idle" THEN Finish(r)
           ELSE req' = [req EXCEPT ![r].pc = pc,
                                   ![r].sid = IF found THEN sid ELSE None,
                                   ![r].user = IF found /\ req[r].route # "login"
                                              THEN sessions[sid].user ELSE None]
    /\ ReadsOnly

\* store.get: an expired row counts as none, and a request without a session
\* gets a new one, which is forgotten unless something is put into it.
Get(r) ==
    /\ At(r, "get")
    /\ LET sid == req[r].sid
           found == sid # None /\ sessions[sid] # None /\ ~sessions[sid].expired IN
         \E pc \in AfterGet(req[r].route, found) :
           IF pc = "idle" THEN Finish(r)
           ELSE req' = [req EXCEPT ![r].pc = pc,
                                   ![r].sid = IF found THEN sid ELSE None,
                                   ![r].user = IF found /\ req[r].route # "login"
                                              THEN sessions[sid].user ELSE None]
    /\ ReadsOnly

\* What the middlewares and the handler make of the user row; p is the
\* currentPassword in the body of a password change.
Admit(row, user, route, p) ==
    CASE route = "me"     -> "serve"
      [] route = "logout" -> "destroy"
      [] route = "change" -> IF row.password = p THEN "writePassword" ELSE "touch"
      [] route = "admin"  -> IF ~row.mustChange /\ user \in TIUsers THEN "writeUser"
                                                                    ELSE "touch"

\* Mutant of FindById: the session is believed, as long as the user exists.
FindByIdAnyUser(r) ==
    /\ At(r, "findById")
    /\ \E p \in Passwords :
         req' = [req EXCEPT
                   ![r].pc = Admit(users[req[r].user], req[r].user, req[r].route, p),
                   ![r].password = IF req[r].route = "change" THEN p ELSE None]
    /\ ReadsOnly

\* requireAuth, blockIfMustChangePassword, requireTI and the checks made on
\* req.user, which stays the row read here for the rest of the request.
FindById(r) ==
    /\ At(r, "findById")
    /\ LET row == users[req[r].user] IN
         \/ ~row.active /\ Goto(r, "drop")
         \/ /\ row.active
            /\ \E p \in Passwords :
                 req' = [req EXCEPT
                           ![r].pc = Admit(row, req[r].user, req[r].route, p),
                           ![r].password = IF req[r].route = "change" THEN p ELSE None]
    /\ ReadsOnly

\* The session of a deactivated user is destroyed in the background.
Drop(r) ==
    /\ At(r, "drop")
    /\ sessions' = [sessions EXCEPT ![req[r].sid] = None]
    /\ Finish(r)
    /\ WritesSessions

\* Mutant of Touch: the store writes the session back, as set does.
TouchUpserts(r) ==
    /\ At(r, "touch")
    /\ sessions' = [sessions EXCEPT ![req[r].sid] =
                      [user |-> owner[req[r].sid], expired |-> FALSE]]
    /\ Finish(r)
    /\ WritesSessions

\* store.touch is an UPDATE: it prolongs a session, it does not bring one back.
Touch(r) ==
    /\ At(r, "touch")
    /\ LET sid == req[r].sid IN
         sessions' = IF sessions[sid] = None THEN sessions
                     ELSE [sessions EXCEPT ![sid].expired = FALSE]
    /\ Finish(r)
    /\ WritesSessions

-----------------------------------------------------------------------------
(* The handlers *)

\* Mutant of FindByEmail: the successful login is not recorded.
FindByEmailNoAudit(r) ==
    /\ At(r, "findByEmail")
    /\ \E u \in Users, p \in Passwords :
         LET ok == users[u].active /\ users[u].password = p IN
           \/ ok /\ req' = [req EXCEPT ![r].pc = "regenerate", ![r].user = u,
                                       ![r].password = p]
           \/ ~ok /\ Respond(r)
    /\ ReadsOnly

\* authService.login up to its audit row; every failure gets the same answer.
FindByEmail(r) ==
    /\ At(r, "findByEmail")
    /\ \E u \in Users, p \in Passwords :
         LET ok == users[u].active /\ users[u].password = p IN
           \/ ok /\ req' = [req EXCEPT ![r].pc = "auditLogin", ![r].user = u,
                                       ![r].password = p]
           \/ ~ok /\ Respond(r)
    /\ ReadsOnly

AuditLogin(r) ==
    /\ At(r, "auditLogin")
    /\ logins' = [logins EXCEPT ![req[r].user] = @ + 1]
    /\ Goto(r, "regenerate")
    /\ UNCHANGED <<users, sessions, owner>>
    /\ TrackWindow

Fresh(sid) == owner[sid] = None /\ \A r \in Requests : At(r, "save") => req[r].sid # sid

\* Mutant of Regenerate: the login is put into the session that was there.
RegenerateNot(r) ==
    /\ At(r, "regenerate")
    /\ \E sid \in Sids :
         /\ IF req[r].sid = None THEN Fresh(sid) ELSE sid = req[r].sid
         /\ req' = [req EXCEPT ![r].pc = "save", ![r].sid = sid]
    /\ UNCHANGED sessions
    /\ WritesSessions

\* req.session.regenerate destroys the old session and draws a new id.
Regenerate(r) ==
    /\ At(r, "regenerate")
    /\ sessions' = [s \in Sids |-> IF s = req[r].sid THEN None ELSE sessions[s]]
    /\ \E sid \in Sids :
         /\ Fresh(sid)
         /\ req' = [req EXCEPT ![r].pc = "save", ![r].sid = sid]
    /\ WritesSessions

\* Mutant of Save: the response ends before the user is put into the session.
SaveTooEarly(r) ==
    /\ At(r, "save")
    /\ LET sid == req[r].sid IN
         /\ sessions' = [sessions EXCEPT ![sid] = [user |-> None, expired |-> FALSE]]
         /\ owner' = [owner EXCEPT ![sid] = req[r].user]
    /\ Finish(r)
    /\ UNCHANGED <<users, logins>>
    /\ TrackWindow

\* store.set, then the response with the cookie.
Save(r) ==
    /\ At(r, "save")
    /\ LET sid == req[r].sid IN
         /\ sessions' = [sessions EXCEPT ![sid] = [user |-> req[r].user, expired |-> FALSE]]
         /\ owner' = [owner EXCEPT ![sid] = IF @ = None THEN req[r].user ELSE @]
    /\ Finish(r)
    /\ UNCHANGED <<users, logins>>
    /\ TrackWindow

\* GET /me and /me/systems; whatever they read, the session is touched.
Serve(r) ==
    /\ At(r, "serve")
    /\ Goto(r, "touch")
    /\ ReadsOnly

\* logout and endSession: the row goes first; the LOGOUT row, which is not
\* modelled, and the answer follow.
Destroy(r) ==
    /\ At(r, "destroy")
    /\ sessions' = [sessions EXCEPT ![req[r].sid] = None]
    /\ Finish(r)
    /\ WritesSessions

\* authService.changePassword: an UPDATE by id, whatever the row holds by now.
WritePassword(r) ==
    /\ At(r, "writePassword")
    /\ \E p \in Passwords :
         users' = [users EXCEPT ![req[r].user].password = p,
                                ![req[r].user].mustChange = FALSE]
    /\ Goto(r, "touch")
    /\ WritesUsers

\* userService.setActive or resetPassword on some user; the temporary password
\* of a reset is drawn at random.
WriteUser(r) ==
    /\ At(r, "writeUser")
    /\ \E u \in Users :
         \/ \E active \in BOOLEAN : users' = [users EXCEPT ![u].active = active]
         \/ \E p \in Passwords \ {users[u].password} :
              users' = [users EXCEPT ![u].password = p, ![u].mustChange = TRUE]
    /\ Goto(r, "touch")
    /\ WritesUsers

-----------------------------------------------------------------------------

\* The pending call throws or the process dies.
Abort(r) ==
    /\ ~At(r, "idle")
    /\ Finish(r)
    /\ ReadsOnly

Expire(s) ==
    /\ sessions[s] # None /\ ~sessions[s].expired
    /\ sessions' = [sessions EXCEPT ![s].expired = TRUE]
    /\ UNCHANGED req
    /\ WritesSessions

\* pruneExpired, on its timer.
Prune ==
    /\ \E s \in Sids : sessions[s] # None /\ sessions[s].expired
    /\ sessions' = [s \in Sids |-> IF sessions[s] # None /\ sessions[s].expired
                                   THEN None ELSE sessions[s]]
    /\ UNCHANGED req
    /\ WritesSessions

Proceed(r) ==
    \/ Get(r) \/ FindById(r) \/ Drop(r) \/ Touch(r)
    \/ FindByEmail(r) \/ AuditLogin(r) \/ Regenerate(r) \/ Save(r)
    \/ Serve(r) \/ Destroy(r) \/ WritePassword(r) \/ WriteUser(r)

Next ==
    \/ \E r \in Requests :
         \/ \E route \in Routes, sid \in Sids \cup {None} : Start(r, route, sid)
         \/ Proceed(r)
         \/ Abort(r)
    \/ \E s \in Sids : Expire(s)
    \/ Prune

Spec == Init /\ [][Next]_vars

-----------------------------------------------------------------------------
(* Requirements *)

\* Every variable ranges over the rows and locals the requests can produce.
TypeOK ==
    /\ users \in [Users -> UserRows]
    /\ sessions \in [Sids -> SessionRows \cup {None}]
    /\ logins \in [Users -> Nat]
    /\ req \in [Requests -> Locals]
    /\ owner \in [Sids -> Users \cup {None}]
    /\ window \in [Requests -> SUBSET ({"active", "ready"} \cup Passwords)]

\* A session serves the person it was created for and nobody else, for as long
\* as it exists, though the browser that holds it may log in as another user
\* while requests with the old cookie are in flight.
SessionKeepsItsUser ==
    /\ \A s \in Sids : sessions[s] # None => sessions[s].user = owner[s]
    /\ \A r \in Requests :
         req[r].user # None /\ req[r].sid # None /\ req[r].pc \notin LoginPcs =>
           req[r].user = owner[req[r].sid]

\* A session that was ended by logout, login, deactivation or the timer never
\* comes back, whatever requests were under way with its cookie.
EndedStaysEnded ==
    [][\A s \in Sids : owner[s] # None /\ sessions[s] = None => sessions'[s] = None]_vars

\* A session that ran out is prolonged only by a request that had found it
\* alive; without one it stays useless until the timer removes it.
ExpiryIsFinal ==
    [][\A s \in Sids :
         sessions[s] # None /\ sessions[s].expired
         /\ (\A r \in Requests : req[r].sid = s => At(r, "get"))
         => /\ sessions'[s] = None \/ sessions'[s].expired
            /\ \A r \in Requests : req'[r].sid = s => req'[r].pc = "get"]_vars

\* Nothing is done for a request unless, while it ran, its user was active; for
\* a login or a password change the password given was in force, and for an
\* administrator the temporary password had been replaced.
ServedOnTrueGrounds ==
    \A r \in Requests :
      LET q == req[r] IN
      /\ \/ q.pc \in {"serve", "writePassword", "writeUser", "auditLogin", "regenerate", "save"}
         \/ q.pc = "destroy" /\ q.route = "logout"
         => "active" \in window[r]
      /\ q.pc \in {"writePassword", "auditLogin", "regenerate", "save"} =>
           q.password \in window[r]
      /\ q.pc = "writeUser" => "ready" \in window[r] /\ q.user \in TIUsers

\* Every session, past or present, has a LOGIN_SUCCESS row of its own.
EverySessionIsAudited ==
    \A u \in Users : Cardinality({s \in Sids : owner[s] = u}) <= logins[u]
=============================================================================
