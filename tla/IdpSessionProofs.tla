-------------------------- MODULE IdpSessionProofs --------------------------
(***************************************************************************)
(* Proofs about the sessions of the IdP for any sets of users, passwords   *)
(* and session ids, and any number of requests in flight.                  *)
(***************************************************************************)
EXTENDS IdpSession, FiniteSetTheorems, TLAPS

USE NoneAssumption, UsersAssumption

-----------------------------------------------------------------------------
(* The inductive invariant *)

\* Pcs of a request that has not learnt its user, of one that is about to log
\* in, and of one that found a session and works for its user.
Early   == {"idle", "get", "findByEmail"}
Logging == {"auditLogin", "regenerate", "save"}
Working == {"findById", "serve", "writePassword", "writeUser", "drop", "destroy"}

\* What a request with locals q knows of its session, whatever became of the
\* row; own is the table of owners.
Knows(q, own) ==
    /\ q.pc \in Early => q.user = None
    /\ q.pc \in Logging => q.user \in Users
    /\ q.pc \in {"get", "findByEmail", "auditLogin", "regenerate"} =>
          (q.sid # None => own[q.sid] # None)
    /\ q.pc = "save" => q.sid # None /\ own[q.sid] = None
    /\ q.pc \in Working =>
          q.user \in Users /\ q.sid # None /\ own[q.sid] = q.user
    /\ q.pc = "get" => q.route \in Routes
    /\ q.pc = "findById" => q.route \in {"me", "logout", "change", "admin"}
    /\ q.pc = "touch" =>
          /\ q.sid # None /\ own[q.sid] # None
          /\ q.user # None => own[q.sid] = q.user

SessionsOwned ==
    \A s \in Sids : sessions[s] # None =>
      owner[s] # None /\ sessions[s].user = owner[s]

\* Two logins never draw the same id.
SavesApart ==
    \A r1, r2 \in Requests :
      At(r1, "save") /\ At(r2, "save") /\ r1 # r2 => req[r1].sid # req[r2].sid

IInv ==
    /\ TypeOK
    /\ SessionsOwned
    /\ SavesApart
    /\ \A r \in Requests : Knows(req[r], owner)

LEMMA IdleKnows == Idle \in Locals /\ Knows(Idle, owner)
BY DEF Idle, Locals, Knows, Pcs, LoginPcs, Early, Logging, Working

LEMMA InitIInv == Init => IInv
<1> SUFFICES ASSUME Init PROVE IInv
  OBVIOUS
<1>1. TypeOK
  <2>1. users \in [Users -> UserRows]
    BY DEF Init
  <2>2. QED
    BY <2>1, IdleKnows DEF Init, TypeOK
<1>2. SessionsOwned /\ SavesApart
  BY DEF Init, SessionsOwned, SavesApart, At, Idle
<1>3. ASSUME NEW r \in Requests PROVE Knows(req[r], owner)
  BY IdleKnows DEF Init
<1>4. QED
  BY <1>1, <1>2, <1>3 DEF IInv

-----------------------------------------------------------------------------
(* What one request may do in a step: Move(r, q) says that its locals become *)
(* q and nobody else's change; the tables change in a few ways only.         *)

Move(r, q) == q \in Locals /\ req' = [req EXCEPT ![r] = q]

\* Sessions are ended, run out or are prolonged, but none comes into being.
SessionsShrink ==
    /\ sessions' \in [Sids -> SessionRows \cup {None}]
    /\ \A s \in Sids : sessions'[s] # None =>
         sessions[s] # None /\ sessions'[s].user = sessions[s].user

LEMMA TouchShrinks ==
    ASSUME IInv, NEW s \in Sids, sessions[s] # None, NEW e \in BOOLEAN,
           sessions' = [sessions EXCEPT ![s].expired = e]
    PROVE  SessionsShrink
<1>1. sessions[s] \in SessionRows
  BY DEF IInv, TypeOK
<1>2. sessions'[s] \in SessionRows /\ sessions'[s].user = sessions[s].user
  BY <1>1 DEF IInv, TypeOK, SessionRows
<1>3. \A t \in Sids \ {s} : sessions'[t] = sessions[t]
  BY DEF IInv, TypeOK
<1>4. QED
  BY <1>2, <1>3 DEF SessionsShrink, IInv, TypeOK

LEMMA EndShrinks ==
    ASSUME IInv, NEW gone,
           sessions' = [s \in Sids |-> IF s \in gone THEN None ELSE sessions[s]]
    PROVE  SessionsShrink
BY DEF SessionsShrink, IInv, TypeOK

LEMMA NothingShrinks == ASSUME IInv, UNCHANGED sessions PROVE SessionsShrink
BY DEF SessionsShrink, IInv, TypeOK

-----------------------------------------------------------------------------
(* The locals after a step, one lemma per group of actions *)

\* A request names the session of its cookie or the one its login draws, and
\* keeps the former only if it finds it alive.
KeepsSid(r, q) ==
    /\ q.pc \notin {"get", "save"} => q.sid \in {None, req[r].sid}
    /\ At(r, "get") /\ q.sid # None => ~sessions[q.sid].expired

\* r goes on with locals q, which know what they should, and a login that goes
\* on to save has an id of its own.
GoesOn(r, q) ==
    /\ Move(r, q)
    /\ Knows(q, owner')
    /\ KeepsSid(r, q)
    /\ q.pc = "save" => \A o \in Requests \ {r} : At(o, "save") => req[o].sid # q.sid

LEMMA FinishGoesOn ==
    ASSUME IInv, NEW r \in Requests, Finish(r) PROVE GoesOn(r, Idle)
<1>1. Knows(Idle, owner')
  BY DEF Knows, Idle, Early, Logging, Working
<1>2. QED
  BY <1>1, IdleKnows DEF GoesOn, Move, Finish, Idle, KeepsSid

LEMMA GotoGoesOn ==
    ASSUME IInv, NEW r \in Requests, NEW pc \in Pcs, Goto(r, pc), UNCHANGED owner,
           pc # "save", ~At(r, "get"), Knows([req[r] EXCEPT !.pc = pc], owner)
    PROVE  GoesOn(r, [req[r] EXCEPT !.pc = pc])
<1> DEFINE q == [req[r] EXCEPT !.pc = pc]
<1>1. req[r] \in Locals
  BY DEF IInv, TypeOK
<1>2. q \in Locals /\ q.pc = pc /\ q.sid = req[r].sid
  BY <1>1 DEF Locals
<1>3. req' = [req EXCEPT ![r] = q]
  BY DEF Goto
<1>4. Knows(q, owner')
  BY DEF Knows
<1>5. QED
  BY <1>2, <1>3, <1>4 DEF GoesOn, Move, KeepsSid

LEMMA StartGoesOn ==
    ASSUME IInv, NEW r \in Requests, NEW route \in Routes, NEW sid \in Sids \cup {None},
           Start(r, route, sid)
    PROVE  \E q : GoesOn(r, q)
<1> DEFINE q == [Idle EXCEPT !.pc = "get", !.route = route, !.sid = sid]
<1>1. /\ q \in Locals
      /\ q.pc = "get" /\ q.user = None /\ q.sid = sid
  BY DEF Locals, Idle, Pcs
<1>2. Knows(q, owner')
  BY <1>1 DEF Knows, Early, Logging, Working, Start, ReadsOnly
<1>3. req' = [req EXCEPT ![r] = q]
  BY DEF Start
<1>4. KeepsSid(r, q)
  BY <1>1 DEF KeepsSid, Start, At
<1>5. QED
  BY <1>1, <1>2, <1>3, <1>4 DEF GoesOn, Move

LEMMA GetGoesOn ==
    ASSUME IInv, NEW r \in Requests, Get(r)
    PROVE  \E q : GoesOn(r, q)
<1> DEFINE sid   == req[r].sid
           found == sid # None /\ sessions[sid] # None /\ ~sessions[sid].expired
<1>1. PICK pc \in AfterGet(req[r].route, found) :
        IF pc = "idle" THEN Finish(r)
        ELSE req' = [req EXCEPT ![r].pc = pc,
                                ![r].sid = IF found THEN sid ELSE None,
                                ![r].user = IF found /\ req[r].route # "login"
                                           THEN sessions[sid].user ELSE None]
  BY DEF Get
<1>2. CASE pc = "idle"
  BY <1>1, <1>2, FinishGoesOn
<1>3. CASE pc # "idle"
  <2> DEFINE user == IF found /\ req[r].route # "login" THEN sessions[sid].user ELSE None
             q == [req[r] EXCEPT !.pc = pc, !.sid = IF found THEN sid ELSE None,
                                 !.user = user]
  <2>1. req[r] \in Locals /\ UNCHANGED owner /\ req \in [Requests -> Locals]
    BY DEF IInv, TypeOK, Get, ReadsOnly
  <2>2. req' = [req EXCEPT ![r] = q]
    BY <1>1, <1>3, <2>1
  <2>3. found => /\ sid \in Sids /\ sessions[sid].user \in Users
                 /\ owner[sid] = sessions[sid].user
    BY <2>1 DEF IInv, TypeOK, SessionsOwned, Locals, SessionRows
  <2>4. /\ pc \in {"findByEmail", "destroy", "touch", "findById"}
        /\ pc = "findByEmail" => user = None
        /\ pc # "findByEmail" => found /\ req[r].route # "login"
        /\ pc = "findById" => req[r].route \in {"me", "logout", "change", "admin"}
    <3>1. req[r].route \in Routes \cup {None}
      BY <2>1 DEF Locals
    <3>2. req[r].route \in Routes
      BY DEF Get, At, IInv, Knows
    <3>3. QED
      BY <1>1, <1>3, <3>2 DEF AfterGet, Routes
  <2>5. /\ q \in Locals
        /\ q.pc = pc /\ q.user = user /\ q.route = req[r].route
        /\ q.sid = IF found THEN sid ELSE None
    BY <2>1, <2>3, <2>4 DEF Locals, Pcs, LoginPcs
  <2>6. Knows(q, owner')
    BY <2>1, <2>3, <2>4, <2>5 DEF Knows, Early, Logging, Working
  <2>7. KeepsSid(r, q)
    BY <2>5 DEF KeepsSid
  <2>8. QED
    BY <2>2, <2>4, <2>5, <2>6, <2>7 DEF GoesOn, Move
<1>4. QED
  BY <1>2, <1>3

LEMMA FindByIdGoesOn ==
    ASSUME IInv, NEW r \in Requests, FindById(r)
    PROVE  \E q : GoesOn(r, q)
<1>1. /\ req[r] \in Locals /\ Knows(req[r], owner) /\ req[r].pc = "findById"
      /\ req \in [Requests -> Locals] /\ UNCHANGED owner
  BY DEF IInv, TypeOK, FindById, At, ReadsOnly
<1>2. /\ req[r].route \in {"me", "logout", "change", "admin"}
      /\ req[r].user \in Users /\ req[r].sid # None /\ owner[req[r].sid] = req[r].user
  BY <1>1 DEF Knows, Working
<1>3. CASE Goto(r, "drop")
  <2> DEFINE q == [req[r] EXCEPT !.pc = "drop"]
  <2>1. q.pc = "drop" /\ q.user = req[r].user /\ q.sid = req[r].sid
    BY <1>1 DEF Locals
  <2>2. Knows(q, owner)
    BY <1>2, <2>1 DEF Knows, Early, Logging, Working
  <2>3. QED
    BY <1>1, <1>3, <2>2, GotoGoesOn DEF Pcs, At
<1>4. ASSUME NEW pc \in {"serve", "destroy", "writePassword", "touch", "writeUser"},
             NEW p \in Passwords \cup {None},
             req' = [req EXCEPT ![r].pc = pc, ![r].password = p]
      PROVE  \E q : GoesOn(r, q)
  <2> DEFINE q == [req[r] EXCEPT !.pc = pc, !.password = p]
  <2>1. req' = [req EXCEPT ![r] = q]
    BY <1>1, <1>4
  <2>2. /\ q \in Locals
        /\ q.pc = pc /\ q.user = req[r].user /\ q.sid = req[r].sid
    BY <1>1 DEF Locals, Pcs
  <2>3. Knows(q, owner')
    BY <1>1, <1>2, <2>2 DEF Knows, Early, Logging, Working
  <2>4. QED
    BY <1>1, <2>1, <2>2, <2>3 DEF GoesOn, Move, KeepsSid, At
<1>5. ASSUME NEW p \in Passwords
      PROVE  Admit(users[req[r].user], req[r].user, req[r].route, p)
               \in {"serve", "destroy", "writePassword", "touch", "writeUser"}
  BY <1>2 DEF Admit
<1>6. QED
  BY <1>3, <1>4, <1>5 DEF FindById

\* A request that has loaded a session touches it when it answers.
LEMMA RespondGoesOn ==
    ASSUME IInv, NEW r \in Requests, At(r, "findByEmail"), Respond(r), UNCHANGED owner
    PROVE  \E q : GoesOn(r, q)
<1>1. CASE req[r].sid = None
  BY <1>1, FinishGoesOn DEF Respond
<1>2. CASE req[r].sid # None
  <2> DEFINE q == [req[r] EXCEPT !.pc = "touch"]
  <2>1. req[r] \in Locals /\ Knows(req[r], owner) /\ req[r].pc = "findByEmail"
    BY DEF IInv, TypeOK, At
  <2>2. q.pc = "touch" /\ q.user = None /\ q.sid = req[r].sid
    BY <2>1 DEF Locals, Knows, Early
  <2>3. Knows(q, owner)
    BY <1>2, <2>1, <2>2 DEF Knows, Early, Logging, Working
  <2>4. QED
    BY <1>2, <2>3, GotoGoesOn DEF Pcs, Respond, At
<1>3. QED
  BY <1>1, <1>2

LEMMA FindByEmailGoesOn ==
    ASSUME IInv, NEW r \in Requests, FindByEmail(r)
    PROVE  \E q : GoesOn(r, q)
<1>1. /\ req[r] \in Locals /\ Knows(req[r], owner) /\ req[r].pc = "findByEmail"
      /\ req \in [Requests -> Locals] /\ UNCHANGED owner /\ At(r, "findByEmail")
  BY DEF IInv, TypeOK, FindByEmail, At, ReadsOnly
<1>2. ASSUME NEW u \in Users, NEW p \in Passwords,
             req' = [req EXCEPT ![r].pc = "auditLogin", ![r].user = u, ![r].password = p]
      PROVE  \E q : GoesOn(r, q)
  <2> DEFINE q == [req[r] EXCEPT !.pc = "auditLogin", !.user = u, !.password = p]
  <2>1. req' = [req EXCEPT ![r] = q]
    BY <1>1, <1>2
  <2>2. /\ q \in Locals
        /\ q.pc = "auditLogin" /\ q.user = u /\ q.sid = req[r].sid
    BY <1>1 DEF Locals, Pcs, LoginPcs
  <2>3. Knows(q, owner')
    BY <1>1, <2>2 DEF Knows, Early, Logging, Working
  <2>4. QED
    BY <1>1, <2>1, <2>2, <2>3 DEF GoesOn, Move, KeepsSid, At
<1>3. PICK u \in Users, p \in Passwords :
        \/ req' = [req EXCEPT ![r].pc = "auditLogin", ![r].user = u, ![r].password = p]
        \/ Respond(r)
  BY DEF FindByEmail
<1>4. QED
  BY <1>1, <1>2, <1>3, RespondGoesOn

LEMMA AuditLoginGoesOn ==
    ASSUME IInv, NEW r \in Requests, AuditLogin(r)
    PROVE  \E q : GoesOn(r, q)
<1> DEFINE q == [req[r] EXCEPT !.pc = "regenerate"]
<1>1. req[r] \in Locals /\ Knows(req[r], owner) /\ req[r].pc = "auditLogin"
  BY DEF IInv, TypeOK, AuditLogin, At
<1>2. q.pc = "regenerate" /\ q.user = req[r].user /\ q.sid = req[r].sid
  BY <1>1 DEF Locals
<1>3. Knows(q, owner)
  BY <1>1, <1>2 DEF Knows, Early, Logging, Working
<1>4. QED
  BY <1>3, GotoGoesOn DEF AuditLogin, Pcs, LoginPcs, At

LEMMA RegenerateGoesOn ==
    ASSUME IInv, NEW r \in Requests, Regenerate(r)
    PROVE  \E q : GoesOn(r, q)
<1>1. /\ req[r] \in Locals /\ Knows(req[r], owner) /\ req[r].pc = "regenerate"
      /\ req \in [Requests -> Locals] /\ UNCHANGED owner
  BY DEF IInv, TypeOK, Regenerate, At, WritesSessions
<1>2. PICK sid \in Sids : Fresh(sid) /\ req' = [req EXCEPT ![r].pc = "save", ![r].sid = sid]
  BY DEF Regenerate
<1> DEFINE q == [req[r] EXCEPT !.pc = "save", !.sid = sid]
<1>3. req' = [req EXCEPT ![r] = q]
  BY <1>1, <1>2
<1>4. /\ q \in Locals
      /\ q.pc = "save" /\ q.user = req[r].user /\ q.sid = sid
  BY <1>1 DEF Locals, Pcs, LoginPcs
<1>5. Knows(q, owner')
  BY <1>1, <1>2, <1>4 DEF Knows, Early, Logging, Working, Fresh
<1>6. \A o \in Requests \ {r} : At(o, "save") => req[o].sid # q.sid
  BY <1>2, <1>4 DEF Fresh
<1>7. QED
  BY <1>1, <1>3, <1>4, <1>5, <1>6 DEF GoesOn, Move, KeepsSid, At

\* A request whose user has been served answers.
LEMMA ServedGoesOn ==
    ASSUME IInv, NEW r \in Requests, req[r].pc \in {"serve", "writePassword", "writeUser"},
           Goto(r, "touch"), UNCHANGED owner
    PROVE  \E q : GoesOn(r, q)
<1> DEFINE q == [req[r] EXCEPT !.pc = "touch"]
<1>1. req[r] \in Locals /\ Knows(req[r], owner)
  BY DEF IInv, TypeOK
<1>2. q.pc = "touch" /\ q.user = req[r].user /\ q.sid = req[r].sid
  BY <1>1 DEF Locals
<1>3. Knows(q, owner)
  BY <1>1, <1>2 DEF Knows, Early, Logging, Working
<1>4. QED
  BY <1>3, GotoGoesOn DEF Pcs, At

\* A step of request r, of the clock or of the pruning timer.
RequestStep(r) ==
    \/ \E route \in Routes, sid \in Sids \cup {None} : Start(r, route, sid)
    \/ Proceed(r)
    \/ Abort(r)

TimerStep == (\E s \in Sids : Expire(s)) \/ Prune

LEMMA StepGoesOn ==
    ASSUME IInv, NEW r \in Requests, RequestStep(r)
    PROVE  \E q : GoesOn(r, q)
<1>1. CASE \E route \in Routes, sid \in Sids \cup {None} : Start(r, route, sid)
  BY <1>1, StartGoesOn
<1>2. CASE Get(r) \/ FindById(r) \/ FindByEmail(r) \/ AuditLogin(r) \/ Regenerate(r)
  BY <1>2, GetGoesOn, FindByIdGoesOn, FindByEmailGoesOn, AuditLoginGoesOn, RegenerateGoesOn
<1>3. CASE Drop(r) \/ Touch(r) \/ Save(r) \/ Destroy(r) \/ Abort(r)
  BY <1>3, FinishGoesOn DEF Drop, Touch, Save, Destroy, Abort
<1>4. CASE Serve(r) \/ WritePassword(r) \/ WriteUser(r)
  BY <1>4, ServedGoesOn DEF Serve, WritePassword, WriteUser, At, ReadsOnly, WritesUsers
<1>5. QED
  BY <1>1, <1>2, <1>3, <1>4 DEF RequestStep, Proceed

-----------------------------------------------------------------------------
(* The tables after a step *)

\* Only a login that saves brings a session into being.
LEMMA RequestShrinks ==
    ASSUME IInv, NEW r \in Requests, RequestStep(r), ~Save(r)
    PROVE  SessionsShrink /\ UNCHANGED owner
<1>1. CASE \E route \in Routes, sid \in Sids \cup {None} : Start(r, route, sid)
  BY <1>1, NothingShrinks DEF Start, ReadsOnly
<1>2. CASE \/ Get(r) \/ FindById(r) \/ FindByEmail(r) \/ AuditLogin(r)
           \/ Serve(r) \/ WritePassword(r) \/ WriteUser(r) \/ Abort(r)
  BY <1>2, NothingShrinks DEF Get, FindById, FindByEmail, AuditLogin, Serve,
     WritePassword, WriteUser, Abort, ReadsOnly, WritesUsers
<1>3. CASE Drop(r) \/ Destroy(r)
  <2>1. sessions' = [s \in Sids |-> IF s \in {req[r].sid} THEN None ELSE sessions[s]]
    BY <1>3 DEF Drop, Destroy, IInv, TypeOK
  <2>2. QED
    BY <1>3, <2>1, EndShrinks DEF Drop, Destroy, WritesSessions
<1>4. CASE Regenerate(r)
  <2>1. sessions' = [s \in Sids |-> IF s \in {req[r].sid} THEN None ELSE sessions[s]]
    BY <1>4 DEF Regenerate
  <2>2. QED
    BY <1>4, <2>1, EndShrinks DEF Regenerate, WritesSessions
<1>5. CASE Touch(r)
  <2>1. req[r].sid \in Sids
    BY <1>5 DEF Touch, At, IInv, TypeOK, Locals, Knows
  <2>2. CASE sessions[req[r].sid] = None
    BY <1>5, <2>2, NothingShrinks DEF Touch, WritesSessions
  <2>3. CASE sessions[req[r].sid] # None
    <3>1. sessions' = [sessions EXCEPT ![req[r].sid].expired = FALSE]
      BY <1>5, <2>3 DEF Touch
    <3>2. QED
      BY <1>5, <2>1, <2>3, <3>1, TouchShrinks DEF Touch, WritesSessions
  <2>4. QED
    BY <2>2, <2>3
<1>6. QED
  BY <1>1, <1>2, <1>3, <1>4, <1>5 DEF RequestStep, Proceed

LEMMA TimerShrinks ==
    ASSUME IInv, TimerStep
    PROVE  SessionsShrink /\ UNCHANGED <<owner, req>>
<1>1. ASSUME NEW s \in Sids, Expire(s) PROVE SessionsShrink
  BY <1>1, TouchShrinks DEF Expire
<1>2. CASE Prune
  <2>1. sessions' = [s \in Sids |-> IF s \in {t \in Sids : sessions[t] # None /\ sessions[t].expired}
                                    THEN None ELSE sessions[s]]
    BY <1>2 DEF Prune
  <2>2. QED
    BY <1>2, <2>1, EndShrinks DEF Prune, WritesSessions
<1>3. QED
  BY <1>1, <1>2 DEF TimerStep, Expire, Prune, WritesSessions

\* The other tables keep their columns.
LEMMA FlagKept ==
    ASSUME NEW f \in [Users -> UserRows], NEW u \in Users, NEW m \in BOOLEAN
    PROVE  [f EXCEPT ![u].mustChange = m] \in [Users -> UserRows]
BY DEF UserRows

LEMMA PasswordKept ==
    ASSUME IInv, NEW u \in Users, NEW p \in Passwords, NEW m \in BOOLEAN,
           users' = [users EXCEPT ![u].password = p, ![u].mustChange = m]
    PROVE  users' \in [Users -> UserRows]
<1> DEFINE mid == [users EXCEPT ![u].password = p]
<1>1. users \in [Users -> UserRows]
  BY DEF IInv, TypeOK
<1>2. mid \in [Users -> UserRows]
  BY <1>1 DEF UserRows
<1>3. users' = [mid EXCEPT ![u].mustChange = m]
  BY <1>1
<1>4. [mid EXCEPT ![u].mustChange = m] \in [Users -> UserRows]
  BY <1>2, FlagKept
<1>5. QED
  BY <1>3, <1>4

LEMMA ActiveKept ==
    ASSUME IInv, NEW u \in Users, NEW e \in BOOLEAN,
           users' = [users EXCEPT ![u].active = e]
    PROVE  users' \in [Users -> UserRows]
BY DEF IInv, TypeOK, UserRows

LEMMA ColumnsKept ==
    ASSUME IInv, [Next]_vars
    PROVE  users' \in [Users -> UserRows] /\ logins' \in [Users -> Nat]
<1>1. CASE UNCHANGED <<users, logins>>
  BY <1>1 DEF IInv, TypeOK
<1>2. ASSUME NEW r \in Requests, AuditLogin(r)
      PROVE  users' \in [Users -> UserRows] /\ logins' \in [Users -> Nat]
  <2>1. req[r].user \in Users
    BY <1>2 DEF AuditLogin, At, IInv, Knows, Logging
  <2>2. logins[req[r].user] + 1 \in Nat
    BY <2>1 DEF IInv, TypeOK
  <2>3. logins' \in [Users -> Nat]
    BY <1>2, <2>1, <2>2 DEF AuditLogin, IInv, TypeOK
  <2>4. QED
    BY <1>2, <2>3 DEF AuditLogin, IInv, TypeOK
<1>3. ASSUME NEW r \in Requests, WritePassword(r)
      PROVE  users' \in [Users -> UserRows] /\ logins' \in [Users -> Nat]
  <2>1. req[r].user \in Users
    BY <1>3 DEF WritePassword, At, IInv, Knows, Working
  <2>2. users' \in [Users -> UserRows]
    BY <1>3, <2>1, PasswordKept DEF WritePassword
  <2>3. QED
    BY <1>3, <2>2 DEF WritePassword, WritesUsers, IInv, TypeOK
<1>4. ASSUME NEW r \in Requests, WriteUser(r)
      PROVE  users' \in [Users -> UserRows] /\ logins' \in [Users -> Nat]
  <2>1. users' \in [Users -> UserRows]
    BY <1>4, PasswordKept, ActiveKept DEF WriteUser
  <2>2. QED
    BY <1>4, <2>1 DEF WriteUser, WritesUsers, IInv, TypeOK
<1>5. QED
  BY <1>1, <1>2, <1>3, <1>4 DEF Next, vars, Start, Proceed, Get, FindById, Drop, Touch,
     FindByEmail, Regenerate, Save, Serve, Destroy, Abort, Expire, Prune,
     ReadsOnly, WritesSessions

\* A session that is saved is new, and its user is known.
LEMMA SaveCreates ==
    ASSUME IInv, NEW r \in Requests, Save(r)
    PROVE  /\ req[r].sid \in Sids /\ req[r].user \in Users /\ owner[req[r].sid] = None
           /\ sessions' = [sessions EXCEPT ![req[r].sid] =
                             [user |-> req[r].user, expired |-> FALSE]]
           /\ owner' = [owner EXCEPT ![req[r].sid] = req[r].user]
<1>1. req[r] \in Locals /\ Knows(req[r], owner) /\ req[r].pc = "save"
  BY DEF IInv, TypeOK, Save, At
<1>2. req[r].sid \in Sids /\ req[r].user \in Users /\ owner[req[r].sid] = None
  BY <1>1 DEF Locals, Knows, Logging
<1>3. QED
  BY <1>2 DEF Save, IInv, TypeOK

\* The owner of a session is written once.
OwnersStay ==
    /\ owner' \in [Sids -> Users \cup {None}]
    /\ \A s \in Sids : owner[s] # None => owner'[s] = owner[s]

\* Sessions come into being in a login only, which owns what it saves.
LEMMA SessionsStep ==
    ASSUME IInv, [Next]_vars
    PROVE  /\ sessions' \in [Sids -> SessionRows \cup {None}]
           /\ SessionsOwned'
           /\ OwnersStay
<1>1. ASSUME SessionsShrink, UNCHANGED owner
      PROVE  sessions' \in [Sids -> SessionRows \cup {None}] /\ SessionsOwned' /\ OwnersStay
  BY <1>1 DEF SessionsShrink, SessionsOwned, OwnersStay, IInv, TypeOK
<1>2. ASSUME NEW r \in Requests, Save(r)
      PROVE  sessions' \in [Sids -> SessionRows \cup {None}] /\ SessionsOwned' /\ OwnersStay
  <2> DEFINE sid == req[r].sid
             row == [user |-> req[r].user, expired |-> FALSE]
  <2>1. /\ sid \in Sids /\ req[r].user \in Users /\ owner[sid] = None
        /\ sessions' = [sessions EXCEPT ![sid] = row]
        /\ owner' = [owner EXCEPT ![sid] = req[r].user]
    BY <1>2, SaveCreates
  <2>2. row \in SessionRows /\ row.user = req[r].user /\ req[r].user # None
    BY <2>1 DEF SessionRows
  <2>3. /\ sessions \in [Sids -> SessionRows \cup {None}]
        /\ owner \in [Sids -> Users \cup {None}]
        /\ SessionsOwned
    BY DEF IInv, TypeOK
  <2> HIDE DEF sid, row
  <2>4. sessions' \in [Sids -> SessionRows \cup {None}]
    BY <2>1, <2>2, <2>3
  <2>5. OwnersStay
    BY <2>1, <2>3 DEF OwnersStay
  <2>6. ASSUME NEW s \in Sids, sessions'[s] # None
        PROVE  owner'[s] # None /\ sessions'[s].user = owner'[s]
    <3>1. CASE s = sid
      BY <2>1, <2>2, <2>3, <3>1
    <3>2. CASE s # sid
      BY <2>1, <2>3, <2>6, <3>2 DEF SessionsOwned
    <3>3. QED
      BY <3>1, <3>2
  <2>7. QED
    BY <2>4, <2>5, <2>6 DEF SessionsOwned
<1>3. CASE UNCHANGED vars
  BY <1>1, <1>3, NothingShrinks DEF vars
<1>4. CASE TimerStep
  BY <1>1, <1>4, TimerShrinks
<1>5. ASSUME NEW r \in Requests, RequestStep(r), ~Save(r)
      PROVE  sessions' \in [Sids -> SessionRows \cup {None}] /\ SessionsOwned' /\ OwnersStay
  BY <1>1, <1>5, RequestShrinks
<1>6. QED
  BY <1>2, <1>3, <1>4, <1>5 DEF Next, RequestStep, TimerStep

\* What a request knows stays true: of all it may know, only that its session
\* is still to be saved can be taken from it.
LEMMA KnowledgeKept ==
    ASSUME IInv, OwnersStay, NEW r \in Requests,
           req[r].pc = "save" => owner'[req[r].sid] = None
    PROVE  Knows(req[r], owner')
<1>1. req[r] \in Locals /\ Knows(req[r], owner)
  BY DEF IInv, TypeOK
<1>2. req[r].sid # None => req[r].sid \in Sids
  BY <1>1 DEF Locals
<1>3. QED
  BY <1>1, <1>2 DEF Knows, OwnersStay

LEMMA LocalsStep ==
    ASSUME IInv, [Next]_vars
    PROVE  /\ req' \in [Requests -> Locals]
           /\ SavesApart'
           /\ \A r \in Requests : Knows(req'[r], owner')
<1>1. OwnersStay
  BY SessionsStep
<1>2. CASE UNCHANGED <<req, owner>>
  BY <1>2 DEF IInv, TypeOK, SavesApart, At
<1>3. ASSUME NEW r \in Requests, RequestStep(r)
      PROVE  /\ req' \in [Requests -> Locals]
             /\ SavesApart'
             /\ \A o \in Requests : Knows(req'[o], owner')
  <2>1. PICK q : GoesOn(r, q)
    BY <1>3, StepGoesOn
  <2>2. req \in [Requests -> Locals] /\ SavesApart
    BY DEF IInv, TypeOK
  <2>3. /\ req' \in [Requests -> Locals]
        /\ req'[r] = q
        /\ \A o \in Requests \ {r} : req'[o] = req[o]
    BY <2>1, <2>2 DEF GoesOn, Move
  <2>4. SavesApart'
    BY <2>1, <2>2, <2>3 DEF SavesApart, At, GoesOn
  <2>5. ASSUME NEW o \in Requests \ {r} PROVE Knows(req[o], owner')
    <3>1. ASSUME req[o].pc = "save" PROVE owner'[req[o].sid] = None
      <4>1. req[o] \in Locals /\ Knows(req[o], owner)
        BY DEF IInv, TypeOK
      <4>2. req[o].sid \in Sids /\ owner[req[o].sid] = None
        BY <3>1, <4>1 DEF Locals, Knows
      <4>3. CASE Save(r)
        <5>1. req[r].sid # req[o].sid
          BY <2>2, <3>1, <4>3 DEF SavesApart, Save, At
        <5>2. owner' = [owner EXCEPT ![req[r].sid] = req[r].user]
          BY <4>3, SaveCreates
        <5>3. owner \in [Sids -> Users \cup {None}]
          BY DEF IInv, TypeOK
        <5>4. QED
          BY <4>2, <5>1, <5>2, <5>3
      <4>4. CASE ~Save(r)
        BY <1>3, <4>2, <4>4, RequestShrinks
      <4>5. QED
        BY <4>3, <4>4
    <3>2. QED
      BY <1>1, <3>1, KnowledgeKept
  <2>6. QED
    BY <2>1, <2>3, <2>4, <2>5 DEF GoesOn
<1>4. CASE TimerStep
  BY <1>2, <1>4, TimerShrinks
<1>5. QED
  BY <1>2, <1>3, <1>4 DEF Next, RequestStep, TimerStep, vars

LEMMA NextTracks == Next => TrackWindow
BY DEF Next, Start, Proceed, Get, FindById, Drop, Touch, FindByEmail, AuditLogin,
   Regenerate, Save, Serve, Destroy, WritePassword, WriteUser, Abort, Expire, Prune,
   ReadsOnly, WritesUsers, WritesSessions

LEMMA WindowStep ==
    ASSUME IInv, [Next]_vars
    PROVE  window' \in [Requests -> SUBSET ({"active", "ready"} \cup Passwords)]
<1>1. CASE UNCHANGED vars
  BY <1>1 DEF vars, IInv, TypeOK
<1>2. CASE Next
  <2>1. TrackWindow
    BY <1>2, NextTracks
  <2>2. ASSUME NEW r \in Requests, req'[r].user # None
        PROVE  InForce(users'[req'[r].user]) \subseteq {"active", "ready"} \cup Passwords
    <3>1. users' \in [Users -> UserRows] /\ req' \in [Requests -> Locals]
      BY ColumnsKept, LocalsStep
    <3>2. req'[r].user \in Users
      BY <2>2, <3>1 DEF Locals
    <3>3. users'[req'[r].user].password \in Passwords
      BY <3>1, <3>2 DEF UserRows
    <3>4. QED
      BY <3>3 DEF InForce
  <2>3. QED
    BY <2>1, <2>2 DEF TrackWindow, IInv, TypeOK
<1>3. QED
  BY <1>1, <1>2

LEMMA StepKeepsIInv == IInv /\ [Next]_vars => IInv'
<1> SUFFICES ASSUME IInv, [Next]_vars PROVE IInv'
  OBVIOUS
<1>1. OwnersStay /\ sessions' \in [Sids -> SessionRows \cup {None}] /\ SessionsOwned'
  BY SessionsStep
<1>2. req' \in [Requests -> Locals] /\ SavesApart' /\ \A r \in Requests : Knows(req'[r], owner')
  BY LocalsStep
<1>3. TypeOK'
  BY <1>1, <1>2, ColumnsKept, WindowStep DEF TypeOK, OwnersStay
<1>4. QED
  BY <1>1, <1>2, <1>3 DEF IInv

LEMMA Invariance == Spec => []IInv
<1>1. IInv /\ [Next]_vars => IInv'
  BY StepKeepsIInv
<1>2. QED
  BY <1>1, InitIInv, PTL DEF Spec

-----------------------------------------------------------------------------
(* The theorems *)

\* The state always ranges over the rows and locals the requests can produce.
THEOREM TypeCorrectness == Spec => []TypeOK
<1>1. IInv => TypeOK
  BY DEF IInv
<1>2. QED
  BY <1>1, Invariance, PTL

\* A session, with every request that found it, serves the user whose login
\* created it.
THEOREM SessionTheorem == Spec => []SessionKeepsItsUser
<1>1. IInv => SessionKeepsItsUser
  <2> SUFFICES ASSUME IInv PROVE SessionKeepsItsUser
    OBVIOUS
  <2>1. ASSUME NEW r \in Requests, req[r].user # None, req[r].sid # None,
               req[r].pc \notin LoginPcs
        PROVE  req[r].user = owner[req[r].sid]
    <3>1. req[r] \in Locals /\ Knows(req[r], owner)
      BY DEF IInv, TypeOK
    <3>2. req[r].pc \in Pcs
      BY <3>1 DEF Locals
    <3>3. req[r].pc \in Working \cup {"touch"}
      BY <2>1, <3>1, <3>2 DEF Knows, Early, Working, Pcs, LoginPcs
    <3>4. QED
      BY <2>1, <3>1, <3>3 DEF Knows
  <2>2. QED
    BY <2>1 DEF IInv, SessionsOwned, SessionKeepsItsUser
<1>2. QED
  BY <1>1, Invariance, PTL

\* A session that was ended by logout, login, deactivation or the timer never
\* comes back: only a login brings a row into being, under an id of its own.
THEOREM EndedTheorem == Spec => EndedStaysEnded
<1> DEFINE Ended == \A s \in Sids : owner[s] # None /\ sessions[s] = None => sessions'[s] = None
<1>1. IInv /\ [Next]_vars => Ended
  <2> SUFFICES ASSUME IInv, [Next]_vars PROVE Ended
    OBVIOUS
  <2>1. ASSUME SessionsShrink PROVE Ended
    BY <2>1 DEF SessionsShrink
  <2>2. ASSUME NEW r \in Requests, Save(r) PROVE Ended
    <3>1. /\ owner[req[r].sid] = None
          /\ sessions' = [sessions EXCEPT ![req[r].sid] =
                            [user |-> req[r].user, expired |-> FALSE]]
      BY <2>2, SaveCreates
    <3>2. sessions \in [Sids -> SessionRows \cup {None}]
      BY DEF IInv, TypeOK
    <3>3. QED
      BY <3>1, <3>2
  <2>3. CASE UNCHANGED vars
    BY <2>1, <2>3, NothingShrinks DEF vars
  <2>4. CASE TimerStep
    BY <2>1, <2>4, TimerShrinks
  <2>5. ASSUME NEW r \in Requests, RequestStep(r), ~Save(r) PROVE Ended
    BY <2>1, <2>5, RequestShrinks
  <2>6. QED
    BY <2>2, <2>3, <2>4, <2>5 DEF Next, RequestStep, TimerStep
<1>2. QED
  BY <1>1, Invariance, PTL DEF Spec, EndedStaysEnded

\* What a session s that ran out may still become, if no request has found it
\* alive: nothing, or useless as it is, and no request finds it.
StaysUseless(s) ==
    /\ sessions'[s] = None \/ sessions'[s].expired
    /\ \A r \in Requests : req'[r].sid = s => req'[r].pc = "get"

\* The steps of a request that has not found s leave it useless.
LEMMA UselessStays ==
    ASSUME IInv, NEW s \in Sids, sessions[s] # None, sessions[s].expired,
           \A r \in Requests : req[r].sid = s => At(r, "get"),
           NEW r \in Requests, RequestStep(r)
    PROVE  StaysUseless(s)
<1>1. PICK q : GoesOn(r, q)
  BY StepGoesOn
<1>2. /\ req \in [Requests -> Locals] /\ sessions \in [Sids -> SessionRows \cup {None}]
      /\ req'[r] = q /\ \A o \in Requests \ {r} : req'[o] = req[o]
      /\ owner[s] # None
  BY <1>1 DEF IInv, TypeOK, SessionsOwned, GoesOn, Move
<1>3. sessions'[s] \in {None, sessions[s]}
  <2>1. CASE \E route \in Routes, sid \in Sids \cup {None} : Start(r, route, sid)
    BY <2>1 DEF Start, ReadsOnly
  <2>2. CASE \/ Get(r) \/ FindById(r) \/ FindByEmail(r) \/ AuditLogin(r)
             \/ Serve(r) \/ WritePassword(r) \/ WriteUser(r) \/ Abort(r)
    BY <2>2 DEF Get, FindById, FindByEmail, AuditLogin, Serve,
       WritePassword, WriteUser, Abort, ReadsOnly, WritesUsers
  <2>3. CASE Regenerate(r) \/ Drop(r) \/ Destroy(r) \/ Touch(r) \/ Save(r)
    <3>1. ~At(r, "get")
      BY <2>3 DEF Regenerate, Drop, Destroy, Touch, Save, At
    <3>2. req[r].sid # s
      BY <3>1
    <3>3. QED
      BY <1>2, <2>3, <3>2 DEF Regenerate, Drop, Destroy, Touch, Save
  <2>4. QED
    BY <2>1, <2>2, <2>3 DEF RequestStep, Proceed
<1>4. ASSUME q.sid = s PROVE q.pc = "get"
  <2>1. s # None
    OBVIOUS
  <2>2. CASE q.pc = "save"
    <3>1. owner'[s] = None
      BY <1>1, <1>4, <2>2 DEF GoesOn, Knows
    <3>2. CASE Save(r)
      BY <1>2, <1>4, <2>1, <2>2, <3>2 DEF Save, Finish, Idle
    <3>3. CASE ~Save(r)
      BY <1>2, <3>1, <3>3, RequestShrinks
    <3>4. QED
      BY <3>2, <3>3
  <2>3. CASE q.pc \notin {"get", "save"}
    <3>1. req[r].sid = s /\ At(r, "get")
      BY <1>1, <1>4, <2>1, <2>3 DEF GoesOn, KeepsSid
    <3>2. QED
      BY <1>1, <1>4, <2>1, <3>1 DEF GoesOn, KeepsSid
  <2>4. QED
    BY <2>2, <2>3
<1>5. QED
  BY <1>2, <1>3, <1>4 DEF StaysUseless, At

\* A session that ran out is prolonged only by a request that had found it
\* alive: touch, the only statement that prolongs one, comes after a get that
\* compares expiresAt with the clock.
THEOREM ExpiryTheorem == Spec => ExpiryIsFinal
<1> DEFINE Final ==
             \A s \in Sids :
               sessions[s] # None /\ sessions[s].expired
               /\ (\A r \in Requests : req[r].sid = s => At(r, "get"))
               => StaysUseless(s)
<1>1. IInv /\ [Next]_vars => Final
  <2> SUFFICES ASSUME IInv, [Next]_vars, NEW s \in Sids,
                      sessions[s] # None, sessions[s].expired,
                      \A r \in Requests : req[r].sid = s => At(r, "get")
               PROVE  StaysUseless(s)
    OBVIOUS
  <2>1. CASE UNCHANGED vars
    BY <2>1 DEF vars, StaysUseless, At
  <2>2. ASSUME NEW t \in Sids, Expire(t) PROVE StaysUseless(s)
    BY <2>2 DEF Expire, StaysUseless, At, IInv, TypeOK
  <2>3. CASE Prune
    BY <2>3 DEF Prune, StaysUseless, At
  <2>4. ASSUME NEW r \in Requests, RequestStep(r) PROVE StaysUseless(s)
    BY <2>4, UselessStays
  <2>5. QED
    BY <2>1, <2>2, <2>3, <2>4 DEF Next, RequestStep
<1>2. QED
  BY <1>1, Invariance, PTL DEF Spec, ExpiryIsFinal, StaysUseless

-----------------------------------------------------------------------------
(* On what grounds a request is served *)

\* What has been in force while a request with locals q ran, w, bears q out.
Grounded(q, w) ==
    /\ \/ q.pc \in {"serve", "writePassword", "writeUser", "auditLogin", "regenerate", "save"}
       \/ q.pc = "destroy" /\ q.route = "logout"
       => "active" \in w
    /\ q.pc \in {"writePassword", "auditLogin", "regenerate", "save"} => q.password \in w
    /\ q.pc = "writeUser" => "ready" \in w /\ q.user \in TIUsers

\* While a request knows its user, nothing leaves its window, and what is in
\* force after the step enters it.
LEMMA WindowGrows ==
    ASSUME Next, NEW r \in Requests, req'[r].user # None
    PROVE  /\ window[r] \subseteq window'[r]
           /\ InForce(users'[req'[r].user]) \subseteq window'[r]
BY NextTracks DEF TrackWindow

LEMMA OthersStayGrounded ==
    ASSUME IInv, Next, NEW r \in Requests, Grounded(req[r], window[r]), req'[r] = req[r]
    PROVE  Grounded(req'[r], window'[r])
<1>1. Knows(req[r], owner)
  BY DEF IInv
<1>2. CASE req[r].user = None
  BY <1>1, <1>2 DEF Knows, Working, Logging, Grounded
<1>3. CASE req[r].user # None
  BY <1>3, WindowGrows DEF Grounded
<1>4. QED
  BY <1>2, <1>3

LEMMA FindByIdGrounded ==
    ASSUME IInv, Next, NEW r \in Requests, FindById(r)
    PROVE  Grounded(req'[r], window'[r])
<1> DEFINE q == req[r]
           row == users[q.user]
<1>1. /\ req \in [Requests -> Locals] /\ UNCHANGED users
      /\ q \in Locals /\ q.user \in Users /\ q.route \in {"me", "logout", "change", "admin"}
  BY DEF IInv, TypeOK, FindById, At, ReadsOnly, Knows, Working
<1>2. CASE Goto(r, "drop")
  <2>1. req'[r].pc = "drop"
    BY <1>1, <1>2 DEF Goto, Locals
  <2>2. QED
    BY <2>1 DEF Grounded
<1>3. ASSUME row.active, NEW p \in Passwords, NEW pc,
             pc = Admit(row, q.user, q.route, p),
             req' = [req EXCEPT ![r].pc = pc,
                                ![r].password = IF q.route = "change" THEN p ELSE None]
      PROVE  Grounded(req'[r], window'[r])
  <2>1. /\ req'[r].pc = pc /\ req'[r].user = q.user /\ req'[r].route = q.route
        /\ req'[r].password = IF q.route = "change" THEN p ELSE None
    BY <1>1, <1>3 DEF Locals
  <2>2. InForce(row) \subseteq window'[r]
    BY <1>1, <2>1, WindowGrows
  <2>3. /\ "active" \in InForce(row) /\ row.password \in InForce(row)
        /\ ~row.mustChange => "ready" \in InForce(row)
    BY <1>3 DEF InForce
  <2>4. /\ pc \notin {"auditLogin", "regenerate", "save"}
        /\ pc = "writePassword" => q.route = "change" /\ row.password = p
        /\ pc = "writeUser" => ~row.mustChange /\ q.user \in TIUsers
    BY <1>1, <1>3 DEF Admit
  <2>5. QED
    BY <2>1, <2>2, <2>3, <2>4 DEF Grounded
<1>4. QED
  BY <1>2, <1>3 DEF FindById

LEMMA LoginGrounded ==
    ASSUME IInv, Next, NEW r \in Requests, Grounded(req[r], window[r]),
           FindByEmail(r) \/ AuditLogin(r) \/ Regenerate(r)
    PROVE  Grounded(req'[r], window'[r])
<1>1. req \in [Requests -> Locals] /\ req[r] \in Locals /\ Knows(req[r], owner)
  BY DEF IInv, TypeOK
<1>2. CASE FindByEmail(r)
  <2>1. PICK u \in Users, p \in Passwords :
          \/ /\ users[u].active /\ users[u].password = p
             /\ req' = [req EXCEPT ![r].pc = "auditLogin", ![r].user = u, ![r].password = p]
          \/ Respond(r)
    BY <1>2 DEF FindByEmail
  <2>2. CASE Respond(r)
    <3>1. req'[r].pc \in {"idle", "touch"}
      BY <1>1, <2>2 DEF Respond, Finish, Goto, Idle, Locals
    <3>2. QED
      BY <3>1 DEF Grounded
  <2>3. CASE /\ users[u].active /\ users[u].password = p
             /\ req' = [req EXCEPT ![r].pc = "auditLogin", ![r].user = u, ![r].password = p]
    <3>1. req'[r].pc = "auditLogin" /\ req'[r].user = u /\ req'[r].password = p
      BY <1>1, <2>3 DEF Locals
    <3>2. InForce(users[u]) \subseteq window'[r]
      BY <1>2, <3>1, WindowGrows DEF FindByEmail, ReadsOnly
    <3>3. {"active", p} \subseteq window'[r]
      BY <2>3, <3>2 DEF InForce
    <3>4. QED
      BY <3>1, <3>3 DEF Grounded
  <2>4. QED
    BY <2>1, <2>2, <2>3
<1>3. CASE AuditLogin(r) \/ Regenerate(r)
  <2>1. req[r].pc \in {"auditLogin", "regenerate"} /\ req[r].user \in Users
    BY <1>1, <1>3 DEF AuditLogin, Regenerate, At, Knows, Logging
  <2>2. PICK pc \in {"regenerate", "save"}, sid \in Sids \cup {None} :
          req' = [req EXCEPT ![r].pc = pc, ![r].sid = sid]
    <3>1. CASE AuditLogin(r)
      <4>1. req' = [req EXCEPT ![r].pc = "regenerate"]
        BY <3>1 DEF AuditLogin, Goto
      <4>2. req' = [req EXCEPT ![r].pc = "regenerate", ![r].sid = req[r].sid]
        BY <1>1, <4>1 DEF Locals
      <4>3. req[r].sid \in Sids \cup {None}
        BY <1>1 DEF Locals
      <4>4. QED
        BY <4>2, <4>3
    <3>2. CASE Regenerate(r)
      BY <3>2 DEF Regenerate
    <3>3. QED
      BY <1>3, <3>1, <3>2
  <2>3. /\ req'[r].pc = pc /\ req'[r].user = req[r].user
        /\ req'[r].password = req[r].password
    BY <1>1, <2>2 DEF Locals
  <2>4. {"active", req[r].password} \subseteq window'[r]
    BY <2>1, <2>3, WindowGrows DEF Grounded
  <2>5. QED
    BY <2>2, <2>3, <2>4 DEF Grounded
<1>4. QED
  BY <1>2, <1>3

\* The other steps of a request take it to a pc where it needs no grounds.
LEMMA RestNeedsNone ==
    ASSUME IInv, NEW r \in Requests, RequestStep(r),
           ~(FindById(r) \/ FindByEmail(r) \/ AuditLogin(r) \/ Regenerate(r))
    PROVE  \/ req'[r].pc \in {"idle", "get", "findById", "findByEmail", "drop", "touch"}
           \/ req'[r].pc = "destroy" /\ req'[r].route = "end"
<1>1. req \in [Requests -> Locals] /\ req[r] \in Locals
  BY DEF IInv, TypeOK
<1>2. CASE \E route \in Routes, sid \in Sids \cup {None} : Start(r, route, sid)
  BY <1>1, <1>2 DEF Start, Idle
<1>3. CASE Drop(r) \/ Touch(r) \/ Save(r) \/ Destroy(r) \/ Abort(r)
  BY <1>1, <1>3 DEF Drop, Touch, Save, Destroy, Abort, Finish, Idle
<1>4. CASE Serve(r) \/ WritePassword(r) \/ WriteUser(r)
  <2>1. Goto(r, "touch")
    BY <1>4 DEF Serve, WritePassword, WriteUser
  <2>2. QED
    BY <1>1, <2>1 DEF Goto, Locals
<1>5. CASE Get(r)
  <2> DEFINE sid   == req[r].sid
             found == sid # None /\ sessions[sid] # None /\ ~sessions[sid].expired
  <2>1. PICK pc \in AfterGet(req[r].route, found) :
          IF pc = "idle" THEN Finish(r)
          ELSE req' = [req EXCEPT ![r].pc = pc,
                                  ![r].sid = IF found THEN sid ELSE None,
                                  ![r].user = IF found /\ req[r].route # "login"
                                             THEN sessions[sid].user ELSE None]
    BY <1>5 DEF Get
  <2>2. CASE pc = "idle"
    BY <1>1, <2>1, <2>2 DEF Finish, Idle
  <2>3. CASE pc # "idle"
    <3>1. req'[r].pc = pc /\ req'[r].route = req[r].route
      BY <1>1, <2>1, <2>3 DEF Locals
    <3>2. /\ pc \in {"idle", "findById", "findByEmail", "destroy", "touch"}
          /\ pc = "destroy" => req[r].route = "end"
      <4>1. req[r].route \in Routes
        BY <1>5 DEF Get, At, IInv, Knows
      <4>2. QED
        BY <2>1, <4>1 DEF AfterGet, Routes
    <3>3. QED
      BY <3>1, <3>2
  <2>4. QED
    BY <2>2, <2>3
<1>6. QED
  BY <1>2, <1>3, <1>4, <1>5 DEF RequestStep, Proceed

\* A request acts only on what was in force while it ran: an active user, the
\* password given, and for an administrator a replaced temporary password.
THEOREM GroundsTheorem == Spec => []ServedOnTrueGrounds
<1> DEFINE J == \A r \in Requests : Grounded(req[r], window[r])
<1>1. Init => J
  BY DEF Init, Idle, Grounded
<1>2. IInv /\ J /\ [Next]_vars => J'
  <2> SUFFICES ASSUME IInv, J, [Next]_vars, NEW r \in Requests
               PROVE  Grounded(req'[r], window'[r])
    OBVIOUS
  <2>1. CASE UNCHANGED vars
    BY <2>1 DEF vars
  <2>2. CASE Next /\ req'[r] = req[r]
    BY <2>2, OthersStayGrounded
  <2>3. CASE Next /\ req'[r] # req[r]
    <3>1. ~TimerStep
      BY <2>3, TimerShrinks
    <3>2. PICK o \in Requests : RequestStep(o)
      BY <2>3, <3>1 DEF Next, RequestStep, TimerStep
    <3>3. o = r
      <4>1. PICK q : GoesOn(o, q)
        BY <3>2, StepGoesOn
      <4>2. req \in [Requests -> Locals]
        BY DEF IInv, TypeOK
      <4>3. QED
        BY <2>3, <4>1, <4>2 DEF GoesOn, Move
    <3>4. QED
      BY <2>3, <3>2, <3>3, FindByIdGrounded, LoginGrounded, RestNeedsNone DEF Grounded
  <2>4. QED
    BY <2>1, <2>2, <2>3
<1>3. J => ServedOnTrueGrounds
  BY DEF ServedOnTrueGrounds, Grounded
<1>4. QED
  BY <1>1, <1>2, <1>3, Invariance, PTL DEF Spec

-----------------------------------------------------------------------------
(* Sessions and the audit rows of their logins *)

\* The sessions user u ever had, and the logins of u that are recorded and have
\* not saved theirs yet.
Had(u)     == {s \in Sids : owner[s] = u}
Pending(u) == {r \in Requests : req[r].user = u /\ req[r].pc \in {"regenerate", "save"}}
Counted(u) == Cardinality(Had(u)) + Cardinality(Pending(u)) <= logins[u]

LEMMA CountsAreNumbers ==
    ASSUME NEW u
    PROVE  /\ IsFiniteSet(Had(u)) /\ Cardinality(Had(u)) \in Nat
           /\ IsFiniteSet(Pending(u)) /\ Cardinality(Pending(u)) \in Nat
<1>1. Had(u) \subseteq Sids /\ Pending(u) \subseteq Requests
  BY DEF Had, Pending
<1>2. QED
  BY <1>1, FiniteAssumption, FS_Subset, FS_CardinalityType

\* A login gets to its save by its audit row only.
LEMMA PendingShrinks ==
    ASSUME IInv, NEW r \in Requests, RequestStep(r), ~AuditLogin(r), NEW u \in Users
    PROVE  Pending(u)' \subseteq Pending(u)
<1>1. PICK q : GoesOn(r, q)
  BY StepGoesOn
<1>2. /\ req \in [Requests -> Locals] /\ req[r] \in Locals
      /\ \A o \in Requests \ {r} : req'[o] = req[o]
  BY <1>1 DEF IInv, TypeOK, GoesOn, Move
<1>3. SUFFICES ASSUME req'[r].user = u, req'[r].pc \in {"regenerate", "save"}
               PROVE  req[r].user = u /\ req[r].pc \in {"regenerate", "save"}
  BY <1>2 DEF Pending
<1>4. CASE Regenerate(r)
  <2>1. req[r].pc = "regenerate" /\ req'[r].user = req[r].user
    BY <1>2, <1>4 DEF Regenerate, At, Locals
  <2>2. QED
    BY <1>3, <2>1
<1>5. CASE FindByEmail(r)
  <2>1. req'[r].pc \in {"idle", "touch", "auditLogin"}
    BY <1>2, <1>5 DEF FindByEmail, Respond, Finish, Goto, Idle, Locals
  <2>2. QED
    BY <1>3, <2>1
<1>6. CASE FindById(r)
  <2>1. req[r].route \in {"me", "logout", "change", "admin"}
    BY <1>6 DEF FindById, At, IInv, Knows
  <2>2. CASE Goto(r, "drop")
    BY <1>2, <1>3, <2>2 DEF Goto, Locals
  <2>3. ASSUME NEW p \in Passwords, NEW pc,
               pc = Admit(users[req[r].user], req[r].user, req[r].route, p),
               req' = [req EXCEPT ![r].pc = pc,
                                  ![r].password = IF req[r].route = "change" THEN p ELSE None]
        PROVE  FALSE
    <3>1. pc \notin {"regenerate", "save"}
      BY <2>1, <2>3 DEF Admit
    <3>2. req'[r].pc = pc
      BY <1>2, <2>3 DEF Locals
    <3>3. QED
      BY <1>3, <3>1, <3>2
  <2>4. QED
    BY <1>6, <2>2, <2>3 DEF FindById
<1>7. QED
  BY <1>3, <1>4, <1>5, <1>6, RestNeedsNone

\* AuditLogin counts for the session to come, Save makes it one of the user's.
LEMMA StepCounts ==
    ASSUME IInv, NEW u \in Users, Counted(u), [Next]_vars
    PROVE  Counted(u)'
<1>1. /\ req \in [Requests -> Locals] /\ owner \in [Sids -> Users \cup {None}]
      /\ logins \in [Users -> Nat] /\ logins[u] \in Nat
  BY DEF IInv, TypeOK
<1>2. ASSUME Had(u)' = Had(u), Pending(u)' \subseteq Pending(u), logins'[u] = logins[u]
      PROVE  Counted(u)'
  <2>1. Cardinality(Pending(u)') <= Cardinality(Pending(u)) /\ Cardinality(Pending(u)') \in Nat
    BY <1>2, CountsAreNumbers, FS_Subset, FS_CardinalityType
  <2>2. QED
    BY <1>1, <1>2, <2>1, CountsAreNumbers DEF Counted
<1>3. CASE UNCHANGED <<req, owner, logins>>
  BY <1>2, <1>3 DEF Had, Pending
<1>4. ASSUME NEW r \in Requests, AuditLogin(r) PROVE Counted(u)'
  <2>1. /\ req[r].pc = "auditLogin" /\ req[r].user \in Users /\ UNCHANGED owner
        /\ req' = [req EXCEPT ![r].pc = "regenerate"]
        /\ logins' = [logins EXCEPT ![req[r].user] = @ + 1]
    BY <1>4 DEF AuditLogin, At, Goto, IInv, Knows, Logging
  <2>2. Had(u)' = Had(u)
    BY <2>1 DEF Had
  <2>3. /\ req'[r].pc = "regenerate" /\ req'[r].user = req[r].user
        /\ \A o \in Requests \ {r} : req'[o] = req[o]
    BY <1>1, <2>1 DEF Locals
  <2>4. CASE req[r].user = u
    <3>1. r \notin Pending(u) /\ Pending(u)' = Pending(u) \cup {r}
      BY <2>1, <2>3, <2>4 DEF Pending
    <3>2. Cardinality(Pending(u)') = Cardinality(Pending(u)) + 1
      BY <3>1, CountsAreNumbers, FS_AddElement
    <3>3. logins'[u] = logins[u] + 1
      BY <1>1, <2>1, <2>4
    <3>4. QED
      BY <1>1, <2>2, <3>2, <3>3, CountsAreNumbers DEF Counted
  <2>5. CASE req[r].user # u
    BY <1>1, <1>2, <2>1, <2>2, <2>3, <2>5 DEF Pending
  <2>6. QED
    BY <2>4, <2>5
<1>5. ASSUME NEW r \in Requests, Save(r) PROVE Counted(u)'
  <2>1. /\ req[r].sid \in Sids /\ req[r].user \in Users /\ owner[req[r].sid] = None
        /\ owner' = [owner EXCEPT ![req[r].sid] = req[r].user]
        /\ req[r].pc = "save" /\ UNCHANGED logins
    BY <1>5, SaveCreates DEF Save, At
  <2>2. /\ req'[r] = Idle /\ \A o \in Requests \ {r} : req'[o] = req[o]
    BY <1>1, <1>5 DEF Save, Finish
  <2>3. CASE req[r].user = u
    <3>1. req[r].sid \notin Had(u) /\ Had(u)' = Had(u) \cup {req[r].sid}
      BY <1>1, <2>1, <2>3 DEF Had
    <3>2. r \in Pending(u) /\ Pending(u)' = Pending(u) \ {r}
      BY <2>1, <2>2, <2>3 DEF Pending, Idle
    <3>3. Cardinality(Had(u)') = Cardinality(Had(u)) + 1
      BY <3>1, CountsAreNumbers, FS_AddElement
    <3>4. Cardinality(Pending(u)') = Cardinality(Pending(u)) - 1
      BY <3>2, CountsAreNumbers, FS_RemoveElement
    <3>5. QED
      BY <1>1, <2>1, <3>3, <3>4, CountsAreNumbers DEF Counted
  <2>4. CASE req[r].user # u
    <3>1. Had(u)' = Had(u)
      BY <1>1, <2>1, <2>4 DEF Had
    <3>2. Pending(u)' \subseteq Pending(u)
      BY <2>2 DEF Pending, Idle
    <3>3. QED
      BY <1>2, <2>1, <3>1, <3>2
  <2>5. QED
    BY <2>3, <2>4
<1>6. ASSUME NEW r \in Requests, RequestStep(r), ~AuditLogin(r), ~Save(r)
      PROVE  Counted(u)'
  <2>1. UNCHANGED owner
    BY <1>6, RequestShrinks
  <2>2. UNCHANGED logins
    BY <1>6 DEF RequestStep, Proceed, Start, Get, FindById, Drop, Touch, FindByEmail,
       Regenerate, Serve, Destroy, WritePassword, WriteUser, Abort,
       ReadsOnly, WritesUsers, WritesSessions
  <2>3. QED
    BY <1>2, <1>6, <2>1, <2>2, PendingShrinks DEF Had
<1>7. CASE TimerStep
  <2>1. UNCHANGED <<owner, req>>
    BY <1>7, TimerShrinks
  <2>2. UNCHANGED logins
    BY <1>7 DEF TimerStep, Expire, Prune, WritesSessions
  <2>3. QED
    BY <1>3, <2>1, <2>2
<1>8. QED
  BY <1>3, <1>4, <1>5, <1>6, <1>7 DEF Next, RequestStep, TimerStep, vars

\* No session without a LOGIN_SUCCESS row of its own, however many logins
\* overlap and wherever they die.
THEOREM LoginAuditTheorem == Spec => []EverySessionIsAudited
<1> DEFINE J == \A u \in Users : Counted(u)
<1>1. Init => J
  <2> SUFFICES ASSUME Init, NEW u \in Users PROVE Counted(u)
    OBVIOUS
  <2>1. Had(u) = {} /\ Pending(u) = {} /\ logins[u] = 0
    BY DEF Init, Had, Pending, Idle
  <2>2. Cardinality({}) = 0
    BY FS_EmptySet
  <2>3. QED
    BY <2>1, <2>2 DEF Counted
<1>2. IInv /\ J /\ [Next]_vars => J'
  BY StepCounts
<1>3. IInv /\ J => EverySessionIsAudited
  <2> SUFFICES ASSUME IInv, NEW u \in Users, Counted(u)
               PROVE  Cardinality({s \in Sids : owner[s] = u}) <= logins[u]
    BY DEF EverySessionIsAudited
  <2>1. logins[u] \in Nat
    BY DEF IInv, TypeOK
  <2>2. QED
    BY <2>1, CountsAreNumbers DEF Counted, Had
<1>4. QED
  BY <1>1, <1>2, <1>3, Invariance, PTL DEF Spec
=============================================================================
