---------------------------- MODULE AccessGrants ----------------------------
(***************************************************************************)
(* Who may enter which system: the admin requests that grant, revoke and   *)
(* change a UserSystemAccess and delete a role, as                         *)
(* userSystemAccess.service.ts and role.service.ts run them.               *)
(*                                                                         *)
(* As in OAuthTokens, one action is one repository call.  Here one of them *)
(* is a transaction: changeRole reads, revokes and inserts before it       *)
(* commits.  The database runs at READ COMMITTED, the default of the       *)
(* datasource: a read sees what is committed, an UPDATE holds the lock of  *)
(* its row until commit, and an INSERT waits for an open transaction that  *)
(* may decide whether it violates an index.                                *)
(***************************************************************************)
EXTENDS Naturals, FiniteSets

CONSTANTS
    Users, Systems,
    Roles,      \* ids of roles, each drawn once
    Accesses,   \* ids of UserSystemAccess rows, each drawn once
    Requests,   \* admin requests that can be in flight at the same time
    None

GrantPcs  == {"grantLoad", "grantCheck", "grantCreate", "grantAudit"}
RevokePcs == {"revokeFind", "revokeWrite", "revokeAudit"}
ChangePcs == {"changeFind", "changeLoadRole", "changeRead", "changeUpdate",
              "changeCreate", "changeCommit", "changeAuditRevoked",
              "changeAuditGranted"}
RolePcs   == {"roleFind", "roleDelete"}
Pcs       == {"idle"} \cup GrantPcs \cup RevokePcs \cup ChangePcs \cup RolePcs

AccessRows == [user : Users, system : Systems, role : Roles, revoked : BOOLEAN]
RoleRows   == [system : Systems, deleted : BOOLEAN]
Locals     == [pc : Pcs, user : Users \cup {None}, sys : Systems \cup {None},
               role : Roles \cup {None}, access : Accesses \cup {None},
               created : Accesses \cup {None}]

ASSUME NoneAssumption ==
    None \notin Users \cup Systems \cup Roles \cup Accesses \cup AccessRows \cup RoleRows

VARIABLES
    roles,      \* table roles; a deleted row is kept to keep its id spent
    accesses,   \* table user_system_access, as committed
    audit,      \* table audit_logs: <<action, the access it is about>>
    req         \* local variables of the handler serving each request

vars == <<roles, accesses, audit, req>>

Idle == [pc |-> "idle", user |-> None, sys |-> None, role |-> None,
         access |-> None, created |-> None]

Init ==
    /\ roles \in [Roles -> {None} \cup [system : Systems, deleted : {FALSE}]]
    /\ accesses = [a \in Accesses |-> None]
    /\ audit = {}
    /\ req = [r \in Requests |-> Idle]

-----------------------------------------------------------------------------
(* Handler control flow and the rules of the database *)

At(r, pc)   == req[r].pc = pc
Goto(r, pc) == req' = [req EXCEPT ![r].pc = pc]
Finish(r)   == req' = [req EXCEPT ![r] = Idle]
ReadsOnly   == UNCHANGED <<roles, accesses, audit>>

RoleExists(role) == roles[role] # None /\ ~roles[role].deleted
IsActive(a)      == accesses[a] # None /\ ~accesses[a].revoked
ActiveFor(u, s)  == {a \in Accesses : /\ IsActive(a)
                                      /\ accesses[a].user = u
                                      /\ accesses[a].system = s}

\* Transactions that have executed the UPDATE and not yet committed.
InTransaction(r) == req[r].pc \in {"changeCreate", "changeCommit"}

\* The row lock an UPDATE of row a waits for.
RowFree(r, a) ==
    \A other \in Requests \ {r} : InTransaction(other) => req[other].access # a

\* An INSERT for <<u, s>> waits for a transaction that has inserted, or
\* revoked the active row, for the same pair.
KeyFree(r, u, s) ==
    \A other \in Requests \ {r} :
      InTransaction(other) /\ req[other].user = u /\ req[other].sys = s =>
        At(other, "changeCreate") /\ ~IsActive(req[other].access)

\* Mutant of KeyTaken: the migration that adds the partial index is missing.
KeyNeverTaken(u, s, own) == FALSE

\* The partial unique index user_system_access_active_user_system_key: one row
\* per user and system with revoked_at NULL.  `own` are the rows the inserting
\* transaction has itself revoked.
KeyTaken(u, s, own) == ActiveFor(u, s) \ own # {}

\* Bound: a handler that may insert is started only while an id is left for it.
AccessesLeft ==
    Cardinality({r \in Requests : req[r].pc \in GrantPcs \cup ChangePcs
                                    /\ req[r].created = None})
        < Cardinality({a \in Accesses : accesses[a] = None})

-----------------------------------------------------------------------------
(* POST /admin/users/:id/access: grantAccess *)

StartGrant(r, u, s, role) ==
    /\ At(r, "idle")
    /\ AccessesLeft
    /\ roles[role] # None
    /\ req' = [req EXCEPT ![r] = [Idle EXCEPT !.pc = "grantLoad", !.user = u,
                                              !.sys = s, !.role = role]]
    /\ ReadsOnly

\* Mutant of GrantLoad: a role of another system passes.
GrantLoadAnyRole(r) ==
    /\ At(r, "grantLoad")
    /\ \/ RoleExists(req[r].role) /\ Goto(r, "grantCheck")
       \/ ~RoleExists(req[r].role) /\ Finish(r)
    /\ ReadsOnly

\* Three reads in parallel; users and systems are never deleted, so only the
\* one of the role has something to tell.
GrantLoad(r) ==
    /\ At(r, "grantLoad")
    /\ LET ok == RoleExists(req[r].role) /\ roles[req[r].role].system = req[r].sys IN
         \/ ok  /\ Goto(r, "grantCheck")
         \/ ~ok /\ Finish(r)
    /\ ReadsOnly

GrantCheck(r) ==
    /\ At(r, "grantCheck")
    /\ \/ ActiveFor(req[r].user, req[r].sys) = {} /\ Goto(r, "grantCreate")
       \/ ActiveFor(req[r].user, req[r].sys) # {} /\ Finish(r)
    /\ ReadsOnly

\* The INSERT is refused by the unique index or by the foreign key to the role.
GrantCreate(r) ==
    /\ At(r, "grantCreate")
    /\ KeyFree(r, req[r].user, req[r].sys)
    /\ LET refused == \/ KeyTaken(req[r].user, req[r].sys, {})
                      \/ ~RoleExists(req[r].role) IN
         \/ refused /\ Finish(r) /\ UNCHANGED accesses
         \/ /\ ~refused
            /\ \E a \in Accesses :
                 /\ accesses[a] = None
                 /\ accesses' = [accesses EXCEPT ![a] =
                      [user |-> req[r].user, system |-> req[r].sys,
                       role |-> req[r].role, revoked |-> FALSE]]
                 /\ req' = [req EXCEPT ![r].pc = "grantAudit", ![r].created = a]
    /\ UNCHANGED <<roles, audit>>

GrantAudit(r) ==
    /\ At(r, "grantAudit")
    /\ audit' = audit \cup {<<"ACCESS_GRANTED", req[r].created>>}
    /\ Finish(r)
    /\ UNCHANGED <<roles, accesses>>

-----------------------------------------------------------------------------
(* DELETE /admin/access/:id: revokeAccess *)

\* An id reaches a client only from a row that exists; it may be revoked by now.
StartRevoke(r, a) ==
    /\ At(r, "idle")
    /\ accesses[a] # None
    /\ req' = [req EXCEPT ![r] = [Idle EXCEPT !.pc = "revokeFind", !.access = a]]
    /\ ReadsOnly

\* Mutant of RevokeFind: the audit row is written before the UPDATE.
RevokeFindAuditsFirst(r) ==
    /\ At(r, "revokeFind")
    /\ \/ IsActive(req[r].access) /\ Goto(r, "revokeAudit")
       \/ ~IsActive(req[r].access) /\ Finish(r)
    /\ ReadsOnly

RevokeFind(r) ==
    /\ At(r, "revokeFind")
    /\ \/ IsActive(req[r].access) /\ Goto(r, "revokeWrite")
       \/ ~IsActive(req[r].access) /\ Finish(r)
    /\ ReadsOnly

\* Unconditional UPDATE by id: revoked_at is not looked at again.
RevokeWrite(r) ==
    /\ At(r, "revokeWrite")
    /\ RowFree(r, req[r].access)
    /\ accesses' = [accesses EXCEPT ![req[r].access].revoked = TRUE]
    /\ Goto(r, "revokeAudit")
    /\ UNCHANGED <<roles, audit>>

RevokeAudit(r) ==
    /\ At(r, "revokeAudit")
    /\ audit' = audit \cup {<<"ACCESS_REVOKED", req[r].access>>}
    /\ Finish(r)
    /\ UNCHANGED <<roles, accesses>>

-----------------------------------------------------------------------------
(* PATCH /admin/access/:id: changeAccessRole *)

StartChange(r, a, role) ==
    /\ At(r, "idle")
    /\ AccessesLeft
    /\ accesses[a] # None
    /\ roles[role] # None
    /\ req' = [req EXCEPT ![r] = [Idle EXCEPT !.pc = "changeFind", !.access = a,
                                              !.role = role]]
    /\ ReadsOnly

\* Mutant of ChangeFind: the user of the access is not carried over.
ChangeFindNoUser(r) ==
    /\ At(r, "changeFind")
    /\ LET row == accesses[req[r].access] IN
         \/ row.revoked /\ Finish(r)
         \/ /\ ~row.revoked
            /\ req' = [req EXCEPT ![r].pc = "changeLoadRole", ![r].sys = row.system]
    /\ ReadsOnly

ChangeFind(r) ==
    /\ At(r, "changeFind")
    /\ LET row == accesses[req[r].access] IN
         \/ row.revoked /\ Finish(r)
         \/ /\ ~row.revoked
            /\ req' = [req EXCEPT ![r].pc = "changeLoadRole", ![r].user = row.user,
                                  ![r].sys = row.system]
    /\ ReadsOnly

ChangeLoadRole(r) ==
    /\ At(r, "changeLoadRole")
    /\ LET ok == RoleExists(req[r].role) /\ roles[req[r].role].system = req[r].sys IN
         \/ ok  /\ Goto(r, "changeRead")
         \/ ~ok /\ Finish(r)
    /\ ReadsOnly

\* The transaction of userSystemAccessRepository.changeRole, in four steps.
\* Its first statement is a plain SELECT, which locks nothing.
ChangeRead(r) ==
    /\ At(r, "changeRead")
    /\ \/ IsActive(req[r].access) /\ Goto(r, "changeUpdate")
       \/ ~IsActive(req[r].access) /\ Finish(r)
    /\ ReadsOnly

\* Mutant of ChangeUpdate: no transaction, the revocation shows at once.
ChangeUpdateAtOnce(r) ==
    /\ At(r, "changeUpdate")
    /\ RowFree(r, req[r].access)
    /\ accesses' = [accesses EXCEPT ![req[r].access].revoked = TRUE]
    /\ Goto(r, "changeCreate")
    /\ UNCHANGED <<roles, audit>>

ChangeUpdate(r) ==
    /\ At(r, "changeUpdate")
    /\ RowFree(r, req[r].access)
    /\ Goto(r, "changeCreate")
    /\ ReadsOnly

\* Mutant of ChangeCreate: the INSERT goes through `prisma` instead of `tx`, so
\* it waits for the transaction it belongs to.
ChangeCreateOutside(r) ==
    /\ At(r, "changeCreate")
    /\ ~IsActive(req[r].access)
    /\ KeyFree(r, req[r].user, req[r].sys)
    /\ LET refused == \/ KeyTaken(req[r].user, req[r].sys, {})
                      \/ ~RoleExists(req[r].role) IN
         \/ refused /\ Finish(r)
         \/ ~refused /\ Goto(r, "changeCommit")
    /\ ReadsOnly

\* A refused INSERT rolls the transaction back and the error leaves the handler.
ChangeCreate(r) ==
    /\ At(r, "changeCreate")
    /\ KeyFree(r, req[r].user, req[r].sys)
    /\ LET refused == \/ KeyTaken(req[r].user, req[r].sys, {req[r].access})
                      \/ ~RoleExists(req[r].role) IN
         \/ refused /\ Finish(r)
         \/ ~refused /\ Goto(r, "changeCommit")
    /\ ReadsOnly

\* COMMIT shows both writes at once.
ChangeCommit(r) ==
    /\ At(r, "changeCommit")
    /\ \E a \in Accesses :
         /\ accesses[a] = None
         /\ accesses' = [accesses EXCEPT
              ![req[r].access].revoked = TRUE,
              ![a] = [user |-> req[r].user, system |-> req[r].sys,
                      role |-> req[r].role, revoked |-> FALSE]]
         /\ req' = [req EXCEPT ![r].pc = "changeAuditRevoked", ![r].created = a]
    /\ UNCHANGED <<roles, audit>>

ChangeAuditRevoked(r) ==
    /\ At(r, "changeAuditRevoked")
    /\ audit' = audit \cup {<<"ACCESS_REVOKED", req[r].access>>}
    /\ Goto(r, "changeAuditGranted")
    /\ UNCHANGED <<roles, accesses>>

ChangeAuditGranted(r) ==
    /\ At(r, "changeAuditGranted")
    /\ audit' = audit \cup {<<"ACCESS_GRANTED", req[r].created>>}
    /\ Finish(r)
    /\ UNCHANGED <<roles, accesses>>

-----------------------------------------------------------------------------
(* The roles of a system: roleService *)

\* createRole; names are not modelled, so every new role is accepted.
CreateRole(role, s) ==
    /\ roles[role] = None
    /\ roles' = [roles EXCEPT ![role] = [system |-> s, deleted |-> FALSE]]
    /\ UNCHANGED <<accesses, audit, req>>

StartDeleteRole(r, role) ==
    /\ At(r, "idle")
    /\ roles[role] # None
    /\ req' = [req EXCEPT ![r] = [Idle EXCEPT !.pc = "roleFind", !.role = role]]
    /\ ReadsOnly

RoleFind(r) ==
    /\ At(r, "roleFind")
    /\ \/ RoleExists(req[r].role) /\ Goto(r, "roleDelete")
       \/ ~RoleExists(req[r].role) /\ Finish(r)
    /\ ReadsOnly

\* ON DELETE RESTRICT: refused while any access row names the role, revoked
\* ones included; waits for a transaction that has inserted one.
RoleDelete(r) ==
    /\ At(r, "roleDelete")
    /\ \A other \in Requests : At(other, "changeCommit") => req[other].role # req[r].role
    /\ LET used == \E a \in Accesses : accesses[a] # None
                                         /\ accesses[a].role = req[r].role IN
         \/ (used \/ ~RoleExists(req[r].role)) /\ UNCHANGED roles
         \/ /\ ~used /\ RoleExists(req[r].role)
            /\ roles' = [roles EXCEPT ![req[r].role].deleted = TRUE]
    /\ Finish(r)
    /\ UNCHANGED <<accesses, audit>>

-----------------------------------------------------------------------------

\* The pending call throws, times out or the process dies: an open transaction
\* is rolled back, everything else stays as written.
Abort(r) ==
    /\ ~At(r, "idle")
    /\ Finish(r)
    /\ ReadsOnly

Arrive(r) ==
    \/ \E u \in Users, s \in Systems, role \in Roles : StartGrant(r, u, s, role)
    \/ \E a \in Accesses : StartRevoke(r, a)
    \/ \E a \in Accesses, role \in Roles : StartChange(r, a, role)
    \/ \E role \in Roles : StartDeleteRole(r, role)

Proceed(r) ==
    \/ GrantLoad(r) \/ GrantCheck(r) \/ GrantCreate(r) \/ GrantAudit(r)
    \/ RevokeFind(r) \/ RevokeWrite(r) \/ RevokeAudit(r)
    \/ ChangeFind(r) \/ ChangeLoadRole(r) \/ ChangeRead(r) \/ ChangeUpdate(r)
    \/ ChangeCreate(r) \/ ChangeCommit(r)
    \/ ChangeAuditRevoked(r) \/ ChangeAuditGranted(r)
    \/ RoleFind(r) \/ RoleDelete(r)

Next ==
    \/ \E r \in Requests : Arrive(r) \/ Proceed(r) \/ Abort(r)
    \/ \E role \in Roles, s \in Systems : CreateRole(role, s)

Spec == Init /\ [][Next]_vars

-----------------------------------------------------------------------------
(* Requirements *)

\* Every variable ranges over the rows and locals the handlers can produce.
TypeOK ==
    /\ roles \in [Roles -> RoleRows \cup {None}]
    /\ accesses \in [Accesses -> AccessRows \cup {None}]
    /\ audit \in SUBSET ({"ACCESS_GRANTED", "ACCESS_REVOKED"} \X Accesses)
    /\ req \in [Requests -> Locals]

\* A user holds at most one active access in a system, although the check and
\* the insert of grantAccess are two calls and a role change inserts a second
\* row before it commits.
OneActiveAccess ==
    \A a, b \in Accesses :
      /\ IsActive(a) /\ IsActive(b)
      /\ accesses[a].user = accesses[b].user
      /\ accesses[a].system = accesses[b].system
      => a = b

\* Every access, revoked ones included, names a role that exists and belongs
\* to the system of the access: the history stays readable, and no token ever
\* carries a role of another system.
RoleOfItsSystem ==
    \A a \in Accesses : accesses[a] # None =>
      /\ RoleExists(accesses[a].role)
      /\ roles[accesses[a].role].system = accesses[a].system

\* The audit trail never reports a grant or a revocation that did not happen,
\* whatever is rolled back or interrupted.
AuditTellsTheTruth ==
    \A a \in Accesses :
      /\ <<"ACCESS_GRANTED", a>> \in audit => accesses[a] # None
      /\ <<"ACCESS_REVOKED", a>> \in audit => accesses[a] # None /\ accesses[a].revoked

\* A role change is atomic to everyone else: a user who holds an access loses
\* it only to an explicit revocation of that access.
OnlyRevocationEndsAccess ==
    [][\A u \in Users, s \in Systems :
         ActiveFor(u, s) # {} /\ ActiveFor(u, s)' = {} =>
           \E r \in Requests : At(r, "revokeWrite") /\ req[r].access \in ActiveFor(u, s)]_vars

\* The next statement of r has to wait for another transaction.
Waits(r) ==
    \/ /\ req[r].pc \in {"revokeWrite", "changeUpdate"}
       /\ ~RowFree(r, req[r].access)
    \/ /\ req[r].pc \in {"grantCreate", "changeCreate"}
       /\ ~KeyFree(r, req[r].user, req[r].sys)
    \/ /\ At(r, "roleDelete")
       /\ \E other \in Requests : At(other, "changeCommit") /\ req[other].role = req[r].role

SomebodyNeedNotWait ==
    (\A r \in Requests : At(r, "idle"))
      \/ \E r \in Requests : ~At(r, "idle") /\ ~Waits(r)

\* The admin requests never wait for each other in a circle, nor one of them
\* for itself: while any is under way, one need not wait, and whoever need not
\* wait can take its next step.
NoLockCycle ==
    /\ SomebodyNeedNotWait
    /\ \A r \in Requests : ~At(r, "idle") /\ ~Waits(r) => ENABLED Proceed(r)

\* changeRole answers null when the access was revoked in the meantime, says
\* its comment: what it commits replaces an access that was still active.
RoleChangeReplacesActiveAccess ==
    \A r \in Requests : At(r, "changeCommit") => IsActive(req[r].access)
=============================================================================
