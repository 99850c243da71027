------------------------- MODULE AccessGrantsProofs -------------------------
(***************************************************************************)
(* Proofs about the grants of access for any sets of users, systems, roles *)
(* and accesses, and any number of admin requests in flight.               *)
(***************************************************************************)
EXTENDS AccessGrants, TLAPS

USE NoneAssumption

-----------------------------------------------------------------------------
(* The inductive invariant *)

\* What a handler knows of rows that exist; these facts never stop being true.
HasRole(q)   == q.role \in Roles /\ roles[q.role] # None
RoleFits(q)  == HasRole(q) /\ roles[q.role].system = q.sys
HasAccess(q) == q.access \in Accesses /\ accesses[q.access] # None
OwnsAccess(q) ==
    /\ HasAccess(q)
    /\ q.user = accesses[q.access].user /\ q.sys = accesses[q.access].system
HasCreated(q) == q.created \in Accesses /\ accesses[q.created] # None

Knows(q) ==
    /\ q.pc \in GrantPcs => q.user \in Users /\ q.sys \in Systems /\ HasRole(q)
    /\ q.pc \in {"grantCheck", "grantCreate"} => RoleFits(q)
    /\ q.pc \in RevokePcs \cup ChangePcs => HasAccess(q)
    /\ q.pc = "revokeAudit" => accesses[q.access].revoked
    /\ q.pc \in ChangePcs \cup RolePcs => HasRole(q)
    /\ q.pc \in ChangePcs \ {"changeFind"} => OwnsAccess(q)
    /\ q.pc \in {"changeRead", "changeUpdate", "changeCreate", "changeCommit"} =>
          RoleFits(q)
    /\ q.pc = "changeAuditRevoked" => accesses[q.access].revoked
    /\ q.pc \in {"grantAudit", "changeAuditRevoked", "changeAuditGranted"} =>
          HasCreated(q)

\* What a transaction that has inserted relies on until it commits, because of
\* the locks it holds: its role is still there, no other access of its user and
\* system is active, and no other transaction has inserted one.
CommitReady(r) ==
    At(r, "changeCommit") =>
      /\ ~roles[req[r].role].deleted
      /\ ActiveFor(req[r].user, req[r].sys) \subseteq {req[r].access}
      /\ \A other \in Requests \ {r} : At(other, "changeCommit") =>
           ~(req[other].user = req[r].user /\ req[other].sys = req[r].sys)

IInv ==
    /\ TypeOK
    /\ OneActiveAccess
    /\ RoleOfItsSystem
    /\ AuditTellsTheTruth
    /\ \A r \in Requests : Knows(req[r]) /\ CommitReady(r)

LEMMA IdleKnows == Idle \in Locals /\ Knows(Idle)
BY DEF Idle, Locals, Knows, Pcs, GrantPcs, RevokePcs, ChangePcs, RolePcs

LEMMA InitIInv == Init => IInv
<1> SUFFICES ASSUME Init PROVE IInv
  OBVIOUS
<1>1. TypeOK
  <2>1. roles \in [Roles -> RoleRows \cup {None}]
    BY DEF Init, RoleRows
  <2>2. QED
    BY <2>1, IdleKnows DEF Init, TypeOK
<1>2. OneActiveAccess /\ RoleOfItsSystem /\ AuditTellsTheTruth
  BY DEF Init, OneActiveAccess, RoleOfItsSystem, AuditTellsTheTruth, IsActive
<1>3. ASSUME NEW r \in Requests PROVE Knows(req[r]) /\ CommitReady(r)
  BY IdleKnows DEF Init, CommitReady, At, Idle
<1>4. QED
  BY <1>1, <1>2, <1>3 DEF IInv

-----------------------------------------------------------------------------
(* The writes *)

\* Every write to the table of accesses revokes at most one row x, and inserts
\* at most one active row with a fresh id a.
Writes(x, a, row) ==
    /\ x # None => x \in Accesses /\ accesses[x] # None
    /\ a # None => a \in Accesses /\ accesses[a] = None /\ row \in AccessRows
                   /\ ~row.revoked
    /\ accesses' = [b \in Accesses |->
                      IF b = a THEN row
                      ELSE IF b = x THEN [accesses[b] EXCEPT !.revoked = TRUE]
                      ELSE accesses[b]]

NoRow == [user |-> None, system |-> None, role |-> None, revoked |-> TRUE]

RowOf(r) == [user |-> req[r].user, system |-> req[r].sys, role |-> req[r].role,
             revoked |-> FALSE]

\* The columns of the rows after a write, none of which is left unsaid.
AfterWrite(x, a, row) ==
    /\ accesses' \in [Accesses -> AccessRows \cup {None}]
    /\ \A b \in Accesses : accesses[b] # None =>
         /\ b # a
         /\ accesses'[b] # None
         /\ accesses'[b].user = accesses[b].user
         /\ accesses'[b].system = accesses[b].system
         /\ accesses'[b].role = accesses[b].role
         /\ accesses'[b].revoked = (accesses[b].revoked \/ b = x)
    /\ \A b \in Accesses : accesses[b] = None /\ b # a => accesses'[b] = None
    /\ a # None => accesses'[a] = row /\ row \in AccessRows /\ ~row.revoked

LEMMA WriteEffect ==
    ASSUME TypeOK, NEW x, NEW a, NEW row, Writes(x, a, row)
    PROVE  AfterWrite(x, a, row)
<1>1. ASSUME NEW b \in Accesses, accesses[b] # None
      PROVE  /\ b # a
             /\ accesses'[b] \in AccessRows
             /\ accesses'[b].user = accesses[b].user
             /\ accesses'[b].system = accesses[b].system
             /\ accesses'[b].role = accesses[b].role
             /\ accesses'[b].revoked = (accesses[b].revoked \/ b = x)
  <2>1. accesses[b] \in AccessRows
    BY <1>1 DEF TypeOK
  <2>2. b # a
    BY <1>1 DEF Writes
  <2>3. accesses'[b] = IF b = x THEN [accesses[b] EXCEPT !.revoked = TRUE]
                       ELSE accesses[b]
    BY <2>2 DEF Writes
  <2>4. CASE b = x
    BY <2>1, <2>2, <2>3, <2>4 DEF AccessRows
  <2>5. CASE b # x
    BY <2>1, <2>2, <2>3, <2>5 DEF AccessRows
  <2>6. QED
    BY <2>4, <2>5
<1>2. ASSUME NEW b \in Accesses, accesses[b] = None, b # a
      PROVE  accesses'[b] = None
  BY <1>2 DEF Writes
<1>3. a # None => accesses'[a] = row /\ row \in AccessRows /\ ~row.revoked
  BY DEF Writes
<1>4. accesses' \in [Accesses -> AccessRows \cup {None}]
  <2>1. ASSUME NEW b \in Accesses PROVE accesses'[b] \in AccessRows \cup {None}
    <3>1. CASE b = a
      <4>1. a # None
        BY <3>1
      <4>2. QED
        BY <3>1, <4>1, <1>3
    <3>2. CASE b # a
      BY <3>2, <1>1, <1>2
    <3>3. QED
      BY <3>1, <3>2
  <2>2. accesses' = [b \in Accesses |-> accesses'[b]]
    BY DEF Writes
  <2>3. QED
    BY <2>1, <2>2
<1>5. QED
  BY <1>1, <1>2, <1>3, <1>4 DEF AfterWrite

\* A deleted or created role leaves every other role, and its system, as it was.
RolesKept ==
    /\ roles' \in [Roles -> RoleRows \cup {None}]
    /\ \A role \in Roles : roles[role] # None =>
         /\ roles'[role] # None
         /\ roles'[role].system = roles[role].system

\* What one step of the system may do to the two tables, and to whom.
Effect(x, a, row) ==
    /\ AfterWrite(x, a, row)
    /\ RolesKept
    /\ \A role \in Roles : RoleExists(role) =>
         \/ RoleExists(role)'
         \/ /\ \A b \in Accesses : accesses[b] # None => accesses[b].role # role
            /\ \A r \in Requests : At(r, "changeCommit") => req[r].role # role
            /\ a = None
    /\ a # None =>
         /\ RoleExists(row.role)
         /\ roles[row.role].system = row.system
         /\ ActiveFor(row.user, row.system) \subseteq {x}
         /\ \A r \in Requests : At(r, "changeCommit") /\ At(r, "changeCommit")' =>
              ~(req[r].user = row.user /\ req[r].sys = row.system)

LEMMA NothingWritten ==
    ASSUME TypeOK, UNCHANGED accesses PROVE AfterWrite(None, None, NoRow)
<1>1. Writes(None, None, NoRow)
  BY DEF Writes, TypeOK
<1>2. QED
  BY <1>1, WriteEffect

LEMMA SameRoles == ASSUME TypeOK, UNCHANGED roles PROVE RolesKept
BY DEF TypeOK, RolesKept

LEMMA QuietEffect ==
    ASSUME IInv, UNCHANGED <<roles, accesses>> PROVE \E x, a, row : Effect(x, a, row)
<1>1. Effect(None, None, NoRow)
  BY NothingWritten, SameRoles DEF Effect, IInv, RoleExists
<1>2. QED
  BY <1>1

LEMMA GrantEffect ==
    ASSUME IInv, NEW r \in Requests, GrantCreate(r)
    PROVE  \E x, a, row : Effect(x, a, row)
<1>1. CASE UNCHANGED accesses
  BY <1>1, QuietEffect DEF GrantCreate
<1>2. CASE ~UNCHANGED accesses
  <2>1. PICK a \in Accesses :
          /\ accesses[a] = None
          /\ accesses' = [accesses EXCEPT ![a] = RowOf(r)]
          /\ req' = [req EXCEPT ![r].pc = "grantAudit", ![r].created = a]
    BY <1>2 DEF GrantCreate, RowOf
  <2>2. /\ ActiveFor(req[r].user, req[r].sys) = {}
        /\ RoleExists(req[r].role)
        /\ KeyFree(r, req[r].user, req[r].sys)
        /\ UNCHANGED roles
    BY <1>2 DEF GrantCreate, KeyTaken
  <2>3. RoleFits(req[r]) /\ req[r].user \in Users /\ req[r].sys \in Systems
        /\ req[r].role \in Roles
    BY DEF IInv, Knows, GrantCreate, At, GrantPcs, RoleFits, HasRole
  <2>4. PICK row \in AccessRows : row = RowOf(r)
    BY <2>3 DEF RowOf, AccessRows
  <2>5. /\ row.user = req[r].user /\ row.system = req[r].sys
        /\ row.role = req[r].role /\ ~row.revoked
    BY <2>4 DEF RowOf
  <2>6. Writes(None, a, row)
    BY <2>1, <2>4, <2>5 DEF Writes, IInv, TypeOK
  <2>7. AfterWrite(None, a, row) /\ RolesKept
    BY <2>2, <2>6, WriteEffect, SameRoles DEF IInv
  <2>8. ASSUME NEW other \in Requests, At(other, "changeCommit"),
               At(other, "changeCommit")'
        PROVE  ~(req[other].user = row.user /\ req[other].sys = row.system)
    <3>1. other # r
      BY <2>8 DEF GrantCreate, At
    <3>2. InTransaction(other) /\ ~At(other, "changeCreate")
      BY <2>8 DEF InTransaction, At
    <3>3. QED
      BY <2>2, <2>5, <3>1, <3>2 DEF KeyFree
  <2>9. Effect(None, a, row)
    BY <2>2, <2>3, <2>5, <2>7, <2>8 DEF Effect, RoleExists, RoleFits
  <2>10. QED
    BY <2>9
<1>3. QED
  BY <1>1, <1>2

LEMMA RevokeEffect ==
    ASSUME IInv, NEW r \in Requests, RevokeWrite(r)
    PROVE  \E x, a, row : Effect(x, a, row)
<1>1. PICK x \in Accesses : x = req[r].access /\ accesses[x] # None
  BY DEF IInv, Knows, RevokeWrite, At, RevokePcs, HasAccess
<1>2. accesses' = [accesses EXCEPT ![x].revoked = TRUE] /\ UNCHANGED roles
  BY <1>1 DEF RevokeWrite
<1>3. Writes(x, None, NoRow)
  BY <1>1, <1>2 DEF Writes, IInv, TypeOK
<1>4. AfterWrite(x, None, NoRow) /\ RolesKept
  BY <1>2, <1>3, WriteEffect, SameRoles DEF IInv
<1>5. Effect(x, None, NoRow)
  BY <1>2, <1>4 DEF Effect, RoleExists
<1>6. QED
  BY <1>5

LEMMA ChangeEffect ==
    ASSUME IInv, NEW r \in Requests, ChangeCommit(r)
    PROVE  \E x, a, row : Effect(x, a, row)
<1>1. At(r, "changeCommit") /\ Knows(req[r]) /\ CommitReady(r)
  BY DEF IInv, ChangeCommit
<1>2. PICK x \in Accesses : x = req[r].access /\ accesses[x] # None
  BY <1>1 DEF Knows, At, ChangePcs, HasAccess
<1>3. accesses[x] \in AccessRows
  BY <1>2 DEF IInv, TypeOK
<1>4. /\ req[r].user = accesses[x].user /\ req[r].sys = accesses[x].system
      /\ RoleFits(req[r]) /\ req[r].role \in Roles
  BY <1>1, <1>2 DEF Knows, At, ChangePcs, OwnsAccess, RoleFits, HasRole
<1>5. req[r].user \in Users /\ req[r].sys \in Systems
  BY <1>3, <1>4 DEF AccessRows
<1>6. PICK row \in AccessRows : row = RowOf(r)
  BY <1>4, <1>5 DEF RowOf, AccessRows
<1>7. /\ row.user = req[r].user /\ row.system = req[r].sys
      /\ row.role = req[r].role /\ ~row.revoked
  BY <1>6 DEF RowOf
<1>8. PICK a \in Accesses :
        /\ accesses[a] = None
        /\ accesses' = [accesses EXCEPT ![x].revoked = TRUE, ![a] = row]
        /\ req' = [req EXCEPT ![r].pc = "changeAuditRevoked", ![r].created = a]
  BY <1>2, <1>6 DEF ChangeCommit, RowOf
<1>9. Writes(x, a, row)
  BY <1>2, <1>7, <1>8 DEF Writes, IInv, TypeOK
<1>10. UNCHANGED roles
  BY DEF ChangeCommit
<1>11. AfterWrite(x, a, row) /\ RolesKept
  BY <1>9, <1>10, WriteEffect, SameRoles DEF IInv
<1>12. ASSUME NEW other \in Requests, At(other, "changeCommit"),
              At(other, "changeCommit")'
       PROVE  ~(req[other].user = row.user /\ req[other].sys = row.system)
  <2>1. other # r
    BY <1>8, <1>12 DEF At, IInv, TypeOK, Locals
  <2>2. QED
    BY <1>1, <1>7, <1>12, <2>1 DEF CommitReady
<1>13. RoleExists(row.role) /\ roles[row.role].system = row.system
  BY <1>1, <1>4, <1>7 DEF CommitReady, RoleExists, RoleFits, HasRole
<1>14. ActiveFor(row.user, row.system) \subseteq {x}
  BY <1>1, <1>2, <1>7 DEF CommitReady
<1>15. Effect(x, a, row)
  BY <1>10, <1>11, <1>12, <1>13, <1>14 DEF Effect, RoleExists
<1>16. QED
  BY <1>15

LEMMA RoleEffect ==
    ASSUME IInv,
           \/ \E r \in Requests : RoleDelete(r)
           \/ \E role \in Roles, s \in Systems : CreateRole(role, s)
    PROVE  \E x, a, row : Effect(x, a, row)
<1>1. UNCHANGED accesses
  BY DEF RoleDelete, CreateRole
<1>2. AfterWrite(None, None, NoRow)
  BY <1>1, NothingWritten DEF IInv
<1>3. ASSUME NEW r \in Requests, RoleDelete(r) PROVE Effect(None, None, NoRow)
  <2>1. CASE UNCHANGED roles
    BY <1>2, <2>1, SameRoles DEF Effect, IInv, RoleExists
  <2>2. CASE ~UNCHANGED roles
    <3>1. PICK role \in Roles : role = req[r].role
      BY <1>3 DEF IInv, Knows, RoleDelete, At, RolePcs, HasRole
    <3>2. /\ roles[role] # None
          /\ \A b \in Accesses : accesses[b] # None => accesses[b].role # role
          /\ \A other \in Requests : At(other, "changeCommit") => req[other].role # role
          /\ roles' = [roles EXCEPT ![role].deleted = TRUE]
      BY <1>3, <2>2, <3>1 DEF RoleDelete, RoleExists
    <3>3. roles[role] \in RoleRows
      BY <3>2 DEF IInv, TypeOK
    <3>4. roles'[role] \in RoleRows /\ roles'[role].system = roles[role].system
      BY <3>2, <3>3 DEF RoleRows, IInv, TypeOK
    <3>5. \A other \in Roles : other # role => roles'[other] = roles[other]
      BY <3>2 DEF IInv, TypeOK
    <3>6. RolesKept
      BY <3>2, <3>4, <3>5 DEF RolesKept, IInv, TypeOK
    <3>7. QED
      BY <1>2, <3>2, <3>5, <3>6 DEF Effect, RoleExists
  <2>3. QED
    BY <2>1, <2>2
<1>4. ASSUME NEW role \in Roles, NEW s \in Systems, CreateRole(role, s)
      PROVE  Effect(None, None, NoRow)
  <2>1. [system |-> s, deleted |-> FALSE] \in RoleRows
    BY DEF RoleRows
  <2>2. /\ roles[role] = None
        /\ \A other \in Roles : other # role => roles'[other] = roles[other]
    BY <1>4 DEF CreateRole, IInv, TypeOK
  <2>3. RolesKept
    BY <1>4, <2>1, <2>2 DEF RolesKept, CreateRole, IInv, TypeOK
  <2>4. QED
    BY <1>2, <2>2, <2>3 DEF Effect, RoleExists
<1>5. QED
  BY <1>3, <1>4

LEMMA StepEffect ==
    ASSUME IInv, [Next]_vars PROVE \E x, a, row : Effect(x, a, row)
<1>1. ASSUME NEW r \in Requests, Arrive(r) \/ Abort(r)
      PROVE  UNCHANGED <<roles, accesses>>
  BY <1>1 DEF Arrive, StartGrant, StartRevoke, StartChange, StartDeleteRole, Abort,
              ReadsOnly
<1>2. ASSUME NEW r \in Requests, Proceed(r)
      PROVE  \/ UNCHANGED <<roles, accesses>>
             \/ GrantCreate(r) \/ RevokeWrite(r) \/ ChangeCommit(r) \/ RoleDelete(r)
  BY <1>2 DEF Proceed, GrantLoad, GrantCheck, GrantAudit, RevokeFind, RevokeAudit,
              ChangeFind, ChangeLoadRole, ChangeRead, ChangeUpdate, ChangeCreate,
              ChangeAuditRevoked, ChangeAuditGranted, RoleFind, ReadsOnly
<1>3. QED
  BY <1>1, <1>2, QuietEffect, GrantEffect, RevokeEffect, ChangeEffect, RoleEffect
     DEF Next, vars

-----------------------------------------------------------------------------
(* What the handlers know *)

LEMMA KnowledgeKept ==
    ASSUME NEW x, NEW a, NEW row, Effect(x, a, row), NEW q \in Locals, Knows(q)
    PROVE  Knows(q)'
<1>1. HasRole(q) => HasRole(q)' /\ roles'[q.role].system = roles[q.role].system
  BY DEF Effect, RolesKept, HasRole
<1>2. HasAccess(q) => /\ HasAccess(q)'
                      /\ accesses'[q.access].user = accesses[q.access].user
                      /\ accesses'[q.access].system = accesses[q.access].system
                      /\ accesses[q.access].revoked => accesses'[q.access].revoked
  BY DEF Effect, AfterWrite, HasAccess
<1>3. HasCreated(q) => HasCreated(q)'
  BY DEF Effect, AfterWrite, HasCreated
<1>4. RoleFits(q) => RoleFits(q)'
  BY <1>1 DEF RoleFits
<1>5. OwnsAccess(q) => OwnsAccess(q)'
  BY <1>2 DEF OwnsAccess
<1>6. QED
  <2> USE DEF RevokePcs, ChangePcs
  <2>1. q.pc = "revokeAudit" => accesses'[q.access].revoked
    BY <1>2 DEF Knows
  <2>2. q.pc = "changeAuditRevoked" => accesses'[q.access].revoked
    BY <1>2 DEF Knows
  <2>3. QED
    BY <1>1, <1>2, <1>3, <1>4, <1>5, <2>1, <2>2 DEF Knows

\* A step that moves request r to the locals q.
MovesTo(r, q) == q \in Locals /\ req' = [req EXCEPT ![r] = q]

\* Each step of a handler leaves it with locals that are true afterwards.
LEMMA HandlerStep ==
    ASSUME IInv, NEW r \in Requests, Arrive(r) \/ Proceed(r) \/ Abort(r)
    PROVE  \E q : MovesTo(r, q) /\ Knows(q)'
<1> DEFINE Good == \E q : MovesTo(r, q) /\ Knows(q)'
<1>e. PICK x, a, row : Effect(x, a, row)
  <2>1. [Next]_vars
    BY DEF Next
  <2>2. QED
    BY <2>1, StepEffect
<1>i. /\ req[r] \in Locals /\ Knows(req[r]) /\ req \in [Requests -> Locals]
  BY DEF IInv, TypeOK
<1>j. ASSUME NEW q, MovesTo(r, q), Knows(q) PROVE Good
  BY <1>e, <1>j, KnowledgeKept DEF MovesTo
<1>k. ASSUME Finish(r) PROVE Good
  BY <1>j, <1>k, IdleKnows DEF Finish, MovesTo
<1> USE DEF Pcs, GrantPcs, RevokePcs, ChangePcs, RolePcs
<1>1. ASSUME NEW u \in Users, NEW s \in Systems, NEW role \in Roles,
             StartGrant(r, u, s, role)
      PROVE Good
  BY <1>1, <1>j DEF StartGrant, MovesTo, Knows, HasRole, Idle, Locals
<1>2. ASSUME NEW b \in Accesses, StartRevoke(r, b) PROVE Good
  BY <1>2, <1>j DEF StartRevoke, MovesTo, Knows, HasAccess, Idle, Locals
<1>3. ASSUME NEW b \in Accesses, NEW role \in Roles, StartChange(r, b, role) PROVE Good
  BY <1>3, <1>j DEF StartChange, MovesTo, Knows, HasAccess, HasRole, Idle, Locals
<1>4. ASSUME NEW role \in Roles, StartDeleteRole(r, role) PROVE Good
  BY <1>4, <1>j DEF StartDeleteRole, MovesTo, Knows, HasRole, Idle, Locals
<1>5. ASSUME GrantAudit(r) \/ RevokeAudit(r) \/ ChangeAuditGranted(r) \/ RoleDelete(r)
             \/ Abort(r)
      PROVE Good
  BY <1>5, <1>k DEF GrantAudit, RevokeAudit, ChangeAuditGranted, RoleDelete, Abort
\* A step that only moves on, with what it has just checked.
<1>6. ASSUME NEW pc \in Pcs, Goto(r, pc), Knows([req[r] EXCEPT !.pc = pc]) PROVE Good
  <2>1. MovesTo(r, [req[r] EXCEPT !.pc = pc])
    BY <1>6, <1>i DEF MovesTo, Goto, Locals
  <2>2. QED
    BY <1>6, <2>1, <1>j
<1>7. ASSUME GrantLoad(r) PROVE Good
  <2>1. At(r, "grantLoad")
        /\ (Finish(r) \/ (Goto(r, "grantCheck") /\ roles[req[r].role].system = req[r].sys))
    BY <1>7 DEF GrantLoad
  <2>2. CASE Finish(r)
    BY <2>2, <1>k
  <2>3. CASE Goto(r, "grantCheck") /\ roles[req[r].role].system = req[r].sys
    <3>1. Knows([req[r] EXCEPT !.pc = "grantCheck"])
      BY <2>1, <2>3, <1>i DEF At, Knows, RoleFits, HasRole, Locals
    <3>2. QED
      BY <2>3, <3>1, <1>6
  <2>4. QED
    BY <2>1, <2>2, <2>3
<1>8. ASSUME GrantCheck(r) PROVE Good
  <2>1. At(r, "grantCheck") /\ (Finish(r) \/ Goto(r, "grantCreate"))
    BY <1>8 DEF GrantCheck
  <2>2. Knows([req[r] EXCEPT !.pc = "grantCreate"])
    BY <2>1, <1>i DEF At, Knows, RoleFits, HasRole, Locals
  <2>3. QED
    BY <2>1, <2>2, <1>6, <1>k
<1>9. ASSUME GrantCreate(r) PROVE Good
  <2>1. CASE Finish(r)
    BY <2>1, <1>k
  <2>2. CASE ~Finish(r)
    <3>1. PICK b \in Accesses :
            /\ accesses' = [accesses EXCEPT ![b] = RowOf(r)]
            /\ req' = [req EXCEPT ![r].pc = "grantAudit", ![r].created = b]
      BY <1>9, <2>2 DEF GrantCreate, RowOf
    <3>2. req[r].user \in Users /\ req[r].sys \in Systems /\ req[r].role \in Roles
      BY <1>9, <1>i DEF GrantCreate, At, Knows, HasRole
    <3>3. RowOf(r) \in AccessRows
      BY <3>2 DEF RowOf, AccessRows
    <3>4. accesses'[b] # None
      BY <3>1, <3>3 DEF IInv, TypeOK
    <3>5. PICK q \in Locals : q = [req[r] EXCEPT !.pc = "grantAudit", !.created = b]
      BY <1>i DEF Locals
    <3>6. MovesTo(r, q)
      BY <3>1, <3>5, <1>i DEF MovesTo
    <3>7. q.pc = "grantAudit" /\ q.created = b
      BY <3>5, <1>i DEF Locals
    <3>8. Knows(q)'
      <4>1. HasRole(q)
        BY <1>9, <1>i, <3>5 DEF GrantCreate, At, Knows, HasRole, Locals
      <4>2. q.user = req[r].user /\ q.sys = req[r].sys
        BY <3>5, <1>i DEF Locals
      <4>3. HasRole(q)'
        BY <1>e, <4>1 DEF Effect, RolesKept, HasRole
      <4>4. HasCreated(q)'
        BY <3>4, <3>7 DEF HasCreated
      <4>5. QED
        BY <3>2, <3>7, <4>2, <4>3, <4>4 DEF Knows
    <3>9. QED
      BY <3>6, <3>8
  <2>3. QED
    BY <2>1, <2>2
<1>10. ASSUME RevokeFind(r) PROVE Good
  <2>1. At(r, "revokeFind") /\ (Finish(r) \/ Goto(r, "revokeWrite"))
    BY <1>10 DEF RevokeFind
  <2>2. Knows([req[r] EXCEPT !.pc = "revokeWrite"])
    BY <2>1, <1>i DEF At, Knows, HasAccess, Locals
  <2>3. QED
    BY <2>1, <2>2, <1>6, <1>k
<1>11. ASSUME RevokeWrite(r) PROVE Good
  <2>1. PICK b \in Accesses : b = req[r].access /\ accesses[b] # None
    BY <1>11, <1>i DEF RevokeWrite, At, Knows, HasAccess
  <2>2. accesses[b] \in AccessRows /\ accesses' = [accesses EXCEPT ![b].revoked = TRUE]
    BY <1>11, <2>1 DEF RevokeWrite, IInv, TypeOK
  <2>3. accesses'[b] = [accesses[b] EXCEPT !.revoked = TRUE]
    BY <2>2 DEF IInv, TypeOK
  <2>4. accesses'[b] \in AccessRows /\ accesses'[b].revoked
    BY <2>2, <2>3 DEF AccessRows
  <2>5. PICK q \in Locals : q = [req[r] EXCEPT !.pc = "revokeAudit"]
    BY <1>i DEF Locals
  <2>6. MovesTo(r, q)
    BY <1>11, <2>5, <1>i DEF RevokeWrite, Goto, MovesTo
  <2>7. q.pc = "revokeAudit" /\ q.access = b
    BY <2>1, <2>5, <1>i DEF Locals
  <2>8. Knows(q)'
    BY <2>4, <2>7 DEF Knows, HasAccess
  <2>9. QED
    BY <2>6, <2>8
<1>12. ASSUME ChangeFind(r) PROVE Good
  <2>1. CASE Finish(r)
    BY <2>1, <1>k
  <2>2. CASE ~Finish(r)
    <3>1. At(r, "changeFind") /\ HasAccess(req[r]) /\ HasRole(req[r])
      BY <1>12, <1>i DEF ChangeFind, At, Knows
    <3>2. accesses[req[r].access] \in AccessRows
      BY <3>1 DEF HasAccess, IInv, TypeOK
    <3>3. PICK u \in Users, s \in Systems :
            u = accesses[req[r].access].user /\ s = accesses[req[r].access].system
      BY <3>2 DEF AccessRows
    <3>4. req' = [req EXCEPT ![r].pc = "changeLoadRole", ![r].user = u, ![r].sys = s]
      BY <1>12, <2>2, <3>3 DEF ChangeFind
    <3>5. PICK q \in Locals :
            q = [req[r] EXCEPT !.pc = "changeLoadRole", !.user = u, !.sys = s]
      BY <1>i DEF Locals
    <3>6. MovesTo(r, q)
      BY <3>4, <3>5, <1>i DEF MovesTo
    <3>7. /\ q.pc = "changeLoadRole" /\ q.user = u /\ q.sys = s
          /\ q.access = req[r].access /\ q.role = req[r].role
      BY <3>5, <1>i DEF Locals
    <3>8. Knows(q)
      BY <3>1, <3>3, <3>7 DEF Knows, HasAccess, HasRole, OwnsAccess
    <3>9. QED
      BY <3>6, <3>8, <1>j
  <2>3. QED
    BY <2>1, <2>2
<1>13. ASSUME ChangeLoadRole(r) PROVE Good
  <2>1. CASE Finish(r)
    BY <2>1, <1>k
  <2>2. CASE ~Finish(r)
    <3>1. /\ At(r, "changeLoadRole") /\ Goto(r, "changeRead")
          /\ roles[req[r].role].system = req[r].sys
      BY <1>13, <2>2 DEF ChangeLoadRole
    <3>2. Knows([req[r] EXCEPT !.pc = "changeRead"])
      BY <3>1, <1>i DEF At, Knows, HasAccess, HasRole, OwnsAccess, RoleFits, Locals
    <3>3. QED
      BY <3>1, <3>2, <1>6
  <2>3. QED
    BY <2>1, <2>2
<1>14. ASSUME ChangeRead(r) \/ ChangeUpdate(r) \/ ChangeCreate(r) PROVE Good
  <2>1. CASE Finish(r)
    BY <2>1, <1>k
  <2>2. CASE ~Finish(r)
    <3>1. PICK pc \in {"changeUpdate", "changeCreate", "changeCommit"} : Goto(r, pc)
      BY <1>14, <2>2 DEF ChangeRead, ChangeUpdate, ChangeCreate
    <3>2. req[r].pc \in {"changeRead", "changeUpdate", "changeCreate"}
      BY <1>14 DEF ChangeRead, ChangeUpdate, ChangeCreate, At
    <3>3. HasAccess(req[r]) /\ HasRole(req[r]) /\ OwnsAccess(req[r]) /\ RoleFits(req[r])
      BY <3>2, <1>i DEF Knows
    <3>4. PICK q \in Locals : q = [req[r] EXCEPT !.pc = pc]
      BY <3>1, <1>i DEF Locals
    <3>5. /\ q.pc = pc /\ q.user = req[r].user /\ q.sys = req[r].sys
          /\ q.access = req[r].access /\ q.role = req[r].role
      BY <3>4, <1>i DEF Locals
    <3>6. Knows(q)
      BY <3>1, <3>3, <3>5 DEF Knows, HasAccess, HasRole, OwnsAccess, RoleFits
    <3>7. QED
      BY <3>1, <3>4, <3>6, <1>6
  <2>3. QED
    BY <2>1, <2>2
<1>15. ASSUME ChangeCommit(r) PROVE Good
  <2>1. /\ At(r, "changeCommit") /\ HasAccess(req[r]) /\ HasRole(req[r])
        /\ OwnsAccess(req[r])
    BY <1>15, <1>i DEF ChangeCommit, At, Knows
  <2>2. PICK y \in Accesses : y = req[r].access /\ accesses[y] # None
    BY <2>1 DEF HasAccess
  <2>3. accesses[y] \in AccessRows
    BY <2>2 DEF IInv, TypeOK
  <2>4. PICK b \in Accesses :
          /\ accesses[b] = None
          /\ accesses' = [accesses EXCEPT ![y].revoked = TRUE, ![b] = RowOf(r)]
          /\ req' = [req EXCEPT ![r].pc = "changeAuditRevoked", ![r].created = b]
    BY <1>15, <2>2 DEF ChangeCommit, RowOf
  <2>5. RowOf(r) \in AccessRows
    BY <2>1, <2>2, <2>3 DEF RowOf, AccessRows, OwnsAccess, HasRole
  <2>6. accesses'[b] = RowOf(r) /\ accesses'[y] = [accesses[y] EXCEPT !.revoked = TRUE]
    BY <2>2, <2>4 DEF IInv, TypeOK
  <2>7. accesses'[b] # None /\ accesses'[y] # None /\ accesses'[y].revoked
    BY <2>3, <2>5, <2>6 DEF AccessRows
  <2>8. PICK q \in Locals :
          q = [req[r] EXCEPT !.pc = "changeAuditRevoked", !.created = b]
    BY <1>i DEF Locals
  <2>9. MovesTo(r, q)
    BY <2>4, <2>8, <1>i DEF MovesTo
  <2>10. /\ q.pc = "changeAuditRevoked" /\ q.created = b /\ q.access = y
         /\ q.user = req[r].user /\ q.sys = req[r].sys /\ q.role = req[r].role
    BY <2>2, <2>8, <1>i DEF Locals
  <2>11. HasAccess(q)' /\ HasCreated(q)' /\ OwnsAccess(q)' /\ HasRole(q)'
    <3>1. HasRole(q)' /\ HasAccess(q)' /\ HasCreated(q)'
      BY <1>e, <2>1, <2>7, <2>10 DEF Effect, RolesKept, HasRole, HasAccess, HasCreated
    <3>2. accesses'[y].user = q.user /\ accesses'[y].system = q.sys
      BY <1>e, <2>1, <2>2, <2>10 DEF Effect, AfterWrite, OwnsAccess
    <3>3. QED
      BY <3>1, <3>2, <2>10 DEF OwnsAccess
  <2>12. Knows(q)'
    BY <2>7, <2>10, <2>11 DEF Knows
  <2>13. QED
    BY <2>9, <2>12
<1>16. ASSUME ChangeAuditRevoked(r) PROVE Good
  <2>1. /\ At(r, "changeAuditRevoked") /\ Goto(r, "changeAuditGranted")
    BY <1>16 DEF ChangeAuditRevoked
  <2>2. Knows([req[r] EXCEPT !.pc = "changeAuditGranted"])
    BY <2>1, <1>i DEF At, Knows, HasAccess, HasRole, HasCreated, OwnsAccess, Locals
  <2>3. QED
    BY <2>1, <2>2, <1>6
<1>17. ASSUME RoleFind(r) PROVE Good
  <2>1. At(r, "roleFind") /\ (Finish(r) \/ Goto(r, "roleDelete"))
    BY <1>17 DEF RoleFind
  <2>2. Knows([req[r] EXCEPT !.pc = "roleDelete"])
    BY <2>1, <1>i DEF At, Knows, HasRole, Locals
  <2>3. QED
    BY <2>1, <2>2, <1>6, <1>k
<1>18. QED
  BY <1>1, <1>2, <1>3, <1>4, <1>5, <1>7, <1>8, <1>9, <1>10, <1>11, <1>12, <1>13,
     <1>14, <1>15, <1>16, <1>17 DEF Arrive, Proceed

-----------------------------------------------------------------------------
(* Every step keeps the invariant *)

LEMMA OneActiveKept ==
    ASSUME IInv, NEW x, NEW a, NEW row, Effect(x, a, row) PROVE OneActiveAccess'
<1> SUFFICES ASSUME NEW b \in Accesses, NEW c \in Accesses, IsActive(b)', IsActive(c)',
                    accesses'[b].user = accesses'[c].user,
                    accesses'[b].system = accesses'[c].system
             PROVE  b = c
  BY DEF OneActiveAccess
\* An access active after the step is the new one or was active before.
<1>1. ASSUME NEW d \in Accesses, IsActive(d)', d # a
      PROVE  /\ IsActive(d) /\ d # x
             /\ accesses'[d].user = accesses[d].user
             /\ accesses'[d].system = accesses[d].system
  BY <1>1 DEF IsActive, Effect, AfterWrite
\* The new one has no rival.
<1>2. ASSUME NEW d \in Accesses, IsActive(d)', d # a, a \in Accesses, IsActive(a)',
             accesses'[d].user = accesses'[a].user,
             accesses'[d].system = accesses'[a].system
      PROVE  FALSE
  <2>1. a # None /\ accesses'[a] = row
    BY <1>2 DEF Effect, AfterWrite
  <2>2. d \in ActiveFor(row.user, row.system)
    BY <1>1, <1>2, <2>1 DEF ActiveFor
  <2>3. QED
    BY <1>1, <1>2, <2>1, <2>2 DEF Effect
<1>3. CASE b # a /\ c # a
  <2>1. IsActive(b) /\ IsActive(c) /\ accesses[b].user = accesses[c].user
        /\ accesses[b].system = accesses[c].system
    BY <1>1, <1>3
  <2>2. QED
    BY <2>1 DEF IInv, OneActiveAccess
<1>4. CASE b = a \/ c = a
  BY <1>2, <1>4
<1>5. QED
  BY <1>3, <1>4

LEMMA RoleOfItsSystemKept ==
    ASSUME IInv, NEW x, NEW a, NEW row, Effect(x, a, row) PROVE RoleOfItsSystem'
<1> SUFFICES ASSUME NEW b \in Accesses, accesses'[b] # None
             PROVE  /\ roles'[accesses'[b].role] # None
                    /\ ~roles'[accesses'[b].role].deleted
                    /\ roles'[accesses'[b].role].system = accesses'[b].system
  BY DEF RoleOfItsSystem, RoleExists
<1>1. CASE b = a
  <2>1. a # None /\ accesses'[b] = row
    BY <1>1 DEF Effect, AfterWrite
  <2>2. row.role \in Roles /\ RoleExists(row.role) /\ roles[row.role].system = row.system
    BY <2>1 DEF Effect, AfterWrite, AccessRows
  <2>3. RoleExists(row.role)' /\ roles'[row.role].system = row.system
    BY <2>1, <2>2 DEF Effect, RolesKept, RoleExists
  <2>4. QED
    BY <2>1, <2>3 DEF RoleExists
<1>2. CASE b # a
  <2>1. accesses[b] # None
    BY <1>2 DEF Effect, AfterWrite
  <2>2. PICK role \in Roles : role = accesses[b].role
    BY <2>1 DEF IInv, TypeOK, AccessRows
  <2>3. /\ accesses'[b].role = role /\ accesses'[b].system = accesses[b].system
        /\ RoleExists(role) /\ roles[role].system = accesses[b].system
    BY <2>1, <2>2 DEF Effect, AfterWrite, IInv, RoleOfItsSystem
  <2>4. RoleExists(role)' /\ roles'[role].system = roles[role].system
    BY <2>1, <2>2, <2>3 DEF Effect, RolesKept, RoleExists
  <2>5. QED
    BY <2>3, <2>4 DEF RoleExists
<1>3. QED
  BY <1>1, <1>2

LEMMA AuditKept ==
    ASSUME IInv, [Next]_vars
    PROVE  /\ audit' \in SUBSET ({"ACCESS_GRANTED", "ACCESS_REVOKED"} \X Accesses)
           /\ AuditTellsTheTruth'
<1>1. PICK x, a, row : Effect(x, a, row)
  BY StepEffect
<1>2. \A b \in Accesses : accesses[b] # None =>
        accesses'[b] # None /\ (accesses[b].revoked => accesses'[b].revoked)
  BY <1>1 DEF Effect, AfterWrite
<1>3. CASE UNCHANGED audit
  BY <1>2, <1>3 DEF IInv, TypeOK, AuditTellsTheTruth
<1>4. ASSUME NEW r \in Requests, GrantAudit(r) \/ ChangeAuditGranted(r)
      PROVE  /\ audit' \in SUBSET ({"ACCESS_GRANTED", "ACCESS_REVOKED"} \X Accesses)
             /\ AuditTellsTheTruth'
  <2>1. PICK b \in Accesses : b = req[r].created /\ accesses[b] # None
    BY <1>4 DEF IInv, Knows, GrantAudit, ChangeAuditGranted, At, HasCreated
  <2>2. audit' = audit \cup {<<"ACCESS_GRANTED", b>>} /\ accesses' = accesses
    BY <1>4, <2>1 DEF GrantAudit, ChangeAuditGranted
  <2>3. QED
    BY <2>1, <2>2 DEF IInv, TypeOK, AuditTellsTheTruth
<1>5. ASSUME NEW r \in Requests, RevokeAudit(r) \/ ChangeAuditRevoked(r)
      PROVE  /\ audit' \in SUBSET ({"ACCESS_GRANTED", "ACCESS_REVOKED"} \X Accesses)
             /\ AuditTellsTheTruth'
  <2>1. PICK b \in Accesses : b = req[r].access /\ accesses[b] # None /\ accesses[b].revoked
    BY <1>5 DEF IInv, Knows, RevokeAudit, ChangeAuditRevoked, At, HasAccess,
                RevokePcs, ChangePcs
  <2>2. audit' = audit \cup {<<"ACCESS_REVOKED", b>>} /\ accesses' = accesses
    BY <1>5, <2>1 DEF RevokeAudit, ChangeAuditRevoked
  <2>3. QED
    BY <2>1, <2>2 DEF IInv, TypeOK, AuditTellsTheTruth
<1>6. ASSUME NEW r \in Requests, Arrive(r) \/ Abort(r) PROVE UNCHANGED audit
  BY <1>6 DEF Arrive, StartGrant, StartRevoke, StartChange, StartDeleteRole, Abort,
              ReadsOnly
<1>7. ASSUME NEW r \in Requests, Proceed(r)
      PROVE  \/ UNCHANGED audit
             \/ GrantAudit(r) \/ ChangeAuditGranted(r)
             \/ RevokeAudit(r) \/ ChangeAuditRevoked(r)
  BY <1>7 DEF Proceed, GrantLoad, GrantCheck, GrantCreate, RevokeFind, RevokeWrite,
              ChangeFind, ChangeLoadRole, ChangeRead, ChangeUpdate, ChangeCreate,
              ChangeCommit, RoleFind, RoleDelete, ReadsOnly
<1>8. QED
  BY <1>3, <1>4, <1>5, <1>6, <1>7 DEF Next, CreateRole, vars

\* A transaction that has inserted stays ready to commit, whatever others do.
LEMMA WaitingCommitKept ==
    ASSUME IInv, NEW x, NEW a, NEW row, Effect(x, a, row),
           NEW r \in Requests, At(r, "changeCommit"), req'[r] = req[r]
    PROVE  /\ ~roles'[req[r].role].deleted
           /\ ActiveFor(req[r].user, req[r].sys)' \subseteq {req[r].access}
<1>1. /\ ~roles[req[r].role].deleted /\ req[r].role \in Roles
      /\ roles[req[r].role] # None
      /\ ActiveFor(req[r].user, req[r].sys) \subseteq {req[r].access}
  BY DEF IInv, CommitReady, Knows, At, ChangePcs, RolePcs, HasRole
<1>2. RoleExists(req[r].role)'
  BY <1>1 DEF Effect, RoleExists
<1>3. ASSUME NEW b \in Accesses, b \in ActiveFor(req[r].user, req[r].sys)'
      PROVE  b = req[r].access
  <2>1. /\ accesses'[b] # None /\ ~accesses'[b].revoked
        /\ accesses'[b].user = req[r].user /\ accesses'[b].system = req[r].sys
    BY <1>3 DEF ActiveFor, IsActive
  <2>2. CASE b = a
    <3>1. a # None /\ accesses'[b] = row
      BY <2>2 DEF Effect, AfterWrite
    <3>2. At(r, "changeCommit")'
      BY DEF At
    <3>3. QED
      BY <2>1, <3>1, <3>2 DEF Effect
  <2>3. CASE b # a
    <3>1. /\ accesses[b] # None /\ ~accesses[b].revoked
          /\ accesses[b].user = req[r].user /\ accesses[b].system = req[r].sys
      BY <2>1, <2>3 DEF Effect, AfterWrite
    <3>2. QED
      BY <1>1, <3>1 DEF ActiveFor, IsActive
  <2>4. QED
    BY <2>2, <2>3
<1>4. QED
  BY <1>2, <1>3 DEF RoleExists, ActiveFor

\* The only way into changeCommit is the INSERT of changeRole, which found no
\* rival access and no rival transaction.
LEMMA EnterCommit ==
    ASSUME IInv, [Next]_vars, NEW r \in Requests, At(r, "changeCommit")',
           ~At(r, "changeCommit")
    PROVE  ChangeCreate(r)
<1>1. ASSUME NEW o \in Requests, Arrive(o) \/ Proceed(o) \/ Abort(o) PROVE ChangeCreate(r)
  <2>0. req \in [Requests -> Locals]
    BY DEF IInv, TypeOK
  <2>1. \/ ChangeCreate(o)
        \/ \E q \in Locals : req' = [req EXCEPT ![o] = q] /\ q.pc # "changeCommit"
    <3> DEFINE Good == \E q \in Locals : req' = [req EXCEPT ![o] = q]
                                          /\ q.pc # "changeCommit"
    <3>1. PICK q : MovesTo(o, q) /\ Knows(q)'
      BY <1>1, HandlerStep
    <3>2. req'[o] = q /\ q \in Locals /\ req' = [req EXCEPT ![o] = q]
      BY <2>0, <3>1 DEF MovesTo
    <3>3. CASE q.pc # "changeCommit"
      BY <3>2, <3>3
    <3>4. CASE q.pc = "changeCommit"
      <4>1. req'[o].pc = "changeCommit" /\ ~Finish(o)
        BY <2>0, <3>2, <3>4 DEF Finish, Idle
      <4>2. Arrive(o) => FALSE
        BY <2>0, <4>1 DEF Arrive, StartGrant, StartRevoke, StartChange,
                          StartDeleteRole, Idle
      <4>3. ASSUME NEW pc, Goto(o, pc), pc # "changeCommit" PROVE FALSE
        BY <2>0, <4>1, <4>3 DEF Goto, Locals
      <4>4. GrantCreate(o) \/ ChangeFind(o) \/ ChangeCommit(o) => FALSE
        BY <2>0, <4>1 DEF GrantCreate, ChangeFind, ChangeCommit, Locals
      <4>5. Abort(o) => FALSE
        BY <4>1 DEF Abort
      <4>6. Proceed(o) => ChangeCreate(o)
        BY <4>1, <4>3, <4>4 DEF Proceed, GrantLoad, GrantCheck, GrantAudit, RevokeFind,
           RevokeWrite, RevokeAudit, ChangeLoadRole, ChangeRead, ChangeUpdate,
           ChangeAuditRevoked, ChangeAuditGranted, RoleFind, RoleDelete
      <4>7. QED
        BY <1>1, <4>2, <4>5, <4>6
    <3>5. QED
      BY <3>3, <3>4
  <2>2. CASE o = r
    BY <2>0, <2>1, <2>2 DEF At
  <2>3. CASE o # r
    <3>1. PICK q : MovesTo(o, q)
      BY <1>1, HandlerStep
    <3>2. QED
      BY <2>0, <2>3, <3>1 DEF MovesTo, At
  <2>4. QED
    BY <2>2, <2>3
<1>2. ASSUME NEW role \in Roles, NEW s \in Systems, CreateRole(role, s) PROVE FALSE
  BY <1>2 DEF CreateRole, At
<1>3. CASE UNCHANGED vars
  BY <1>3 DEF vars, At
<1>4. QED
  BY <1>1, <1>2, <1>3 DEF Next

LEMMA StepKeepsIInv == IInv /\ [Next]_vars => IInv'
<1> SUFFICES ASSUME IInv, [Next]_vars PROVE IInv'
  OBVIOUS
<1>1. PICK x, a, row : Effect(x, a, row)
  BY StepEffect
<1>2. req \in [Requests -> Locals] /\ \A r \in Requests : Knows(req[r]) /\ CommitReady(r)
  BY DEF IInv, TypeOK
\* At most one handler moves.
<1>3. \/ UNCHANGED req
      \/ \E o \in Requests : \E q : MovesTo(o, q) /\ Knows(q)'
  BY HandlerStep DEF Next, CreateRole, vars
<1>4. req' \in [Requests -> Locals] /\ \A r \in Requests : Knows(req[r])'
  <2>1. ASSUME NEW r \in Requests PROVE Knows(req[r])' \/ req'[r] # req[r]
    <3>1. PICK q \in Locals : q = req[r]
      BY <1>2
    <3>2. Knows(q)'
      BY <1>1, <1>2, <3>1, KnowledgeKept
    <3>3. QED
      BY <3>1, <3>2
  <2>2. CASE UNCHANGED req
    BY <1>2, <2>1, <2>2
  <2>3. CASE \E o \in Requests : \E q : MovesTo(o, q) /\ Knows(q)'
    <3>1. PICK o \in Requests : \E q : MovesTo(o, q) /\ Knows(q)'
      BY <2>3
    <3>1a. PICK q : MovesTo(o, q) /\ Knows(q)'
      BY <3>1
    <3>2. q \in Locals /\ req' = [req EXCEPT ![o] = q] /\ req'[o] = q
      BY <1>2, <3>1a DEF MovesTo
    <3>3. Knows(req[o])'
      BY <3>1a, <3>2
    <3>4. \A r \in Requests : r # o => req'[r] = req[r]
      BY <1>2, <3>2
    <3>5. QED
      BY <1>2, <2>1, <3>2, <3>3, <3>4
  <2>4. QED
    BY <1>3, <2>2, <2>3
<1>5. TypeOK'
  BY <1>1, <1>4, AuditKept DEF TypeOK, Effect, AfterWrite, RolesKept
<1>6. ASSUME NEW r \in Requests, At(r, "changeCommit")', At(r, "changeCommit")
      PROVE  req'[r] = req[r]
  <2>1. ASSUME NEW o \in Requests, o # r, NEW q, MovesTo(o, q) PROVE req'[r] = req[r]
    BY <1>2, <2>1 DEF MovesTo
  <2>2. CASE Arrive(r) \/ Proceed(r) \/ Abort(r)
    <3>1. ~Arrive(r)
      BY <1>6 DEF Arrive, StartGrant, StartRevoke, StartChange, StartDeleteRole, At
    <3>2. ~Abort(r)
      BY <1>2, <1>6 DEF Abort, Finish, Idle, At
    <3>3. ChangeCommit(r)
      BY <1>6, <2>2, <3>1, <3>2 DEF Proceed, GrantLoad, GrantCheck, GrantCreate,
         GrantAudit, RevokeFind, RevokeWrite, RevokeAudit, ChangeFind, ChangeLoadRole,
         ChangeRead, ChangeUpdate, ChangeCreate, ChangeAuditRevoked,
         ChangeAuditGranted, RoleFind, RoleDelete, At
    <3>4. FALSE
      BY <1>2, <1>6, <3>3 DEF ChangeCommit, At, Locals
    <3>5. QED
      BY <3>4
  <2>3. CASE \E o \in Requests \ {r} : Arrive(o) \/ Proceed(o) \/ Abort(o)
    BY <2>1, <2>3, HandlerStep
  <2>4. CASE UNCHANGED req
    BY <2>4
  <2>5. QED
    BY <2>2, <2>3, <2>4 DEF Next, CreateRole, vars
<1>7. ASSUME NEW r \in Requests PROVE CommitReady(r)'
  <2> SUFFICES ASSUME At(r, "changeCommit")' PROVE CommitReady(r)'
    BY DEF CommitReady
  \* r was there before, or has just inserted.
  <2>1. CASE At(r, "changeCommit")
    <3>1. req'[r] = req[r]
      BY <1>6, <2>1
    <3>2. /\ ~roles'[req[r].role].deleted
          /\ ActiveFor(req[r].user, req[r].sys)' \subseteq {req[r].access}
      BY <1>1, <2>1, <3>1, WaitingCommitKept
    <3>3. ASSUME NEW o \in Requests \ {r}, At(o, "changeCommit")'
          PROVE  ~(req'[o].user = req[r].user /\ req'[o].sys = req[r].sys)
      <4>1. CASE At(o, "changeCommit")
        BY <1>2, <1>6, <2>1, <3>3, <4>1 DEF CommitReady
      <4>2. CASE ~At(o, "changeCommit")
        <5>1. ChangeCreate(o)
          BY <3>3, <4>2, EnterCommit
        <5>2. KeyFree(o, req[o].user, req[o].sys) /\ Goto(o, "changeCommit")
          BY <1>2, <3>3, <5>1 DEF ChangeCreate, Finish, Idle, At
        <5>3. req'[o].user = req[o].user /\ req'[o].sys = req[o].sys
          BY <1>2, <5>2 DEF Goto, Locals
        <5>4. InTransaction(r) /\ ~At(r, "changeCreate")
          BY <2>1 DEF InTransaction, At
        <5>5. QED
          BY <5>2, <5>3, <5>4 DEF KeyFree
      <4>3. QED
        BY <4>1, <4>2
    <3>4. QED
      BY <3>1, <3>2, <3>3 DEF CommitReady
  <2>2. CASE ~At(r, "changeCommit")
    <3>1. ChangeCreate(r)
      BY <2>2, EnterCommit
    <3>2. /\ Goto(r, "changeCommit") /\ KeyFree(r, req[r].user, req[r].sys)
          /\ ~KeyTaken(req[r].user, req[r].sys, {req[r].access})
          /\ RoleExists(req[r].role)
          /\ UNCHANGED <<roles, accesses>>
      BY <1>2, <3>1 DEF ChangeCreate, Finish, Idle, At, ReadsOnly
    <3>3. /\ req'[r].user = req[r].user /\ req'[r].sys = req[r].sys
          /\ req'[r].role = req[r].role /\ req'[r].access = req[r].access
          /\ \A o \in Requests \ {r} : req'[o] = req[o]
      BY <1>2, <3>2 DEF Goto, Locals
    <3>4. ASSUME NEW o \in Requests \ {r}, At(o, "changeCommit")'
          PROVE  ~(req'[o].user = req[r].user /\ req'[o].sys = req[r].sys)
      <4>1. InTransaction(o) /\ ~At(o, "changeCreate")
        BY <3>3, <3>4 DEF InTransaction, At
      <4>2. QED
        BY <3>2, <3>3, <4>1 DEF KeyFree
    <3>5. ~roles'[req[r].role].deleted
      BY <3>2 DEF RoleExists
    <3>6. {b \in Accesses : /\ accesses'[b] # None /\ ~accesses'[b].revoked
                            /\ accesses'[b].user = req[r].user
                            /\ accesses'[b].system = req[r].sys} \subseteq {req[r].access}
      BY <3>2 DEF KeyTaken, ActiveFor, IsActive
    <3>7. QED
      BY <3>3, <3>4, <3>5, <3>6 DEF CommitReady, ActiveFor, IsActive
  <2>3. QED
    BY <2>1, <2>2
<1>8. QED
  BY <1>1, <1>4, <1>5, <1>7, OneActiveKept, RoleOfItsSystemKept, AuditKept DEF IInv

-----------------------------------------------------------------------------
(* The theorems *)

LEMMA Invariance == Spec => []IInv
BY InitIInv, StepKeepsIInv, PTL DEF Spec

\* Every reachable state is well typed, the copies in the handlers' locals included.
THEOREM TypeCorrectness == Spec => []TypeOK
BY Invariance, PTL DEF IInv

\* Whatever grants, revocations and role changes overlap, a user has at most one
\* active access in a system (the partial unique index behind create).
THEOREM OneActiveTheorem == Spec => []OneActiveAccess
BY Invariance, PTL DEF IInv

\* The role of an access is one of its own system: findRole's check is still true
\* when the access is written.
THEOREM RolesTheorem == Spec => []RoleOfItsSystem
BY Invariance, PTL DEF IInv

\* What the audit log says was granted, changed or revoked was (auditLogService.record).
THEOREM AuditTrailTheorem == Spec => []AuditTellsTheTruth
BY Invariance, PTL DEF IInv

\* A user who holds an access in a system is without one only after an explicit
\* revocation: no instant of a role change shows the user without access.
THEOREM ChangeIsAtomic == Spec => OnlyRevocationEndsAccess
<1>1. ASSUME IInv, [Next]_vars, NEW u \in Users, NEW s \in Systems,
             ActiveFor(u, s) # {}, ActiveFor(u, s)' = {}
      PROVE  \E r \in Requests : At(r, "revokeWrite")
                                   /\ req[r].access \in ActiveFor(u, s)
  <2>1. PICK d \in Accesses : d \in ActiveFor(u, s)
    BY <1>1 DEF ActiveFor
  <2>2. /\ accesses[d] # None /\ ~accesses[d].revoked
        /\ accesses[d].user = u /\ accesses[d].system = s
    BY <2>1 DEF ActiveFor, IsActive
  <2>3. ASSUME NEW b \in Accesses, accesses'[b] # None, ~accesses'[b].revoked,
               accesses'[b].user = u, accesses'[b].system = s
        PROVE  FALSE
    BY <1>1, <2>3 DEF ActiveFor, IsActive
  <2>4. accesses'[d] # accesses[d]
    BY <2>2, <2>3
  <2>5. ASSUME NEW r \in Requests, GrantCreate(r) PROVE FALSE
    BY <1>1, <2>2, <2>4, <2>5 DEF GrantCreate, IInv, TypeOK
  <2>6. ASSUME NEW r \in Requests, ChangeCommit(r) PROVE FALSE
    <3>1. PICK y \in Accesses : y = req[r].access /\ accesses[y] # None
      BY <1>1, <2>6 DEF IInv, Knows, ChangeCommit, At, ChangePcs, HasAccess
    <3>2. PICK b \in Accesses :
            /\ accesses[b] = None
            /\ accesses' = [accesses EXCEPT ![y].revoked = TRUE, ![b] = RowOf(r)]
      BY <2>6, <3>1 DEF ChangeCommit, RowOf
    <3>3. d = y
      BY <1>1, <2>2, <2>4, <3>2 DEF IInv, TypeOK
    <3>4. req[r].user = u /\ req[r].sys = s /\ req[r].role \in Roles
      BY <1>1, <2>2, <2>6, <3>1, <3>3 DEF IInv, Knows, ChangeCommit, At, ChangePcs,
         OwnsAccess, HasRole
    <3>5. RowOf(r) \in AccessRows /\ ~RowOf(r).revoked /\ RowOf(r).user = u
          /\ RowOf(r).system = s
      BY <3>4 DEF RowOf, AccessRows
    <3>6. accesses'[b] = RowOf(r)
      BY <1>1, <3>1, <3>2 DEF IInv, TypeOK
    <3>7. QED
      BY <2>3, <3>5, <3>6
  <2>7. ASSUME NEW r \in Requests, RevokeWrite(r)
        PROVE  At(r, "revokeWrite") /\ req[r].access = d
    <3>1. PICK y \in Accesses : y = req[r].access
      BY <1>1, <2>7 DEF IInv, Knows, RevokeWrite, At, RevokePcs, HasAccess
    <3>2. QED
      BY <1>1, <2>4, <2>7, <3>1 DEF RevokeWrite, IInv, TypeOK
  <2>8. ASSUME NEW r \in Requests, Arrive(r) \/ Abort(r) PROVE FALSE
    BY <2>4, <2>8 DEF Arrive, StartGrant, StartRevoke, StartChange, StartDeleteRole,
       Abort, ReadsOnly
  <2>9. ASSUME NEW r \in Requests, Proceed(r)
        PROVE  GrantCreate(r) \/ RevokeWrite(r) \/ ChangeCommit(r)
    BY <2>4, <2>9 DEF Proceed, GrantLoad, GrantCheck, GrantAudit, RevokeFind,
       RevokeAudit, ChangeFind, ChangeLoadRole, ChangeRead, ChangeUpdate, ChangeCreate,
       ChangeAuditRevoked, ChangeAuditGranted, RoleFind, RoleDelete, ReadsOnly
  <2>10. QED
    BY <1>1, <2>1, <2>4, <2>5, <2>6, <2>7, <2>8, <2>9 DEF Next, CreateRole, vars
<1>2. IInv /\ [Next]_vars =>
        [\A u \in Users, s \in Systems :
           ActiveFor(u, s) # {} /\ ActiveFor(u, s)' = {} =>
             \E r \in Requests : At(r, "revokeWrite")
                                   /\ req[r].access \in ActiveFor(u, s)]_vars
  BY <1>1
<1>3. QED
  BY <1>2, Invariance, PTL DEF Spec, OnlyRevocationEndsAccess

-----------------------------------------------------------------------------
(* Locks *)

\* The row lock that changeRole takes with its UPDATE is its own until the end.
OneLockPerRow ==
    \A r1, r2 \in Requests :
      r1 # r2 /\ InTransaction(r1) /\ InTransaction(r2) => req[r1].access # req[r2].access

\* The only way into the transaction's locks is its UPDATE, and a transaction
\* keeps to one access.
LEMMA TransactionStep ==
    ASSUME IInv, [Next]_vars, NEW r \in Requests, InTransaction(r)'
    PROVE  \/ InTransaction(r) /\ req'[r].access = req[r].access
           \/ /\ ChangeUpdate(r) /\ req'[r].access = req[r].access
              /\ \A o \in Requests \ {r} : req'[o] = req[o]
<1>1. req \in [Requests -> Locals] /\ \A o \in Requests : req[o] \in Locals
  BY DEF IInv, TypeOK
<1>2. ASSUME NEW o \in Requests, Arrive(o) \/ Proceed(o) \/ Abort(o), o # r
      PROVE  req'[r] = req[r]
  <2>1. PICK q : MovesTo(o, q)
    BY <1>2, HandlerStep
  <2>2. QED
    BY <1>1, <1>2, <2>1 DEF MovesTo
<1>3. ASSUME Arrive(r) \/ Finish(r) PROVE FALSE
  <2>1. req'[r] = Idle => FALSE
    BY DEF Idle, InTransaction
  <2>2. CASE Finish(r)
    BY <1>1, <2>1, <2>2 DEF Finish
  <2>3. ASSUME NEW u \in Users, NEW s \in Systems, NEW role \in Roles,
               StartGrant(r, u, s, role)
        PROVE  FALSE
    BY <1>1, <2>3 DEF StartGrant, InTransaction, Idle
  <2>4. ASSUME NEW a \in Accesses, StartRevoke(r, a) PROVE FALSE
    BY <1>1, <2>4 DEF StartRevoke, InTransaction, Idle
  <2>5. ASSUME NEW a \in Accesses, NEW role \in Roles, StartChange(r, a, role) PROVE FALSE
    BY <1>1, <2>5 DEF StartChange, InTransaction, Idle
  <2>6. ASSUME NEW role \in Roles, StartDeleteRole(r, role) PROVE FALSE
    BY <1>1, <2>6 DEF StartDeleteRole, InTransaction, Idle
  <2>7. QED
    BY <1>3, <2>2, <2>3, <2>4, <2>5, <2>6 DEF Arrive
<1>4. ASSUME NEW pc, Goto(r, pc) PROVE req'[r].pc = pc /\ req'[r].access = req[r].access
  BY <1>1, <1>4 DEF Goto, Locals
<1>5. ASSUME GrantCreate(r) \/ ChangeFind(r) \/ ChangeCommit(r) PROVE FALSE
  BY <1>1, <1>3, <1>5 DEF GrantCreate, ChangeFind, ChangeCommit, InTransaction, Locals
<1>6. ASSUME Proceed(r)
      PROVE  req'[r].access = req[r].access /\ (ChangeUpdate(r) \/ ChangeCreate(r))
  BY <1>3, <1>4, <1>5, <1>6 DEF Proceed, GrantLoad, GrantCheck, GrantAudit, RevokeFind,
     RevokeWrite, RevokeAudit, ChangeLoadRole, ChangeRead, ChangeUpdate, ChangeCreate,
     ChangeAuditRevoked, ChangeAuditGranted, RoleFind, RoleDelete, InTransaction
<1>7. ASSUME NEW o \in Requests, Arrive(o) \/ Proceed(o) \/ Abort(o)
      PROVE  \/ InTransaction(r) /\ req'[r].access = req[r].access
             \/ ChangeUpdate(r) /\ req'[r].access = req[r].access
  <2>1. CASE o # r
    BY <1>2, <1>7, <2>1 DEF InTransaction
  <2>2. CASE o = r
    BY <1>3, <1>6, <1>7, <2>2 DEF Abort, ChangeCreate, At, InTransaction
  <2>3. QED
    BY <2>1, <2>2
<1>8. ASSUME ChangeUpdate(r) PROVE \A o \in Requests \ {r} : req'[o] = req[o]
  BY <1>1, <1>8 DEF ChangeUpdate, Goto
<1>9. CASE UNCHANGED req
  BY <1>9 DEF InTransaction
<1>10. QED
  BY <1>7, <1>8, <1>9 DEF Next, CreateRole, vars

LEMMA InitLocks == Init => OneLockPerRow
BY DEF Init, OneLockPerRow, InTransaction, Idle

LEMMA StepKeepsLocks == IInv /\ OneLockPerRow /\ [Next]_vars => OneLockPerRow'
<1> SUFFICES ASSUME IInv, OneLockPerRow, [Next]_vars,
                    NEW r1 \in Requests, NEW r2 \in Requests, r1 # r2,
                    InTransaction(r1)', InTransaction(r2)'
             PROVE  req'[r1].access # req'[r2].access
  BY DEF OneLockPerRow
<1>1. ASSUME NEW r \in Requests, NEW o \in Requests, r # o, ChangeUpdate(r),
             req'[r].access = req[r].access, req'[o] = req[o], InTransaction(o)'
      PROVE  req'[r].access # req'[o].access
  <2>1. InTransaction(o) /\ RowFree(r, req[r].access)
    BY <1>1 DEF InTransaction, ChangeUpdate
  <2>2. QED
    BY <1>1, <2>1 DEF RowFree
<1>2. CASE InTransaction(r1) /\ req'[r1].access = req[r1].access
  <2>1. CASE InTransaction(r2) /\ req'[r2].access = req[r2].access
    BY <1>2, <2>1 DEF OneLockPerRow
  <2>2. CASE /\ ChangeUpdate(r2) /\ req'[r2].access = req[r2].access
             /\ \A o \in Requests \ {r2} : req'[o] = req[o]
    BY <1>1, <2>2
  <2>3. QED
    BY <2>1, <2>2, TransactionStep
<1>3. CASE /\ ChangeUpdate(r1) /\ req'[r1].access = req[r1].access
           /\ \A o \in Requests \ {r1} : req'[o] = req[o]
  BY <1>1, <1>3
<1>4. QED
  BY <1>2, <1>3, TransactionStep

\* Of the transactions that are about to insert, one whose access is active has
\* its pair to itself; if there is none, they need not wait for each other.
LEMMA SomeInsertGoes ==
    ASSUME IInv, OneLockPerRow, NEW t \in Requests, At(t, "changeCreate"),
           \A o \in Requests : ~At(o, "changeCommit")
    PROVE  \E r \in Requests : At(r, "changeCreate") /\ ~Waits(r)
<1>1. \A r \in Requests : InTransaction(r) => At(r, "changeCreate")
  BY DEF InTransaction, At
<1>2. \A r \in Requests : At(r, "changeCreate") => OwnsAccess(req[r])
  BY DEF IInv, Knows, At, ChangePcs
<1>3. ASSUME NEW r \in Requests, At(r, "changeCreate"),
             KeyFree(r, req[r].user, req[r].sys)
      PROVE  ~Waits(r)
  BY <1>3 DEF Waits, At
<1>4. CASE \E r \in Requests : At(r, "changeCreate") /\ IsActive(req[r].access)
  <2>1. PICK r \in Requests : At(r, "changeCreate") /\ IsActive(req[r].access)
    BY <1>4
  <2>2. ASSUME NEW o \in Requests \ {r}, InTransaction(o), req[o].user = req[r].user,
               req[o].sys = req[r].sys, IsActive(req[o].access)
        PROVE  FALSE
    <3>1. At(o, "changeCreate") /\ OwnsAccess(req[o]) /\ OwnsAccess(req[r])
      BY <1>1, <1>2, <2>1, <2>2
    <3>2. req[o].access = req[r].access
      BY <2>1, <2>2, <3>1 DEF IInv, OneActiveAccess, OwnsAccess, HasAccess
    <3>3. QED
      BY <2>1, <2>2, <3>2 DEF OneLockPerRow, InTransaction, At
  <2>3. KeyFree(r, req[r].user, req[r].sys)
    BY <1>1, <2>2 DEF KeyFree
  <2>4. QED
    BY <1>3, <2>1, <2>3
<1>5. CASE ~\E r \in Requests : At(r, "changeCreate") /\ IsActive(req[r].access)
  <2>1. KeyFree(t, req[t].user, req[t].sys)
    BY <1>1, <1>5 DEF KeyFree
  <2>2. QED
    BY <1>3, <2>1
<1>6. QED
  BY <1>4, <1>5

\* However many grants, revocations, role changes and role deletions are under
\* way, they never all wait for each other's locks: a transaction that has
\* inserted waits for nobody, of those that have not one can, and without a
\* transaction there is nothing to wait for.
THEOREM LocksTheorem == Spec => []SomebodyNeedNotWait
<1>1. IInv /\ OneLockPerRow => SomebodyNeedNotWait
  <2> SUFFICES ASSUME IInv, OneLockPerRow, NEW t \in Requests, ~At(t, "idle")
               PROVE  \E r \in Requests : ~At(r, "idle") /\ ~Waits(r)
    BY DEF SomebodyNeedNotWait
  <2>1. CASE \E r \in Requests : At(r, "changeCommit")
    BY <2>1 DEF Waits, At
  <2>2. CASE /\ \A r \in Requests : ~At(r, "changeCommit")
             /\ \E r \in Requests : At(r, "changeCreate")
    <3>1. PICK r \in Requests : At(r, "changeCreate") /\ ~Waits(r)
      BY <2>2, SomeInsertGoes
    <3>2. QED
      BY <3>1 DEF At
  <2>3. CASE \A r \in Requests : ~At(r, "changeCommit") /\ ~At(r, "changeCreate")
    BY <2>3 DEF Waits, RowFree, KeyFree, InTransaction, At
  <2>4. QED
    BY <2>1, <2>2, <2>3
<1>2. QED
  BY <1>1, InitLocks, StepKeepsLocks, Invariance, PTL DEF Spec
=============================================================================
