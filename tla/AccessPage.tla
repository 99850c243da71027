----------------------------- MODULE AccessPage -----------------------------
(***************************************************************************)
(* The page Acessos of the panel: a user is selected, the active accesses  *)
(* are listed, granted, changed and revoked.  An access is known by its    *)
(* number in the table, in the order of the inserts; the handlers of       *)
(* userSystemAccess.service.ts are AccessGrants' matter and happen at once *)
(* here.  A write carries the user selected in the render it was clicked   *)
(* in, and refetches the accesses of that user whoever is selected then.   *)
(***************************************************************************)
EXTENDS PageCalls, SequencesExt

CONSTANTS Users, Systems, Roles,
    MaxAccesses     \* bound: rows of user_system_access

Ids  == 1..MaxAccesses
Rows == [id : Ids, user : Users, system : Systems, role : Roles]

-----------------------------------------------------------------------------
(* userSystemAccess.service.ts; server.access[id] is a row of the table *)

ActiveIds(u) == {id \in DOMAIN server.access :
                   server.access[id].user = u /\ server.access[id].active}
RowsOf(u) ==
    {[id |-> id, user |-> u, system |-> server.access[id].system,
      role |-> server.access[id].role] : id \in ActiveIds(u)}

ServeAccesses(i) ==
    /\ calls[i].op = "accesses" /\ calls[i].answer = None
    /\ Answered(i, [rows |-> RowsOf(calls[i].user)])
    /\ UNCHANGED <<view, server, hist>>

\* The users, systems and roles do not change while the page is open.
ServeLookup(i) ==
    /\ calls[i].op \in {"lookups", "roles"} /\ calls[i].answer = None
    /\ Answered(i, 1)
    /\ UNCHANGED <<view, server, hist>>

NewAccess(user, system, role) ==
    [user |-> user, system |-> system, role |-> role, active |-> TRUE]

\* 0: an active access of the user to the system is there already.
ServeGrant(i) ==
    /\ calls[i].op = "grant" /\ calls[i].answer = None
    /\ LET c == calls[i] IN
         IF \E id \in ActiveIds(c.user) : server.access[id].system = c.row.system
         THEN Answered(i, 0) /\ UNCHANGED server
         ELSE /\ server' = [server EXCEPT !.access =
                              Append(@, NewAccess(c.user, c.row.system, c.row.role))]
              /\ Answered(i, 1)
    /\ UNCHANGED <<view, hist>>

\* changeAccessRole revokes and inserts; it refuses what is revoked.
ServeChangeRole(i) ==
    /\ calls[i].op = "changeRole" /\ calls[i].answer = None
    /\ LET row == calls[i].row IN
         IF server.access[row.id].active
         THEN /\ server' = [server EXCEPT !.access =
                              Append([@ EXCEPT ![row.id].active = FALSE],
                                     NewAccess(row.user, row.system, row.role))]
              /\ Answered(i, 1)
         ELSE Answered(i, 0) /\ UNCHANGED server
    /\ UNCHANGED <<view, hist>>

ServeRevoke(i) ==
    /\ calls[i].op = "revoke" /\ calls[i].answer = None
    /\ LET id == calls[i].row.id IN
         IF server.access[id].active
         THEN /\ server' = [server EXCEPT !.access[id].active = FALSE]
              /\ Answered(i, 1)
         ELSE Answered(i, 0) /\ UNCHANGED server
    /\ UNCHANGED <<view, hist>>

-----------------------------------------------------------------------------
(* The page *)

Call(op, user, row) == [op |-> op, user |-> user, row |-> row, answer |-> None]
AccessesCall(u)     == Call("accesses", u, None)
RolesCall(s)        == Call("roles", None, [system |-> s])

Mounted(u) ==
    [user |-> u, rows |-> {}, loading |-> u # None, ready |-> FALSE, roles |-> {},
     grantSystem |-> None, grantRole |-> None, granting |-> FALSE,
     busy |-> None, confirm |-> None]

\* The address may name a user; accesses of before are there, one per user.
MountedOn(u, access) ==
    [view   |-> Mounted(u),
     calls  |-> <<Call("lookups", None, None)>> \o
                (IF u = None THEN <<>> ELSE <<AccessesCall(u)>>),
     server |-> [access |-> access],
     hist   |-> [calm |-> TRUE]]
Mounts ==
    {MountedOn(u, access) : u \in Users \cup {None},
       access \in {<<>>} \cup {<<NewAccess(v, s, r)>> : v \in Users, s \in Systems, r \in Roles}}

\* Bounds: requests in flight, and rows the table may still get.
Room == Len(calls) < MaxCalls
RowsLeft ==
    Len(server.access) + Cardinality({i \in DOMAIN calls :
        calls[i].op \in {"grant", "changeRole"} /\ calls[i].answer = None}) < MaxAccesses

\* fetchAccesses, in a render with user u selected, while rest is under way.
FetchAccesses(u, rest, v) ==
    /\ view' = [v EXCEPT !.loading = TRUE]
    /\ calls' = Append(rest, AccessesCall(u))

\* Selecting nobody empties the list and asks for nothing.
SelectUser(u) ==
    /\ view.confirm = None /\ u # view.user
    /\ u # None => view.ready /\ Room
    /\ IF u = None
       THEN view' = [view EXCEPT !.user = None, !.rows = {}] /\ UNCHANGED <<calls, hist>>
       ELSE /\ FetchAccesses(u, calls, [view EXCEPT !.user = u])
            /\ hist' = IF Pending(Writes) THEN Disturbed ELSE Asked(calls, TRUE)
    /\ UNCHANGED server

\* systemsWithoutAccess; a system that is not among them shows as no choice.
WithoutAccess == Systems \ {row.system : row \in view.rows}

\* ensureRolesLoaded, for every one of a set of systems.
RolesCalls(systems) ==
    [n \in 1..Cardinality(systems \ view.roles) |->
       RolesCall(SetToSeq(systems \ view.roles)[n])]

SelectSystem(s) ==
    /\ view.user # None /\ view.confirm = None /\ view.ready /\ Room
    /\ s \in WithoutAccess /\ s # view.grantSystem
    /\ view' = [view EXCEPT !.grantSystem = s, !.grantRole = None]
    /\ calls' = calls \o RolesCalls({s})
    /\ UNCHANGED <<server, hist>>

SelectRole(r) ==
    /\ view.user # None /\ view.confirm = None
    /\ view.grantSystem \in WithoutAccess \cap view.roles /\ r # view.grantRole
    /\ view' = [view EXCEPT !.grantRole = r]
    /\ UNCHANGED <<calls, server, hist>>

Grant ==
    /\ view.user # None /\ view.confirm = None /\ Room /\ RowsLeft
    /\ ~view.granting /\ view.grantRole # None /\ view.grantSystem \in WithoutAccess
    /\ view' = [view EXCEPT !.granting = TRUE]
    /\ calls' = Append(calls, Call("grant", view.user,
                  [system |-> view.grantSystem, role |-> view.grantRole]))
    /\ UNCHANGED <<server, hist>>

RowsShown == view.user # None /\ view.confirm = None /\ ~view.loading

Send(op, row) ==
    /\ view' = [view EXCEPT !.busy = row.id]
    /\ calls' = Append(calls, Call(op, view.user, row))
    /\ UNCHANGED <<server, hist>>

ChangeRole(row, r) ==
    /\ RowsShown /\ Room /\ RowsLeft /\ view.busy # row.id
    /\ row.system \in view.roles /\ r # row.role
    /\ Send("changeRole", [row EXCEPT !.role = r])

AskRevoke(row) ==
    /\ RowsShown /\ view.busy # row.id
    /\ view' = [view EXCEPT !.confirm = row]
    /\ UNCHANGED <<calls, server, hist>>

ConfirmRevoke ==
    /\ view.confirm # None /\ view.busy # view.confirm.id /\ Room
    /\ Send("revoke", view.confirm)

CancelRevoke ==
    /\ view.confirm # None /\ view.busy # view.confirm.id
    /\ view' = [view EXCEPT !.confirm = None]
    /\ UNCHANGED <<calls, server, hist>>

-----------------------------------------------------------------------------
(* Answers *)

ShowLookups(i) ==
    /\ calls[i].op = "lookups" /\ calls[i].answer # None
    /\ view' = [view EXCEPT !.ready = TRUE]
    /\ calls' = Without(i)
    /\ UNCHANGED <<server, hist>>

ShowRoles(i) ==
    /\ calls[i].op = "roles" /\ calls[i].answer # None
    /\ view' = [view EXCEPT !.roles = @ \cup {calls[i].row.system}]
    /\ calls' = Without(i)
    /\ UNCHANGED <<server, hist>>

\* setAccesses, and the effect that fetches the roles the rows need.
ShowAccesses(i) ==
    /\ calls[i].op = "accesses" /\ calls[i].answer # None
    /\ view' = [view EXCEPT !.rows = calls[i].answer.rows, !.loading = FALSE]
    /\ calls' = Without(i) \o RolesCalls({row.system : row \in calls[i].answer.rows})
    /\ hist' = Displayed(i)
    /\ UNCHANGED server

\* fetchAccesses(selectedUserId) of the handler that was waiting.
Refetch(i, v) ==
    /\ FetchAccesses(calls[i].user, Without(i), v)
    /\ hist' = Asked(Without(i), calls[i].user = view.user)
    /\ UNCHANGED server

Granted(i) ==
    /\ calls[i].op = "grant" /\ calls[i].answer = 1
    /\ Refetch(i, [view EXCEPT !.grantSystem = None, !.grantRole = None, !.granting = FALSE])

RoleChanged(i) ==
    /\ calls[i].op = "changeRole" /\ calls[i].answer = 1
    /\ Refetch(i, [view EXCEPT !.busy = None])

Revoked(i) ==
    /\ calls[i].op = "revoke" /\ calls[i].answer = 1
    /\ Refetch(i, [view EXCEPT !.confirm = None, !.busy = None])

\* An error: the flags are reset, what is shown stays.
Released(i) ==
    [view EXCEPT !.loading  = @ /\ calls[i].op # "accesses",
                 !.granting = @ /\ calls[i].op # "grant",
                 !.busy     = IF calls[i].op \in {"changeRole", "revoke"} THEN None ELSE @]

Refused(i) ==
    /\ calls[i].op \in Writes /\ calls[i].answer = 0
    /\ view' = Released(i) /\ calls' = Without(i)
    /\ UNCHANGED <<server, hist>>

\* The request did not arrive, or its answer did not.
Lost(i) ==
    /\ view' = Released(i) /\ calls' = Without(i)
    /\ hist' = IF calls[i].op \in {"lookups", "roles"} THEN hist ELSE Disturbed
    /\ UNCHANGED server

Serve(i) ==
    \/ ServeAccesses(i) \/ ServeLookup(i)
    \/ ServeGrant(i) \/ ServeChangeRole(i) \/ ServeRevoke(i)

Settle(i) ==
    \/ ShowLookups(i) \/ ShowRoles(i) \/ ShowAccesses(i)
    \/ Granted(i) \/ RoleChanged(i) \/ Revoked(i) \/ Refused(i) \/ Lost(i)

Click ==
    \/ Grant \/ ConfirmRevoke \/ CancelRevoke
    \/ \E u \in Users \cup {None} : SelectUser(u)
    \/ \E s \in Systems : SelectSystem(s)
    \/ \E r \in Roles : SelectRole(r)
    \/ \E row \in view.rows : AskRevoke(row) \/ \E r \in Roles : ChangeRole(row, r)

Next == Click \/ \E i \in DOMAIN calls : Serve(i) \/ Settle(i)

-----------------------------------------------------------------------------
(* Requirements *)

TypeOK ==
    /\ view \in [user : Users \cup {None}, rows : SUBSET Rows, loading : BOOLEAN,
                 ready : BOOLEAN, roles : SUBSET Systems,
                 grantSystem : Systems \cup {None}, grantRole : Roles \cup {None},
                 granting : BOOLEAN, busy : Ids \cup {None}, confirm : Rows \cup {None}]
    /\ \A i \in DOMAIN calls : calls[i].user \in Users \cup {None}
    /\ server.access \in Seq([user : Users, system : Systems, role : Roles,
                              active : BOOLEAN])
    /\ Len(server.access) <= MaxAccesses

AtRest == calls = <<>>

\* What is listed under a user's name is what the table holds for that user.
ShowsTheTable == AtRest /\ hist.calm /\ view.user # None => view.rows = RowsOf(view.user)

FlagsHaveCalls ==
    /\ view.loading => Pending({"accesses"})
    /\ view.granting => Pending({"grant"})
    /\ view.busy # None =>
         \E i \in DOMAIN calls : /\ calls[i].op \in {"changeRole", "revoke"}
                                 /\ calls[i].row.id = view.busy
=============================================================================
