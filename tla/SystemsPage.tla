----------------------------- MODULE SystemsPage -----------------------------
(***************************************************************************)
(* The page Sistemas of the panel with the modal of one system             *)
(* (SystemDetailModal.jsx), and what system.service.ts and role.service.ts *)
(* do with their requests.  A system is known by its slug.  What the modal *)
(* edits (name, both URI lists, active) is one value, because it is saved  *)
(* as a whole: what the administrator left alone is written back as the    *)
(* row had it when the modal was opened, so anything may be saved.         *)
(*                                                                         *)
(* The modal can be closed at any time.  Its requests go on, and their     *)
(* answers reach the callbacks of the page but no modal any more: live is  *)
(* FALSE for a request whose modal is gone.  A client secret is known by   *)
(* the number it was drawn under; drawn[n] is whom number n was drawn for. *)
(***************************************************************************)
EXTENDS PageCalls

CONSTANTS Slugs, Contents, Roles

Systems == [contents : Contents, secret : 0..MaxSecrets, roles : SUBSET Roles]
Rows    == [slug : Slugs, contents : Contents]
Secrets == [of : Slugs, value : 1..MaxSecrets]

-----------------------------------------------------------------------------
(* system.service.ts and role.service.ts *)

Registered  == {s \in Slugs : server.systems[s] # None}
SystemRows  == {[slug |-> s, contents |-> server.systems[s].contents] : s \in Registered}
RolesOf(s)  == server.systems[s].roles

ServeList(i) ==
    /\ calls[i].op = "list" /\ calls[i].answer = None
    /\ Answered(i, [rows |-> SystemRows])
    /\ UNCHANGED <<view, server, hist>>

ServeRoles(i) ==
    /\ calls[i].op = "roles" /\ calls[i].answer = None
    /\ Answered(i, [roles |-> RolesOf(calls[i].slug)])
    /\ UNCHANGED <<view, server, hist>>

\* A secret is drawn and stored as a hash; it is in the answer and nowhere else.
DrawFor(i, system) ==
    /\ server' = [systems |-> [server.systems EXCEPT ![calls[i].slug] =
                                 [system EXCEPT !.secret = Len(server.drawn) + 1]],
                  drawn |-> Append(server.drawn, calls[i].slug)]
    /\ Answered(i, Len(server.drawn) + 1)

\* createSystem; 0: the slug is taken.
ServeCreate(i) ==
    /\ calls[i].op = "create" /\ calls[i].answer = None
    /\ IF calls[i].slug \in Registered
       THEN Answered(i, 0) /\ UNCHANGED server
       ELSE DrawFor(i, [contents |-> calls[i].value, secret |-> 0, roles |-> {}])
    /\ UNCHANGED <<view, hist>>

ServeRegenerate(i) ==
    /\ calls[i].op = "regenerate" /\ calls[i].answer = None
    /\ DrawFor(i, server.systems[calls[i].slug])
    /\ UNCHANGED <<view, hist>>

ServeUpdate(i) ==
    /\ calls[i].op = "update" /\ calls[i].answer = None
    /\ server' = [server EXCEPT !.systems[calls[i].slug].contents = calls[i].value]
    /\ Answered(i, 1)
    /\ UNCHANGED <<view, hist>>

\* 0: the system has a role of that name.
ServeCreateRole(i) ==
    /\ calls[i].op = "createRole" /\ calls[i].answer = None
    /\ server' = [server EXCEPT !.systems[calls[i].slug].roles = @ \cup {calls[i].value}]
    /\ Answered(i, IF calls[i].value \in RolesOf(calls[i].slug) THEN 0 ELSE 1)
    /\ UNCHANGED <<view, hist>>

\* 0: the role is gone, or an access, active or not, refers to it.
ServeRemoveRole(i) ==
    /\ calls[i].op = "removeRole" /\ calls[i].answer = None
    /\ \/ Answered(i, 0) /\ UNCHANGED server
       \/ /\ calls[i].value \in RolesOf(calls[i].slug)
          /\ server' = [server EXCEPT !.systems[calls[i].slug].roles = @ \ {calls[i].value}]
          /\ Answered(i, 1)
    /\ UNCHANGED <<view, hist>>

-----------------------------------------------------------------------------
(* The page *)

Call(op, s, value) ==
    [op |-> op, slug |-> s, value |-> value, live |-> TRUE, answer |-> None]
ListCall == Call("list", None, None)

Mounted ==
    [rows |-> {}, loading |-> TRUE, form |-> FALSE, creating |-> FALSE,
     reveal |-> None, modal |-> None]

\* A system is there already, with its secret and without roles, or none is.
Mounts ==
    {[view   |-> Mounted, calls |-> <<ListCall>>,
      server |-> [systems |-> systems, drawn |-> <<>>],
      hist   |-> [calm |-> TRUE, seen |-> {}, lost |-> {}]] :
       systems \in [Slugs -> {None} \cup [contents : Contents, secret : {0}, roles : {{}}]]}

\* Bounds: requests in flight, and secrets to be drawn.
Room == Len(calls) < MaxCalls
SecretsLeft ==
    Len(server.drawn) + Cardinality({i \in DOMAIN calls :
        calls[i].op \in Draws /\ calls[i].answer = None}) < MaxSecrets

Open   == view.reveal = None /\ ~view.form /\ view.modal = None
InForm == view.form /\ view.reveal = None /\ view.modal = None

Click(v)       == view' = v /\ UNCHANGED <<calls, server, hist>>
Send(v, c)     == view' = v /\ calls' = Append(calls, c) /\ UNCHANGED <<server, hist>>

OpenForm   == Open /\ SecretsLeft /\ Click([view EXCEPT !.form = TRUE])
CancelForm == InForm /\ ~view.creating /\ Click([view EXCEPT !.form = FALSE])

SubmitForm(s, contents) ==
    /\ InForm /\ ~view.creating /\ Room /\ SecretsLeft
    /\ Send([view EXCEPT !.creating = TRUE], Call("create", s, contents))

CloseReveal == view.reveal # None /\ Click([view EXCEPT !.reveal = None])

\* The button Gerenciar of a row: a new modal, which asks for the roles.
OpenModal(row) ==
    /\ Open /\ ~view.loading /\ Room
    /\ view' = [view EXCEPT !.modal =
                  [of |-> row.slug, saving |-> FALSE, regenerating |-> FALSE,
                   confirm |-> None, roles |-> {}, rolesLoading |-> TRUE,
                   creatingRole |-> FALSE, deletingRole |-> None]]
    /\ calls' = Append(calls, Call("roles", row.slug, None))
    /\ hist' = IF Pending(Writes) THEN Disturbed ELSE hist
    /\ UNCHANGED server

CloseModal ==
    /\ view.modal # None /\ view.reveal = None /\ view.modal.confirm = None
    /\ view' = [view EXCEPT !.modal = None]
    /\ calls' = [i \in DOMAIN calls |-> [calls[i] EXCEPT !.live = @ /\ calls[i].op \in {"list", "create"}]]
    /\ UNCHANGED <<server, hist>>

\* In the modal, with nothing on top of it.
InModal == view.modal # None /\ view.reveal = None /\ view.modal.confirm = None

Save(contents) ==
    /\ InModal /\ ~view.modal.saving /\ Room
    /\ Send([view EXCEPT !.modal.saving = TRUE], Call("update", view.modal.of, contents))

CreateRole(r) ==
    /\ InModal /\ ~view.modal.creatingRole /\ Room
    /\ Send([view EXCEPT !.modal.creatingRole = TRUE], Call("createRole", view.modal.of, r))

\* confirm is "secret" or the role that is to be removed.
AskRegenerate ==
    /\ InModal /\ ~view.modal.regenerating /\ SecretsLeft
    /\ Click([view EXCEPT !.modal.confirm = "secret"])

AskRemoveRole(r) ==
    /\ InModal /\ ~view.modal.rolesLoading /\ view.modal.deletingRole # r
    /\ Click([view EXCEPT !.modal.confirm = r])

Confirming == view.modal # None /\ view.reveal = None /\ view.modal.confirm # None

\* The confirmation disables both its buttons while its request is under way.
Confirmed ==
    \/ view.modal.regenerating /\ view.modal.confirm = "secret"
    \/ view.modal.deletingRole = view.modal.confirm

CancelConfirm ==
    Confirming /\ ~Confirmed /\ Click([view EXCEPT !.modal.confirm = None])

Confirm ==
    /\ Confirming /\ ~Confirmed /\ Room
    /\ IF view.modal.confirm = "secret"
       THEN /\ SecretsLeft
            /\ Send([view EXCEPT !.modal.regenerating = TRUE],
                    Call("regenerate", view.modal.of, None))
       ELSE Send([view EXCEPT !.modal.deletingRole = view.modal.confirm],
                 Call("removeRole", view.modal.of, view.modal.confirm))

-----------------------------------------------------------------------------
(* Answers *)

ShowList(i) ==
    /\ calls[i].op = "list" /\ calls[i].answer # None
    /\ view' = [view EXCEPT !.rows = calls[i].answer.rows, !.loading = FALSE]
    /\ calls' = Without(i)
    /\ hist' = Displayed(i)
    /\ UNCHANGED server

ShowRoles(i) ==
    /\ calls[i].op = "roles" /\ calls[i].answer # None
    /\ view' = IF calls[i].live
               THEN [view EXCEPT !.modal.roles = calls[i].answer.roles,
                                 !.modal.rolesLoading = FALSE]
               ELSE view
    /\ calls' = Without(i)
    /\ hist' = Displayed(i)
    /\ UNCHANGED server

\* fetchSystems and fetchRoles.
FetchSystems(i, v) ==
    /\ view' = [v EXCEPT !.loading = TRUE]
    /\ calls' = Append(Without(i), ListCall)

FetchRoles(i, v) ==
    /\ view' = [v EXCEPT !.modal.rolesLoading = TRUE]
    /\ calls' = Append(Without(i), Call("roles", calls[i].slug, None))

Reveal(i) == [of |-> calls[i].slug, value |-> calls[i].answer]
Seen(h, i) == [h EXCEPT !.seen = @ \cup {Reveal(i)}]

Created(i) ==
    /\ calls[i].op = "create" /\ calls[i].answer \notin {None, 0}
    /\ FetchSystems(i, [view EXCEPT !.form = FALSE, !.creating = FALSE, !.reveal = Reveal(i)])
    /\ hist' = Seen(Asked(Without(i), view.modal = None), i)
    /\ UNCHANGED server

\* The confirmation keeps the modal open until the answer is there.
Regenerated(i) ==
    /\ calls[i].op = "regenerate" /\ calls[i].answer # None
    /\ view' = [view EXCEPT !.modal.regenerating = FALSE, !.modal.confirm = None,
                            !.reveal = Reveal(i)]
    /\ calls' = Without(i)
    /\ hist' = Seen(hist, i)
    /\ UNCHANGED server

\* onUpdated refetches the rows; the modal goes on with the row it was given.
Updated(i) ==
    /\ calls[i].op = "update" /\ calls[i].answer # None
    /\ FetchSystems(i, IF calls[i].live THEN [view EXCEPT !.modal.saving = FALSE] ELSE view)
    /\ hist' = Asked(Without(i), view.modal = None)
    /\ UNCHANGED server

\* A role was created or removed.  Without a modal nothing shows the answer to
\* the request that follows, and it is left out.
RolesChanged(i) ==
    /\ calls[i].op \in {"createRole", "removeRole"} /\ calls[i].answer = 1
    /\ IF ~calls[i].live
       THEN view' = view /\ calls' = Without(i)
       ELSE FetchRoles(i, IF calls[i].op = "createRole"
                          THEN [view EXCEPT !.modal.creatingRole = FALSE]
                          ELSE [view EXCEPT !.modal.confirm = None,
                                            !.modal.deletingRole = None])
    /\ UNCHANGED <<server, hist>>

\* An error: the flags are reset, what is shown stays.
Released(i) ==
    LET op == calls[i].op IN
    CASE op = "list"   -> [view EXCEPT !.loading = FALSE]
      [] op = "create" -> [view EXCEPT !.creating = FALSE]
      [] OTHER -> IF ~calls[i].live THEN view
                  ELSE [view EXCEPT
                    !.modal.rolesLoading = @ /\ op # "roles",
                    !.modal.saving = @ /\ op # "update",
                    !.modal.regenerating = @ /\ op # "regenerate",
                    !.modal.creatingRole = @ /\ op # "createRole",
                    !.modal.deletingRole = IF op = "removeRole" THEN None ELSE @]

Refused(i) ==
    /\ calls[i].op \in Writes /\ calls[i].answer = 0
    /\ view' = Released(i) /\ calls' = Without(i)
    /\ UNCHANGED <<server, hist>>

\* The request did not arrive, or its answer did not.
Lost(i) ==
    /\ view' = Released(i) /\ calls' = Without(i)
    /\ hist' = [Disturbed EXCEPT !.lost = @ \cup SecretOf(i)]
    /\ UNCHANGED server

Serve(i) ==
    \/ ServeList(i) \/ ServeRoles(i) \/ ServeCreate(i) \/ ServeRegenerate(i)
    \/ ServeUpdate(i) \/ ServeCreateRole(i) \/ ServeRemoveRole(i)

Settle(i) ==
    \/ ShowList(i) \/ ShowRoles(i) \/ Created(i) \/ Regenerated(i) \/ Updated(i)
    \/ RolesChanged(i) \/ Refused(i) \/ Lost(i)

Next ==
    \/ OpenForm \/ CancelForm \/ CloseReveal \/ CloseModal
    \/ AskRegenerate \/ CancelConfirm \/ Confirm
    \/ \E s \in Slugs, c \in Contents : SubmitForm(s, c)
    \/ \E row \in view.rows : OpenModal(row)
    \/ \E c \in Contents : Save(c)
    \/ \E r \in Roles : CreateRole(r)
    \/ InModal /\ \E r \in view.modal.roles : AskRemoveRole(r)
    \/ \E i \in DOMAIN calls : Serve(i) \/ Settle(i)

-----------------------------------------------------------------------------
(* Requirements *)

Modals ==
    [of : Slugs, saving : BOOLEAN, regenerating : BOOLEAN,
     confirm : Roles \cup {"secret", None}, roles : SUBSET Roles, rolesLoading : BOOLEAN,
     creatingRole : BOOLEAN, deletingRole : Roles \cup {None}]

TypeOK ==
    /\ view \in [rows : SUBSET Rows, loading : BOOLEAN, form : BOOLEAN, creating : BOOLEAN,
                 reveal : Secrets \cup {None}, modal : Modals \cup {None}]
    /\ \A i \in DOMAIN calls : calls[i].slug \in Slugs \cup {None} /\ calls[i].live \in BOOLEAN
    /\ server.systems \in [Slugs -> Systems \cup {None}]
    /\ server.drawn \in Seq(Slugs) /\ Len(server.drawn) <= MaxSecrets
    /\ hist.seen \subseteq Secrets /\ hist.lost \subseteq 1..MaxSecrets

AtRest == calls = <<>>

\* The rows are the table, and an open modal lists the roles of its system.
ShowsTheTable ==
    AtRest /\ hist.calm =>
      /\ view.rows = SystemRows
      /\ view.modal # None => view.modal.roles = RolesOf(view.modal.of)

FlagsHaveCalls ==
    /\ view.loading => Pending({"list"})
    /\ view.creating => Pending({"create"})
    /\ view.modal # None =>
         LET Live(op) == \E i \in DOMAIN calls : calls[i].op = op /\ calls[i].live
         IN  /\ view.modal.rolesLoading => Live("roles")
             /\ view.modal.saving => Live("update")
             /\ view.modal.regenerating => Live("regenerate")
             /\ view.modal.creatingRole => Live("createRole")
             /\ view.modal.deletingRole # None => Live("removeRole")

\* A secret in force that was drawn for this page has been on display, under the
\* name of its system, unless its answer is under way or was lost.
SecretsShown ==
    /\ \A n \in DOMAIN server.drawn :
         \/ \E i \in DOMAIN calls :
              calls[i].op \in Draws /\ calls[i].answer = n
         \/ [of |-> server.drawn[n], value |-> n] \in hist.seen
         \/ n \in hist.lost
    /\ \A secret \in hist.seen : server.drawn[secret.value] = secret.of
=============================================================================
