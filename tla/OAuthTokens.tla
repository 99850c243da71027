---------------------------- MODULE OAuthTokens ----------------------------
(***************************************************************************)
(* The OAuth core of the IdP: GET /authorize, POST /token (both grant      *)
(* types) and POST /revoke, as the request handlers of                     *)
(* src/services/oauth.service.ts execute them against the database.        *)
(*                                                                         *)
(* Every `await` of a handler is a point where other requests run, so a    *)
(* handler is cut there: one action is one repository call together with   *)
(* the synchronous code up to the next one.  `req[r]` holds what the       *)
(* handler keeps in local variables across those awaits, which is exactly  *)
(* what may be stale when it is used.  A handler may also die at any await *)
(* (database error or process crash), leaving what it already wrote.       *)
(*                                                                         *)
(* Codes and tokens are drawn from randomBytes(32) and are taken to be     *)
(* distinct.  A family is named by the token that started it.              *)
(***************************************************************************)
EXTENDS Naturals, FiniteSets

CONSTANTS
    Users,      \* rows of table users
    Systems,    \* rows of table systems (the OAuth clients)
    Uris,       \* redirect URIs a system may register
    Roles,      \* roles a grant may carry
    Codes,      \* authorization codes, fresh ones are drawn from here
    Tokens,     \* refresh tokens, likewise
    Requests,   \* HTTP requests that can be in flight at the same time
    None        \* SQL NULL / an absent row / an unset local variable

Items == Codes \cup Tokens

\* The places a handler can wait at: the repository call it is about to make.
AuthorizePcs == {"authUser", "authAccess", "createCode", "auditAccess"}
TokenPcs     == {"findCode", "findToken", "revokeOld", "loadUser", "loadAccess",
                 "markUsed", "createToken", "auditIssued"}
ReusePcs     == {"revokeAll", "revokeFamily", "auditReuse"}
RevokePcs    == {"findForRevoke", "revokeToken", "auditLogout"}
Pcs          == {"idle"} \cup AuthorizePcs \cup TokenPcs \cup ReusePcs \cup RevokePcs

AuditActions == {"SYSTEM_ACCESS", "TOKEN_ISSUED", "ACCESS_REVOKED", "LOGOUT"}

CodeRows  == [user : Users, system : Systems, uri : Uris,
              expired : BOOLEAN, used : BOOLEAN]
TokenRows == [user : Users, system : Systems, family : Tokens,
              expired : BOOLEAN, revoked : BOOLEAN]
Locals    == [pc : Pcs, user : Users \cup {None}, sys : Systems \cup {None},
              item : Items \cup {None}, uri : Uris \cup {None},
              role : Roles \cup {None}]

ASSUME DisjointAssumption ==
    /\ Codes \cap Tokens = {}
    /\ {"active", "ready", "unspent"} \cap Roles = {}
ASSUME NoneAssumption ==
    /\ None \notin Users \cup Systems \cup Uris \cup Roles \cup Items
    /\ None \notin CodeRows \cup TokenRows

VARIABLES
    users,      \* users[u].active, users[u].mustChange
    systems,    \* systems[s].active, systems[s].uris
    grants,     \* grants[u][s]: role of the one active UserSystemAccess, or None
    codes,      \* table authorization_codes
    tokens,     \* table refresh_tokens
    audit,      \* table audit_logs: <<action, the code or token it is about>>
    delivered,  \* codes and tokens a response has carried to a client
    req,        \* local variables of the handler serving each request
    origin,     \* history: the code or token each token was issued for
    window      \* history: what a handler relies on that was so while it ran

tables == <<users, systems, grants>>
vars   == <<users, systems, grants, codes, tokens, audit, delivered, req,
            origin, window>>

Idle == [pc |-> "idle", user |-> None, sys |-> None, item |-> None,
         uri |-> None, role |-> None]

Init ==
    /\ users = [u \in Users |-> [active |-> TRUE, mustChange |-> TRUE]]
    /\ systems \in [Systems -> [active : {TRUE}, uris : SUBSET Uris \ {{}}]]
    /\ grants = [u \in Users |-> [s \in Systems |-> None]]
    /\ codes = [c \in Codes |-> None]
    /\ tokens = [t \in Tokens |-> None]
    /\ audit = {}
    /\ delivered = {}
    /\ req = [r \in Requests |-> Idle]
    /\ origin = [t \in Tokens |-> None]
    /\ window = [r \in Requests |-> {}]

-----------------------------------------------------------------------------
(* Handler control flow *)

At(r, pc)     == req[r].pc = pc
Goto(r, pc)   == req' = [req EXCEPT ![r].pc = pc]
Finish(r)     == req' = [req EXCEPT ![r] = Idle]
GotoWith(r, pc, i) == req' = [req EXCEPT ![r] = [Idle EXCEPT !.pc = pc, !.item = i]]

\* What a handler has to find before it issues anything: the user active, its
\* temporary password replaced, a role held in the system.
Entitlements(user, role) ==
    (IF user.active THEN {"active"} ELSE {})
      \cup (IF user.mustChange THEN {} ELSE {"ready"})
      \cup ({role} \ {None})

\* What it has to find of the code or token it serves.
Unspent(i, codeRows, tokenRows) ==
    IF \/ i \in Codes /\ ~codeRows[i].used
       \/ i \in Tokens /\ ~tokenRows[i].revoked
    THEN {"unspent"} ELSE {}

\* window[r] collects all of that which was so at some moment since the handler
\* serving r learnt which user it is working for; in an exchange, that is the
\* moment it has found the code or token and accepted it.
TrackWindow ==
    window' = [r \in Requests |->
                 IF req'[r].user = None THEN {}
                 ELSE window[r]
                        \cup Entitlements(users'[req'[r].user],
                                          grants'[req'[r].user][req'[r].sys])
                        \cup Unspent(req'[r].item, codes', tokens')]

\* What a step leaves alone: everything but req, or everything but req and the
\* one table it writes.  Each also advances the history.
NoWrite      == UNCHANGED <<tables, codes, tokens, audit, delivered, origin>> /\ TrackWindow
WritesCodes  == UNCHANGED <<tables, tokens, audit, delivered, origin>> /\ TrackWindow
WritesTokens == UNCHANGED <<tables, codes, audit, delivered>> /\ TrackWindow
WritesAudit  == UNCHANGED <<tables, codes, tokens, origin>> /\ TrackWindow
WritesTables == UNCHANGED <<codes, tokens, audit, delivered, req, origin>> /\ TrackWindow

\* Bound: a handler that may insert a row is only started while a fresh id is
\* left for it, so that no handler ever waits for one.
CodesLeft ==
    Cardinality({r \in Requests : req[r].pc \in AuthorizePcs \ {"auditAccess"}})
        < Cardinality({c \in Codes : codes[c] = None})
TokensLeft ==
    Cardinality({r \in Requests : req[r].pc \in TokenPcs \ {"auditIssued"}})
        < Cardinality({t \in Tokens : tokens[t] = None})

-----------------------------------------------------------------------------
(* GET /authorize: oauthService.authorize *)

\* The first await, findByClientId, with the checks on its result.  A request
\* that fails them changes nothing and is not modelled; neither is one with no
\* session.
StartAuthorize(r, u, s, uri) ==
    /\ At(r, "idle")
    /\ CodesLeft
    /\ systems[s].active
    /\ uri \in systems[s].uris
    /\ req' = [req EXCEPT ![r] = [Idle EXCEPT !.pc = "authUser", !.user = u,
                                              !.sys = s, !.uri = uri]]
    /\ NoWrite

AuthUser(r) ==
    /\ At(r, "authUser")
    /\ LET user == users[req[r].user] IN
         \/ user.active /\ ~user.mustChange /\ Goto(r, "authAccess")
         \/ (~user.active \/ user.mustChange) /\ Finish(r)
    /\ NoWrite

AuthAccess(r) ==
    /\ At(r, "authAccess")
    /\ LET role == grants[req[r].user][req[r].sys] IN
         \/ role # None /\ req' = [req EXCEPT ![r].pc = "createCode",
                                              ![r].role = role]
         \/ role = None /\ Finish(r)
    /\ NoWrite

CreateCode(r) ==
    /\ At(r, "createCode")
    /\ \E c \in Codes :
         /\ codes[c] = None
         /\ codes' = [codes EXCEPT ![c] =
                        [user |-> req[r].user, system |-> req[r].sys,
                         uri |-> req[r].uri, expired |-> FALSE, used |-> FALSE]]
         /\ GotoWith(r, "auditAccess", c)
    /\ WritesCodes

\* The audit row, then the response; the response may be lost on its way.
AuditAccess(r) ==
    /\ At(r, "auditAccess")
    /\ audit' = audit \cup {<<"SYSTEM_ACCESS", req[r].item>>}
    /\ delivered' \in {delivered, delivered \cup {req[r].item}}
    /\ Finish(r)
    /\ WritesAudit

-----------------------------------------------------------------------------
(* POST /token, grant_type=authorization_code: exchangeAuthorizationCode *)

\* findByClientId and the client's authentication; failures change nothing.
StartCodeGrant(r, s, c, uri) ==
    /\ At(r, "idle")
    /\ TokensLeft
    /\ systems[s].active
    /\ c \in delivered
    /\ req' = [req EXCEPT ![r] = [Idle EXCEPT !.pc = "findCode", !.sys = s,
                                              !.item = c, !.uri = uri]]
    /\ NoWrite

\* Mutants of CodeVerdict: the client or the earlier use is not looked at.
CodeVerdictAnyClient(row, s, uri) ==
    CASE row.expired -> "reject"
      [] ~row.expired /\ row.used -> "reuse"
      [] ~row.expired /\ ~row.used /\ row.uri # uri -> "reject"
      [] OTHER -> "accept"
CodeVerdictAnyTime(row, s, uri) ==
    IF row.system # s \/ row.expired \/ row.uri # uri THEN "reject" ELSE "accept"

\* What exchangeAuthorizationCode does with the row findByCode returned.
CodeVerdict(row, s, uri) ==
    CASE row.system # s -> "reject"
      [] row.system = s /\ row.expired -> "reject"
      [] row.system = s /\ ~row.expired /\ row.used -> "reuse"
      [] row.system = s /\ ~row.expired /\ ~row.used /\ row.uri # uri -> "reject"
      [] OTHER -> "accept"

FindCode(r) ==
    /\ At(r, "findCode")
    /\ LET row == codes[req[r].item]
           verdict == CodeVerdict(row, req[r].sys, req[r].uri) IN
         \/ verdict = "reject" /\ Finish(r)
         \/ verdict = "reuse"  /\ Goto(r, "revokeAll")
         \/ verdict = "accept" /\ req' = [req EXCEPT ![r].pc = "loadUser",
                                                     ![r].user = row.user]
    /\ NoWrite

\* revokeAllActiveForUserAndSystem, one UPDATE statement.
RevokeAll(r) ==
    /\ At(r, "revokeAll")
    /\ LET code == codes[req[r].item] IN
         tokens' = [t \in Tokens |->
                      IF /\ tokens[t] # None
                         /\ tokens[t].user = code.user
                         /\ tokens[t].system = code.system
                      THEN [tokens[t] EXCEPT !.revoked = TRUE]
                      ELSE tokens[t]]
    /\ GotoWith(r, "auditReuse", req[r].item)
    /\ UNCHANGED origin
    /\ WritesTokens

\* Unconditional UPDATE by id: the row's usedAt is not looked at again.
MarkUsed(r) ==
    /\ At(r, "markUsed")
    /\ codes' = [codes EXCEPT ![req[r].item].used = TRUE]
    /\ Goto(r, "createToken")
    /\ WritesCodes

-----------------------------------------------------------------------------
(* POST /token, grant_type=refresh_token: exchangeRefreshToken *)

StartRefreshGrant(r, s, t) ==
    /\ At(r, "idle")
    /\ TokensLeft
    /\ systems[s].active
    /\ t \in delivered
    /\ req' = [req EXCEPT ![r] = [Idle EXCEPT !.pc = "findToken", !.sys = s,
                                              !.item = t]]
    /\ NoWrite

\* Mutants of TokenVerdict: the client or the revocation is not looked at.
TokenVerdictAnyClient(row, s) ==
    CASE row.revoked -> "reuse"
      [] ~row.revoked /\ row.expired -> "reject"
      [] OTHER -> "accept"
TokenVerdictRevokedToo(row, s) ==
    IF row.system # s \/ row.expired THEN "reject" ELSE "accept"

TokenVerdict(row, s) ==
    CASE row.system # s -> "reject"
      [] row.system = s /\ row.revoked -> "reuse"
      [] row.system = s /\ ~row.revoked /\ row.expired -> "reject"
      [] OTHER -> "accept"

FindToken(r) ==
    /\ At(r, "findToken")
    /\ LET row == tokens[req[r].item]
           verdict == TokenVerdict(row, req[r].sys) IN
         \/ verdict = "reject" /\ Finish(r)
         \/ verdict = "reuse"  /\ Goto(r, "revokeFamily")
         \/ verdict = "accept" /\ req' = [req EXCEPT ![r].pc = "revokeOld",
                                                     ![r].user = row.user]
    /\ NoWrite

\* Unconditional UPDATE by id, before the user's access is checked again.
RevokeOld(r) ==
    /\ At(r, "revokeOld")
    /\ tokens' = [tokens EXCEPT ![req[r].item].revoked = TRUE]
    /\ Goto(r, "loadUser")
    /\ UNCHANGED origin
    /\ WritesTokens

\* Mutant of RevokeFamily: only the token presented again is revoked.
RevokeOnlyPresented(r) ==
    /\ At(r, "revokeFamily")
    /\ tokens' = [tokens EXCEPT ![req[r].item].revoked = TRUE]
    /\ GotoWith(r, "auditReuse", req[r].item)
    /\ UNCHANGED origin
    /\ WritesTokens

RevokeFamily(r) ==
    /\ At(r, "revokeFamily")
    /\ LET family == tokens[req[r].item].family IN
         tokens' = [t \in Tokens |->
                      IF tokens[t] # None /\ tokens[t].family = family
                      THEN [tokens[t] EXCEPT !.revoked = TRUE]
                      ELSE tokens[t]]
    /\ GotoWith(r, "auditReuse", req[r].item)
    /\ UNCHANGED origin
    /\ WritesTokens

\* The audit row of either kind of reuse; the response is an error.
AuditReuse(r) ==
    /\ At(r, "auditReuse")
    /\ audit' = audit \cup {<<"ACCESS_REVOKED", req[r].item>>}
    /\ Finish(r)
    /\ UNCHANGED delivered
    /\ WritesAudit

-----------------------------------------------------------------------------
(* Shared by both grant types: loadActiveAccessOrThrow and issueTokenPair *)

\* Mutant of LoadUser: a deactivated user passes.
LoadAnyUser(r) ==
    /\ At(r, "loadUser")
    /\ Goto(r, "loadAccess")
    /\ NoWrite

LoadUser(r) ==
    /\ At(r, "loadUser")
    /\ \/ users[req[r].user].active /\ Goto(r, "loadAccess")
       \/ ~users[req[r].user].active /\ Finish(r)
    /\ NoWrite

\* Mutant of LoadAccess: the token pair is issued before the code is marked.
LoadAccessIssuesFirst(r) ==
    /\ At(r, "loadAccess")
    /\ LET role == grants[req[r].user][req[r].sys] IN
         \/ role # None /\ req' = [req EXCEPT ![r].pc = "createToken", ![r].role = role]
         \/ role = None /\ Finish(r)
    /\ NoWrite

LoadAccess(r) ==
    /\ At(r, "loadAccess")
    /\ LET role == grants[req[r].user][req[r].sys]
           next == IF req[r].item \in Codes THEN "markUsed" ELSE "createToken" IN
         \/ role # None /\ req' = [req EXCEPT ![r].pc = next, ![r].role = role]
         \/ role = None /\ Finish(r)
    /\ NoWrite

\* Mutant of CreateToken: the first token of a lineage gets no family.
CreateTokenNoFamily(r) ==
    /\ At(r, "createToken")
    /\ \E t \in Tokens :
         LET i == req[r].item
             family == IF i \in Codes THEN None ELSE tokens[i].family IN
         /\ tokens[t] = None
         /\ tokens' = [tokens EXCEPT ![t] =
                         [user |-> req[r].user, system |-> req[r].sys,
                          family |-> family, expired |-> FALSE, revoked |-> FALSE]]
         /\ origin' = [origin EXCEPT ![t] = i]
         /\ GotoWith(r, "auditIssued", t)
    /\ WritesTokens

\* A code starts a family of its own, a token passes its family on.
CreateToken(r) ==
    /\ At(r, "createToken")
    /\ \E t \in Tokens :
         LET i == req[r].item
             family == IF i \in Codes THEN t ELSE tokens[i].family IN
         /\ tokens[t] = None
         /\ tokens' = [tokens EXCEPT ![t] =
                         [user |-> req[r].user, system |-> req[r].sys,
                          family |-> family, expired |-> FALSE, revoked |-> FALSE]]
         /\ origin' = [origin EXCEPT ![t] = i]
         /\ GotoWith(r, "auditIssued", t)
    /\ WritesTokens

\* Mutant of AuditIssued: a failing audit row does not stop the response.
AuditBestEffort(r) ==
    /\ At(r, "auditIssued")
    /\ audit' \in {audit, audit \cup {<<"TOKEN_ISSUED", req[r].item>>}}
    /\ delivered' \in {delivered, delivered \cup {req[r].item}}
    /\ Finish(r)
    /\ WritesAudit

AuditIssued(r) ==
    /\ At(r, "auditIssued")
    /\ audit' = audit \cup {<<"TOKEN_ISSUED", req[r].item>>}
    /\ delivered' \in {delivered, delivered \cup {req[r].item}}
    /\ Finish(r)
    /\ WritesAudit

-----------------------------------------------------------------------------
(* POST /revoke: oauthService.revokeToken *)

StartRevoke(r, s, t) ==
    /\ At(r, "idle")
    /\ systems[s].active
    /\ t \in delivered
    /\ req' = [req EXCEPT ![r] = [Idle EXCEPT !.pc = "findForRevoke", !.sys = s,
                                              !.item = t]]
    /\ NoWrite

\* Mutants of FindForRevoke: a revoked token counts as a logout; or the silent
\* branch returns without an answer.
FindForRevokeAny(r) ==
    /\ At(r, "findForRevoke")
    /\ LET silent == tokens[req[r].item].system # req[r].sys IN
         \/ silent /\ Finish(r)
         \/ ~silent /\ GotoWith(r, "revokeToken", req[r].item)
    /\ NoWrite
FindForRevokeHangs(r) ==
    /\ At(r, "findForRevoke")
    /\ tokens[req[r].item].system = req[r].sys /\ ~tokens[req[r].item].revoked
    /\ GotoWith(r, "revokeToken", req[r].item)
    /\ NoWrite

FindForRevoke(r) ==
    /\ At(r, "findForRevoke")
    /\ LET row == tokens[req[r].item]
           silent == row.system # req[r].sys \/ row.revoked IN
         \/ silent /\ Finish(r)
         \/ ~silent /\ GotoWith(r, "revokeToken", req[r].item)
    /\ NoWrite

RevokeToken(r) ==
    /\ At(r, "revokeToken")
    /\ tokens' = [tokens EXCEPT ![req[r].item].revoked = TRUE]
    /\ Goto(r, "auditLogout")
    /\ UNCHANGED origin
    /\ WritesTokens

AuditLogout(r) ==
    /\ At(r, "auditLogout")
    /\ audit' = audit \cup {<<"LOGOUT", req[r].item>>}
    /\ Finish(r)
    /\ UNCHANGED delivered
    /\ WritesAudit

-----------------------------------------------------------------------------
(* The rest of the world *)

\* The pending repository call throws, or the process dies: no response, and
\* what was written stays written (the handlers use no transaction).
Abort(r) ==
    /\ ~At(r, "idle")
    /\ Finish(r)
    /\ NoWrite

\* Date.now() passes expiresAt.
ExpireCode(c) ==
    /\ codes[c] # None /\ ~codes[c].expired
    /\ codes' = [codes EXCEPT ![c].expired = TRUE]
    /\ UNCHANGED req
    /\ WritesCodes

ExpireToken(t) ==
    /\ tokens[t] # None /\ ~tokens[t].expired
    /\ tokens' = [tokens EXCEPT ![t].expired = TRUE]
    /\ UNCHANGED <<req, origin>>
    /\ WritesTokens

\* userService.setActive, and the two writers of mustChangePassword:
\* userService.resetPassword sets it, authService.changePassword clears it.
SetUserActive(u) ==
    /\ users' = [users EXCEPT ![u].active = ~users[u].active]
    /\ UNCHANGED <<systems, grants>>
    /\ WritesTables

SetMustChange(u) ==
    /\ users' = [users EXCEPT ![u].mustChange = ~users[u].mustChange]
    /\ UNCHANGED <<systems, grants>>
    /\ WritesTables

\* systemService.updateSystem on the two fields the OAuth handlers read.
UpdateSystem(s) ==
    /\ \E active \in BOOLEAN, uris \in SUBSET Uris \ {{}} :
         /\ systems[s] # [active |-> active, uris |-> uris]
         /\ systems' = [systems EXCEPT ![s] = [active |-> active, uris |-> uris]]
    /\ UNCHANGED <<users, grants>>
    /\ WritesTables

\* The committed effect of grantAccess, revokeAccess and changeAccessRole on
\* the active grant of one user in one system.
SetGrant(u, s) ==
    /\ \E role \in Roles \cup {None} :
         /\ role # grants[u][s]
         /\ grants' = [grants EXCEPT ![u][s] = role]
    /\ UNCHANGED <<users, systems>>
    /\ WritesTables

-----------------------------------------------------------------------------

Arrive(r) ==
    \E s \in Systems :
      \/ \E u \in Users, uri \in Uris : StartAuthorize(r, u, s, uri)
      \/ \E c \in Codes, uri \in Uris : StartCodeGrant(r, s, c, uri)
      \/ \E t \in Tokens : StartRefreshGrant(r, s, t)
      \/ \E t \in Tokens : StartRevoke(r, s, t)

\* One more repository call of the handler serving r.
Proceed(r) ==
    \/ AuthUser(r) \/ AuthAccess(r) \/ CreateCode(r) \/ AuditAccess(r)
    \/ FindCode(r) \/ RevokeAll(r) \/ MarkUsed(r)
    \/ FindToken(r) \/ RevokeOld(r) \/ RevokeFamily(r) \/ AuditReuse(r)
    \/ LoadUser(r) \/ LoadAccess(r) \/ CreateToken(r) \/ AuditIssued(r)
    \/ FindForRevoke(r) \/ RevokeToken(r) \/ AuditLogout(r)

Tick ==
    \/ \E c \in Codes : ExpireCode(c)
    \/ \E t \in Tokens : ExpireToken(t)

Administer ==
    \/ \E u \in Users : SetUserActive(u) \/ SetMustChange(u)
    \/ \E s \in Systems : UpdateSystem(s)
    \/ \E u \in Users, s \in Systems : SetGrant(u, s)

Next ==
    \/ \E r \in Requests : Arrive(r) \/ Proceed(r) \/ Abort(r)
    \/ Tick
    \/ Administer

Spec == Init /\ [][Next]_vars

\* A started handler keeps running: the event loop resumes every settled
\* promise, and every repository call settles.
Fairness == \A r \in Requests : WF_vars(Proceed(r))
FairSpec == Spec /\ Fairness
=============================================================================
