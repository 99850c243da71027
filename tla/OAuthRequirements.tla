------------------------- MODULE OAuthRequirements -------------------------
(***************************************************************************)
(* What the OAuth core promises, stated over the state of OAuthTokens.     *)
(***************************************************************************)
EXTENDS OAuthTokens

IssuedCodes  == {c \in Codes : codes[c] # None}
IssuedTokens == {t \in Tokens : tokens[t] # None}

\* Every variable ranges over the rows and locals the handlers can produce.
TypeOK ==
    /\ users \in [Users -> [active : BOOLEAN, mustChange : BOOLEAN]]
    /\ systems \in [Systems -> [active : BOOLEAN, uris : SUBSET Uris]]
    /\ grants \in [Users -> [Systems -> Roles \cup {None}]]
    /\ codes \in [Codes -> CodeRows \cup {None}]
    /\ tokens \in [Tokens -> TokenRows \cup {None}]
    /\ audit \in SUBSET (AuditActions \X Items)
    /\ delivered \in SUBSET Items
    /\ req \in [Requests -> Locals]
    /\ origin \in [Tokens -> Items \cup {None}]
    /\ window \in [Requests -> SUBSET (Roles \cup {"active", "ready", "unspent"})]

-----------------------------------------------------------------------------
(* Promises kept under any interleaving and any number of failures *)

\* The two token tables, seen without time and redirect URIs, behave as the
\* book of TokenLedger: markUsed and revoke come before the insert in both
\* exchanges, an insert copies owner and family of what it was issued for, and
\* no handler ever makes a spent code or a revoked token usable again.
LedgerCodes ==
    [c \in Codes |->
       IF codes[c] = None THEN None
       ELSE [user |-> codes[c].user, system |-> codes[c].system,
             used |-> codes[c].used]]
LedgerTokens ==
    [t \in Tokens |->
       IF tokens[t] = None THEN None
       ELSE [user |-> tokens[t].user, system |-> tokens[t].system,
             family |-> tokens[t].family, revoked |-> tokens[t].revoked]]
Ledger == INSTANCE TokenLedger WITH codes <- LedgerCodes, tokens <- LedgerTokens
ASSUME LedgerNoneAssumption ==
    None \notin Ledger!CodeEntries \cup Ledger!TokenEntries
ImplementsLedger == Ledger!Spec

\* Following the family of any token leads to one root token, and from it to a
\* used code of the same user and the same system: no exchange moves a lineage
\* to another user or client, whatever request presents it.
Rooted(t) ==
    LET root == tokens[t].family IN
      /\ root \in IssuedTokens
      /\ tokens[root].family = root
      /\ origin[root] \in IssuedCodes
      /\ codes[origin[root]].used
      /\ tokens[t].user = codes[origin[root]].user
      /\ tokens[t].system = codes[origin[root]].system
LineageRooted == \A t \in IssuedTokens : Rooted(t)

\* What a handler has learnt from the tables and acts on after later awaits is
\* still true when it acts: the item it serves exists and belongs to the user
\* and client it works for, and is spent before anything is issued for it.
\* This holds because those columns never change, not because the rows are
\* locked; it is also the inductive core of the proofs.
Exists(i) == i \in Items /\ IF i \in Codes THEN codes[i] # None ELSE tokens[i] # None
Spent(i)  == IF i \in Codes THEN codes[i].used ELSE tokens[i].revoked
Owner(i)  == IF i \in Codes THEN <<codes[i].user, codes[i].system>>
                            ELSE <<tokens[i].user, tokens[i].system>>
StaysTrue(q) ==
    /\ q.user # None => q.sys \in Systems
    /\ q.pc \in {"authUser", "authAccess", "createCode"} =>
          q.user \in Users /\ q.uri \in Uris
    /\ q.pc \in {"findCode", "findToken", "findForRevoke", "revokeAll", "revokeFamily"} =>
          Exists(q.item) /\ q.sys \in Systems
    /\ q.pc \in {"revokeOld", "loadUser", "loadAccess", "markUsed", "createToken"} =>
          Exists(q.item) /\ q.user \in Users /\ Owner(q.item) = <<q.user, q.sys>>
    /\ q.pc \in {"auditAccess", "auditIssued", "auditReuse", "revokeToken", "auditLogout"} =>
          Exists(q.item)
    /\ q.pc \in {"auditAccess", "findCode", "revokeAll", "markUsed"} => q.item \in Codes
    /\ q.pc \in {"findToken", "revokeOld", "revokeFamily", "auditIssued",
                 "findForRevoke", "revokeToken", "auditLogout"} => q.item \in Tokens
    /\ q.pc \in {"loadUser", "loadAccess"} /\ q.item \in Tokens => Spent(q.item)
    /\ q.pc = "createToken" => Spent(q.item)
    /\ q.pc \in {"createCode", "markUsed", "createToken"} => q.role \in Roles
LocalsStayTrue ==
    /\ \A r \in Requests : StaysTrue(req[r])
    /\ \A i \in delivered : Exists(i)

\* At the moment a handler inserts a code or a token, the user had been active,
\* and had held the very role put into the answer, while that handler ran; for
\* a code, the temporary password had also been replaced. The reads are not
\* atomic, so this is the most the code can promise about later changes.
NoIssueWithoutEntitlement ==
    \A r \in Requests :
      /\ req[r].pc \in {"markUsed", "createToken"} =>
            {"active", req[r].role} \subseteq window[r]
      /\ req[r].pc = "createCode" =>
            {"active", "ready", req[r].role} \subseteq window[r]

\* A handler on its way to issue a token looked its code or refresh token up
\* while nobody had used or revoked it.  The row may be spent by another handler
\* since, as nothing is locked (OAuthBurnRace); but whoever looks after the first
\* has spent it gets nothing, so that a second exchange of one code or token is
\* always one that overlapped the first.  Of a code, the request has also
\* repeated the redirect URI and the client it was issued for.
Issuing == {"revokeOld", "loadUser", "loadAccess", "markUsed", "createToken"}
RedeemedAsIssued ==
    \A r \in Requests : req[r].pc \in Issuing =>
      /\ "unspent" \in window[r]
      /\ req[r].item \in Codes =>
           LET code == codes[req[r].item] IN
             /\ code.system = req[r].sys
             /\ code.uri = req[r].uri
             /\ code.user = req[r].user
             /\ <<"SYSTEM_ACCESS", req[r].item>> \in audit

\* Nothing reaches a client before its audit row is stored.
AuditedBeforeDelivered ==
    \A i \in delivered :
      <<IF i \in Codes THEN "SYSTEM_ACCESS" ELSE "TOKEN_ISSUED", i>> \in audit

\* A handler that has been started sends its answer or dies, whatever branch it
\* takes and whatever the administrators have done to its rows.
EveryRequestEnds ==
    \A r \in Requests : ~At(r, "idle") ~> At(r, "idle")

-----------------------------------------------------------------------------
(* Promises kept as long as requests about a lineage do not overlap *)

\* A code or a refresh token is exchanged at most once.
ExchangedOnce(items) ==
    \A t1, t2 \in IssuedTokens :
      origin[t1] = origin[t2] /\ origin[t1] \in items => t1 = t2

\* "codigo de uso unico" (prisma/schema.prisma, AuthorizationCode).
CodeSingleUse == ExchangedOnce(Codes)

\* "Rotacionado a cada uso; nunca reaproveitado" (docs/SEGURANCA.md).
TokenSingleUse == ExchangedOnce(Tokens)

\* The tokens an item stands for: the whole family of a token, the families
\* started from a code.
Lineage(i) ==
    {t \in IssuedTokens : IF i \in Codes THEN origin[tokens[t].family] = i
                          ELSE tokens[t].family = tokens[i].family}

\* No token of the lineage of an item recorded with that action is usable, then or later.
DeadOnceRecorded(action) ==
    \A i \in Items : <<action, i>> \in audit =>
      \A t \in Lineage(i) : tokens[t].revoked

\* Once reuse of a code or token has been acted on and recorded, its lineage is
\* dead: "Revoga preventivamente qualquer refresh token ativo", "Revoga a linhagem
\* INTEIRA" (src/services/oauth.service.ts:113, 178).
BurnedLineageStaysDead == DeadOnceRecorded("ACCESS_REVOKED")

\* The second case alone, a refresh token presented again (exchangeRefreshToken).
BurnedFamilyStaysDead ==
    \A i \in Tokens : <<"ACCESS_REVOKED", i>> \in audit =>
      \A t \in Lineage(i) : tokens[t].revoked

\* The same once a logout was recorded (revokeRefreshToken).
LoggedOutLineageStaysDead == DeadOnceRecorded("LOGOUT")
=============================================================================
