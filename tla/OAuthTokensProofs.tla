------------------------- MODULE OAuthTokensProofs -------------------------
(***************************************************************************)
(* Proofs about the OAuth core for any sets of users, systems, URIs,       *)
(* roles, codes and tokens, and any number of requests in flight: types,   *)
(* what handlers know, and from that who is served, with what audit row    *)
(* and for which code; then that the handlers implement the book of codes  *)
(* and tokens (TokenLedger), and inherit what is proved about it.          *)
(***************************************************************************)
EXTENDS OAuthRequirements, TLAPS

USE DisjointAssumption, NoneAssumption

\* An inserted code or token stays, keeps its owner and family, and stays spent.
RowsKept ==
    /\ \A i \in Items : Exists(i) => /\ Exists(i)'
                                     /\ Owner(i)' = Owner(i)
                                     /\ Spent(i) => Spent(i)'
    /\ \A t \in IssuedTokens : /\ tokens'[t].family = tokens[t].family
                               /\ origin'[t] = origin[t]

IInv == TypeOK /\ LocalsStayTrue

LEMMA IdleTyped == Idle \in Locals /\ StaysTrue(Idle)
BY DEF Idle, Locals, Pcs, AuthorizePcs, TokenPcs, ReusePcs, RevokePcs, StaysTrue

\* The same, row by row.
CodeKept(c) ==
    codes[c] # None => /\ codes'[c] # None
                       /\ codes'[c].user = codes[c].user
                       /\ codes'[c].system = codes[c].system
                       /\ codes[c].used => codes'[c].used
TokenKept(t) ==
    tokens[t] # None => /\ tokens'[t] # None
                        /\ tokens'[t].user = tokens[t].user
                        /\ tokens'[t].system = tokens[t].system
                        /\ tokens'[t].family = tokens[t].family
                        /\ tokens[t].revoked => tokens'[t].revoked
                        /\ origin'[t] = origin[t]

LEMMA RowByRow ==
    ASSUME \A c \in Codes : CodeKept(c), \A t \in Tokens : TokenKept(t)
    PROVE  RowsKept
<1>1. ASSUME NEW i \in Items, Exists(i)
      PROVE  Exists(i)' /\ Owner(i)' = Owner(i) /\ (Spent(i) => Spent(i)')
  <2>1. CASE i \in Codes
    BY <1>1, <2>1 DEF CodeKept, Exists, Owner, Spent
  <2>2. CASE i \notin Codes
    BY <1>1, <2>2 DEF TokenKept, Exists, Owner, Spent, Items
  <2>3. QED
    BY <2>1, <2>2
<1>2. QED
  BY <1>1 DEF RowsKept, TokenKept, IssuedTokens

LEMMA SameRows ==
    ASSUME UNCHANGED <<codes, tokens, origin>> PROVE RowsKept
BY RowByRow DEF CodeKept, TokenKept

\* Every step that revokes does it to a set of existing tokens and to no other
\* column.
Revokes(S) ==
    tokens' = [t \in Tokens |-> IF tokens[t] # None /\ t \in S
                               THEN [tokens[t] EXCEPT !.revoked = TRUE]
                               ELSE tokens[t]]

LEMMA RevokingSteps ==
    ASSUME IInv, NEW r \in Requests,
           RevokeOld(r) \/ RevokeToken(r) \/ RevokeFamily(r) \/ RevokeAll(r)
    PROVE  /\ UNCHANGED <<codes, origin>>
           /\ \E S \in SUBSET Tokens : Revokes(S)
<1>1. CASE RevokeOld(r) \/ RevokeToken(r)
  <2>1. /\ req[r].item \in Tokens /\ tokens[req[r].item] # None
        /\ tokens' = [tokens EXCEPT ![req[r].item].revoked = TRUE]
        /\ UNCHANGED <<codes, origin>>
    BY <1>1 DEF RevokeOld, RevokeToken, At, IInv, LocalsStayTrue, StaysTrue, Exists,
                WritesTokens, tables
  <2>2. Revokes({req[r].item})
    BY <2>1 DEF Revokes, IInv, TypeOK
  <2>3. QED
    BY <2>1, <2>2
<1>2. CASE RevokeFamily(r)
  <2>1. Revokes({t \in Tokens : tokens[t].family = tokens[req[r].item].family})
    BY <1>2 DEF RevokeFamily, Revokes
  <2>2. QED
    BY <1>2, <2>1 DEF RevokeFamily, WritesTokens, tables
<1>3. CASE RevokeAll(r)
  <2>1. Revokes({t \in Tokens : /\ tokens[t].user = codes[req[r].item].user
                               /\ tokens[t].system = codes[req[r].item].system})
    BY <1>3 DEF RevokeAll, Revokes
  <2>2. QED
    BY <1>3, <2>1 DEF RevokeAll, WritesTokens, tables
<1>4. QED
  BY <1>1, <1>2, <1>3

\* Every write of a handler, and every tick, keeps the rows that exist.
LEMMA StepKeepsRows == ASSUME IInv, [Next]_vars PROVE RowsKept
<1> USE DEF IInv, TypeOK
<1>1. CASE UNCHANGED <<codes, tokens, origin>>
  BY <1>1, SameRows
<1>2. ASSUME NEW r \in Requests, CreateCode(r) PROVE RowsKept
  BY <1>2, RowByRow DEF CreateCode, WritesCodes, tables, CodeKept, TokenKept
<1>3. ASSUME NEW r \in Requests, MarkUsed(r) PROVE RowsKept
  <2>1. \A c \in Codes : CodeKept(c)
    <3> SUFFICES ASSUME NEW c \in Codes, codes[c] # None PROVE CodeKept(c)
      BY DEF CodeKept
    <3>1. codes[c] \in CodeRows
      OBVIOUS
    <3>2. codes'[c] = IF c = req[r].item THEN [codes[c] EXCEPT !.used = TRUE]
                      ELSE codes[c]
      BY <1>3 DEF MarkUsed
    <3>3. codes'[c] \in CodeRows
      BY <3>1, <3>2 DEF CodeRows
    <3>4. /\ codes'[c].user = codes[c].user /\ codes'[c].system = codes[c].system
          /\ codes[c].used => codes'[c].used
      BY <3>1, <3>2 DEF CodeRows
    <3>5. QED
      BY <3>3, <3>4 DEF CodeKept
  <2>2. QED
    BY <1>3, <2>1, RowByRow DEF MarkUsed, WritesCodes, tables, TokenKept
<1>4. ASSUME NEW r \in Requests,
             RevokeOld(r) \/ RevokeToken(r) \/ RevokeFamily(r) \/ RevokeAll(r)
      PROVE RowsKept
  <2>1. PICK S \in SUBSET Tokens : Revokes(S)
    BY <1>4, RevokingSteps
  <2>2. UNCHANGED <<codes, origin>>
    BY <1>4, RevokingSteps
  <2>3. \A t \in Tokens : TokenKept(t)
    BY <2>1, <2>2 DEF Revokes, TokenKept, TokenRows
  <2>4. QED
    BY <2>2, <2>3, RowByRow DEF CodeKept
<1>5. ASSUME NEW r \in Requests, CreateToken(r) PROVE RowsKept
  BY <1>5, RowByRow DEF CreateToken, WritesTokens, tables, CodeKept, TokenKept
<1>9. ASSUME NEW c \in Codes, ExpireCode(c) PROVE RowsKept
  <2>1. \A x \in Codes : CodeKept(x)
    <3> SUFFICES ASSUME NEW x \in Codes, codes[x] # None PROVE CodeKept(x)
      BY DEF CodeKept
    <3>1. codes[x] \in CodeRows
      OBVIOUS
    <3>2. codes'[x] = IF x = c THEN [codes[x] EXCEPT !.expired = TRUE] ELSE codes[x]
      BY <1>9 DEF ExpireCode
    <3>3. codes'[x] \in CodeRows
      <4>1. PICK row \in CodeRows : row = codes[x]
        BY <3>1
      <4>2. [row EXCEPT !.expired = TRUE] \in CodeRows
        BY DEF CodeRows
      <4>3. QED
        BY <3>2, <4>1, <4>2
    <3>4. /\ codes'[x].user = codes[x].user /\ codes'[x].system = codes[x].system
          /\ codes[x].used => codes'[x].used
      BY <3>1, <3>2 DEF CodeRows
    <3>5. QED
      BY <3>3, <3>4 DEF CodeKept
  <2>2. QED
    BY <1>9, <2>1, RowByRow DEF ExpireCode, WritesCodes, tables, TokenKept
<1>10. ASSUME NEW t \in Tokens, ExpireToken(t) PROVE RowsKept
  <2>1. \A x \in Tokens : TokenKept(x)
    BY <1>10 DEF ExpireToken, TokenKept, TokenRows
  <2>2. QED
    BY <1>10, <2>1, RowByRow DEF ExpireToken, WritesTokens, tables, CodeKept
<1>11. ASSUME NEW r \in Requests, Arrive(r) PROVE RowsKept
  BY <1>1, <1>11 DEF Arrive, StartAuthorize, StartCodeGrant, StartRefreshGrant,
                     StartRevoke, NoWrite, tables
<1>12. ASSUME NEW r \in Requests,
              \/ AuthUser(r) \/ AuthAccess(r) \/ AuditAccess(r) \/ FindCode(r)
              \/ FindToken(r) \/ AuditReuse(r) \/ LoadUser(r) \/ LoadAccess(r)
              \/ AuditIssued(r) \/ FindForRevoke(r) \/ AuditLogout(r) \/ Abort(r)
       PROVE RowsKept
  <2>1. UNCHANGED <<codes, tokens, origin>>
    BY <1>12 DEF AuthUser, AuthAccess, AuditAccess, FindCode, FindToken, AuditReuse,
                 LoadUser, LoadAccess, AuditIssued, FindForRevoke, AuditLogout,
                 Abort, NoWrite, WritesAudit, tables
  <2>2. QED
    BY <1>1, <2>1
<1>13. CASE Administer
  <2>1. UNCHANGED <<codes, tokens, origin>>
    BY <1>13 DEF Administer, SetUserActive, SetMustChange, UpdateSystem, SetGrant,
                 WritesTables
  <2>2. QED
    BY <1>1, <2>1
<1>14. CASE UNCHANGED vars
  BY <1>1, <1>14 DEF vars
<1>15. QED
  BY <1>2, <1>3, <1>4, <1>5, <1>9, <1>10, <1>11, <1>12, <1>13,
     <1>14 DEF Next, Proceed, Tick

-----------------------------------------------------------------------------
(* What the handlers know *)

\* As long as rows are kept, what was true of a handler's locals stays true.
LEMMA KnowledgeKept ==
    ASSUME RowsKept, NEW q \in Locals, StaysTrue(q) PROVE StaysTrue(q)'
<1>1. Exists(q.item) => /\ Exists(q.item)'
                        /\ Owner(q.item)' = Owner(q.item)
                        /\ Spent(q.item) => Spent(q.item)'
  BY DEF RowsKept, Exists
<1>2. QED
  BY <1>1 DEF StaysTrue

\* A step that moves request r to the locals q.
MovesTo(r, q) == q \in Locals /\ req' = [req EXCEPT ![r] = q]

\* The locals stay locals when a handler goes on with a user or a role it read.
LEMMA LocalsUpdated ==
    ASSUME NEW l \in Locals, NEW pc \in Pcs,
           NEW user \in Users \cup {None}, NEW role \in Roles \cup {None}
    PROVE  /\ [l EXCEPT !.pc = pc, !.user = user] \in Locals
           /\ [l EXCEPT !.pc = pc, !.role = role] \in Locals
BY DEF Locals

\* Each step of a handler leaves it with locals that are true afterwards.
LEMMA HandlerStep ==
    ASSUME IInv, RowsKept, NEW r \in Requests, Arrive(r) \/ Proceed(r) \/ Abort(r)
    PROVE  \E q : MovesTo(r, q) /\ StaysTrue(q)'
<1> DEFINE Good == \E q : MovesTo(r, q) /\ StaysTrue(q)'
<1>i. req[r] \in Locals /\ StaysTrue(req[r])
  BY DEF IInv, TypeOK, LocalsStayTrue
<1>j. ASSUME NEW q, MovesTo(r, q), StaysTrue(q) PROVE Good
  BY <1>j, KnowledgeKept DEF MovesTo
<1>k. ASSUME Finish(r) PROVE Good
  BY <1>j, <1>k, IdleTyped DEF Finish, MovesTo
<1> USE DEF Locals, Pcs, AuthorizePcs, TokenPcs, ReusePcs, RevokePcs, Items
<1>1. ASSUME NEW s \in Systems, NEW u \in Users, NEW uri \in Uris,
             StartAuthorize(r, u, s, uri)
      PROVE Good
  BY <1>1, <1>j DEF StartAuthorize, MovesTo, StaysTrue, Idle
<1>2. ASSUME NEW s \in Systems, NEW c \in Codes, NEW uri \in Uris,
             StartCodeGrant(r, s, c, uri)
      PROVE Good
  <2>1. Exists(c)
    BY <1>2 DEF StartCodeGrant, IInv, LocalsStayTrue
  <2>2. QED
    BY <1>2, <1>j, <2>1 DEF StartCodeGrant, MovesTo, StaysTrue, Idle
<1>3. ASSUME NEW s \in Systems, NEW t \in Tokens,
             StartRefreshGrant(r, s, t) \/ StartRevoke(r, s, t)
      PROVE Good
  <2>1. Exists(t)
    BY <1>3 DEF StartRefreshGrant, StartRevoke, IInv, LocalsStayTrue
  <2>2. CASE StartRefreshGrant(r, s, t)
    BY <2>2, <1>j, <2>1 DEF StartRefreshGrant, MovesTo, StaysTrue, Idle
  <2>3. CASE StartRevoke(r, s, t)
    BY <2>3, <1>j, <2>1 DEF StartRevoke, MovesTo, StaysTrue, Idle
  <2>4. QED
    BY <1>3, <2>2, <2>3
<1>4. ASSUME AuthUser(r) PROVE Good
  <2>1. At(r, "authUser") /\ (Finish(r) \/ Goto(r, "authAccess"))
    BY <1>4 DEF AuthUser
  <2>2. QED
    BY <2>1, <1>i, <1>j, <1>k DEF At, Goto, MovesTo, StaysTrue
<1>5. ASSUME AuthAccess(r) PROVE Good
  <2>1. CASE Finish(r)
    BY <2>1, <1>k
  <2>2. CASE ~Finish(r)
    <3>1. PICK role \in Roles :
            req' = [req EXCEPT ![r].pc = "createCode", ![r].role = role]
      BY <1>5, <2>2, <1>i DEF AuthAccess, At, IInv, TypeOK, StaysTrue
    <3>2. DEFINE q == [req[r] EXCEPT !.pc = "createCode", !.role = role]
    <3>3. MovesTo(r, q)
      <4>1. q \in Locals
        <5>1. "createCode" \in Pcs
          OBVIOUS
        <5> HIDE DEF Locals, Pcs
        <5>2. QED
          BY <1>i, <3>1, <5>1, LocalsUpdated
      <4>2. req' = [req EXCEPT ![r] = q]
        BY <3>1, <1>i DEF IInv, TypeOK
      <4>3. QED
        BY <4>1, <4>2 DEF MovesTo
    <3>4. StaysTrue(q)
      BY <1>5, <1>i DEF AuthAccess, At, StaysTrue
    <3>5. QED
      BY <3>3, <3>4, <1>j
  <2>3. QED
    BY <2>1, <2>2
<1>6. ASSUME CreateCode(r) PROVE Good
  <2> DEFINE row == [user |-> req[r].user, system |-> req[r].sys,
                     uri |-> req[r].uri, expired |-> FALSE, used |-> FALSE]
  <2>0. row \in CodeRows
    BY <1>6, <1>i DEF CreateCode, At, StaysTrue, CodeRows
  <2>1. PICK c \in Codes : codes'[c] # None /\ GotoWith(r, "auditAccess", c)
    <3>1. PICK c \in Codes : codes' = [codes EXCEPT ![c] = row]
                            /\ GotoWith(r, "auditAccess", c)
      BY <1>6 DEF CreateCode
    <3>2. codes'[c] = row
      BY <3>1 DEF IInv, TypeOK
    <3>3. QED
      BY <3>1, <3>2, <2>0
  <2>2. Exists(c)'
    BY <2>1 DEF Exists
  <2>3. PICK q \in Locals : q = [Idle EXCEPT !.pc = "auditAccess", !.item = c]
    BY DEF Idle
  <2>4. MovesTo(r, q)
    BY <2>1, <2>3 DEF GotoWith, MovesTo
  <2>5. StaysTrue(q)'
    BY <2>2, <2>3 DEF StaysTrue, Idle
  <2>6. QED
    BY <2>4, <2>5
<1>7. ASSUME AuditAccess(r) \/ AuditReuse(r) \/ AuditIssued(r) \/ AuditLogout(r) \/ Abort(r)
      PROVE Good
  BY <1>7, <1>k DEF AuditAccess, AuditReuse, AuditIssued, AuditLogout, Abort
<1>8. ASSUME FindCode(r) PROVE Good
  <2> DEFINE row == codes[req[r].item]
  <2>1. row \in CodeRows /\ req[r].item \in Codes /\ Exists(req[r].item)
    BY <1>8, <1>i DEF FindCode, At, StaysTrue, Exists, IInv, TypeOK
  <2>2. CASE Finish(r)
    BY <2>2, <1>k
  <2>3. CASE Goto(r, "revokeAll")
    BY <1>8, <2>1, <2>3, <1>i, <1>j DEF FindCode, At, Goto, MovesTo, StaysTrue
  <2>4. CASE /\ row.system = req[r].sys
             /\ req' = [req EXCEPT ![r].pc = "loadUser", ![r].user = row.user]
    <3>1. row.user \in Users /\ row.system \in Systems
      BY <2>1 DEF CodeRows
    <3>2. Owner(req[r].item) = <<row.user, req[r].sys>>
      BY <2>1, <2>4 DEF Owner
    <3>3. DEFINE q == [req[r] EXCEPT !.pc = "loadUser", !.user = row.user]
    <3>4. MovesTo(r, q)
      <4>1. "loadUser" \in Pcs
        OBVIOUS
      <4>2. q \in Locals
        <5> HIDE DEF Locals, Pcs, row
        <5>1. QED
          BY <1>i, <3>1, <4>1, LocalsUpdated
      <4>3. req' = [req EXCEPT ![r] = q]
        BY <2>4, <1>i DEF IInv, TypeOK
      <4>4. QED
        BY <4>2, <4>3 DEF MovesTo
    <3>5. StaysTrue(q)
      BY <1>8, <1>i, <2>1, <2>4, <3>1, <3>2 DEF FindCode, At, StaysTrue
    <3>6. QED
      BY <3>4, <3>5, <1>j
  <2>5. QED
    BY <1>8, <2>2, <2>3, <2>4 DEF FindCode, CodeVerdict
<1>9. ASSUME RevokeAll(r) \/ RevokeFamily(r) PROVE Good
  <2>1. GotoWith(r, "auditReuse", req[r].item) /\ Exists(req[r].item)
    BY <1>9, <1>i DEF RevokeAll, RevokeFamily, At, StaysTrue
  <2>2. QED
    BY <2>1, <1>j DEF GotoWith, MovesTo, StaysTrue, Idle, Exists
<1>10. ASSUME MarkUsed(r) PROVE Good
  <2>1. req[r].item \in Codes /\ Exists(req[r].item)
    BY <1>10, <1>i DEF MarkUsed, At, StaysTrue
  <2>2. codes[req[r].item] \in CodeRows
    BY <2>1 DEF Exists, IInv, TypeOK
  <2>3. codes'[req[r].item].used
    BY <1>10, <2>1, <2>2 DEF MarkUsed, CodeRows, IInv, TypeOK
  <2>4. PICK q \in Locals, c \in Codes :
          q = [req[r] EXCEPT !.pc = "createToken"] /\ c = req[r].item
    BY <1>i, <2>1
  <2>5. MovesTo(r, q)
    BY <1>10, <2>4, <1>i DEF MarkUsed, Goto, MovesTo
  <2>6. q.item = c /\ Exists(c)' /\ Owner(c)' = <<q.user, q.sys>> /\ Spent(c)'
    <3>1. q.item = c /\ Exists(c) /\ Owner(c) = <<q.user, q.sys>>
      BY <1>10, <1>i, <2>1, <2>4 DEF MarkUsed, At, StaysTrue
    <3>2. Spent(c)'
      BY <2>3, <2>4 DEF Spent
    <3>3. QED
      BY <3>1, <3>2 DEF RowsKept, Exists
  <2>7. StaysTrue(q)'
    BY <1>10, <1>i, <2>4, <2>6 DEF MarkUsed, At, StaysTrue
  <2>8. QED
    BY <2>5, <2>7
<1>11. ASSUME FindToken(r) PROVE Good
  <2> DEFINE row == tokens[req[r].item]
  <2>1. row \in TokenRows /\ req[r].item \in Tokens /\ Exists(req[r].item)
    BY <1>11, <1>i DEF FindToken, At, StaysTrue, Exists, IInv, TypeOK
  <2>2. CASE Finish(r)
    BY <2>2, <1>k
  <2>3. CASE Goto(r, "revokeFamily")
    BY <1>11, <2>1, <2>3, <1>i, <1>j DEF FindToken, At, Goto, MovesTo, StaysTrue
  <2>4. CASE /\ row.system = req[r].sys
             /\ req' = [req EXCEPT ![r].pc = "revokeOld", ![r].user = row.user]
    <3>1. row.user \in Users /\ row.system \in Systems
      BY <2>1 DEF TokenRows
    <3>2. Owner(req[r].item) = <<row.user, req[r].sys>>
      BY <2>1, <2>4 DEF Owner
    <3>3. DEFINE q == [req[r] EXCEPT !.pc = "revokeOld", !.user = row.user]
    <3>4. MovesTo(r, q)
      <4>1. "revokeOld" \in Pcs
        OBVIOUS
      <4>2. q \in Locals
        <5> HIDE DEF Locals, Pcs, row
        <5>1. QED
          BY <1>i, <3>1, <4>1, LocalsUpdated
      <4>3. req' = [req EXCEPT ![r] = q]
        BY <2>4, <1>i DEF IInv, TypeOK
      <4>4. QED
        BY <4>2, <4>3 DEF MovesTo
    <3>5. StaysTrue(q)
      BY <1>11, <1>i, <2>1, <2>4, <3>1, <3>2 DEF FindToken, At, StaysTrue
    <3>6. QED
      BY <3>4, <3>5, <1>j
  <2>5. QED
    BY <1>11, <2>2, <2>3, <2>4 DEF FindToken, TokenVerdict
<1>12. ASSUME RevokeOld(r) PROVE Good
  <2>1. req[r].item \in Tokens /\ Exists(req[r].item)
    BY <1>12, <1>i DEF RevokeOld, At, StaysTrue
  <2>2. tokens[req[r].item] \in TokenRows
    BY <2>1 DEF Exists, IInv, TypeOK
  <2>3. tokens'[req[r].item].revoked
    BY <1>12, <2>1, <2>2 DEF RevokeOld, TokenRows, IInv, TypeOK
  <2>4. PICK q \in Locals, t \in Tokens :
          q = [req[r] EXCEPT !.pc = "loadUser"] /\ t = req[r].item
    BY <1>i, <2>1
  <2>5. MovesTo(r, q)
    BY <1>12, <2>4, <1>i DEF RevokeOld, Goto, MovesTo
  <2>6. q.item = t /\ Exists(t)' /\ Owner(t)' = <<q.user, q.sys>> /\ Spent(t)'
    <3>1. q.item = t /\ Exists(t) /\ Owner(t) = <<q.user, q.sys>>
      BY <1>12, <1>i, <2>1, <2>4 DEF RevokeOld, At, StaysTrue
    <3>2. Spent(t)'
      BY <2>3, <2>4 DEF Spent
    <3>3. QED
      BY <3>1, <3>2 DEF RowsKept, Exists
  <2>7. StaysTrue(q)'
    BY <1>12, <1>i, <2>1, <2>4, <2>6 DEF RevokeOld, At, StaysTrue
  <2>8. QED
    BY <2>5, <2>7
<1>13. ASSUME LoadUser(r) PROVE Good
  <2>1. At(r, "loadUser") /\ (Finish(r) \/ Goto(r, "loadAccess"))
    BY <1>13 DEF LoadUser
  <2>2. QED
    BY <2>1, <1>i, <1>j, <1>k DEF At, Goto, MovesTo, StaysTrue
<1>14. ASSUME LoadAccess(r) PROVE Good
  <2>1. CASE Finish(r)
    BY <2>1, <1>k
  <2>2. CASE ~Finish(r)
    <3> DEFINE next == IF req[r].item \in Codes THEN "markUsed" ELSE "createToken"
    <3>1. PICK role \in Roles :
            req' = [req EXCEPT ![r].pc = next, ![r].role = role]
      BY <1>14, <2>2, <1>i DEF LoadAccess, At, IInv, TypeOK, StaysTrue, Owner
    <3>2. DEFINE q == [req[r] EXCEPT !.pc = next, !.role = role]
    <3>3. MovesTo(r, q)
      <4>1. q \in Locals
        <5>1. next \in Pcs
          OBVIOUS
        <5> HIDE DEF next, Locals, Pcs
        <5>2. QED
          BY <1>i, <3>1, <5>1, LocalsUpdated
      <4>2. req' = [req EXCEPT ![r] = q]
        BY <3>1, <1>i DEF IInv, TypeOK
      <4>3. QED
        BY <4>1, <4>2 DEF MovesTo
    <3>4. StaysTrue(q)
      BY <1>14, <1>i DEF LoadAccess, At, StaysTrue, Exists
    <3>5. QED
      BY <3>3, <3>4, <1>j
  <2>3. QED
    BY <2>1, <2>2
<1>15. ASSUME CreateToken(r) PROVE Good
  <2>1. PICK t \in Tokens : tokens'[t] # None /\ GotoWith(r, "auditIssued", t)
    <3>1. PICK t \in Tokens :
            /\ tokens'[t].revoked = FALSE /\ tokens'[t] \in TokenRows
            /\ GotoWith(r, "auditIssued", t)
      BY <1>15, <1>i DEF CreateToken, IInv, TypeOK, At, StaysTrue, TokenRows, Exists, Owner
    <3>2. QED
      BY <3>1
  <2>2. Exists(t)' /\ t \notin Codes
    BY <2>1 DEF Exists
  <2>3. PICK q \in Locals : q = [Idle EXCEPT !.pc = "auditIssued", !.item = t]
    BY DEF Idle
  <2>4. MovesTo(r, q)
    BY <2>1, <2>3 DEF GotoWith, MovesTo
  <2>5. StaysTrue(q)'
    BY <2>2, <2>3 DEF StaysTrue, Idle
  <2>6. QED
    BY <2>4, <2>5
<1>16. ASSUME FindForRevoke(r) PROVE Good
  <2>1. At(r, "findForRevoke") /\ (Finish(r) \/ GotoWith(r, "revokeToken", req[r].item))
    BY <1>16 DEF FindForRevoke
  <2>2. QED
    BY <2>1, <1>i, <1>j, <1>k DEF At, GotoWith, MovesTo, StaysTrue, Idle
<1>17. ASSUME RevokeToken(r) PROVE Good
  <2>1. At(r, "revokeToken") /\ Goto(r, "auditLogout")
    BY <1>17 DEF RevokeToken
  <2>2. QED
    BY <2>1, <1>i, <1>j DEF At, Goto, MovesTo, StaysTrue
<1>18. QED
  BY <1>1, <1>2, <1>3, <1>4, <1>5, <1>6, <1>7, <1>8, <1>9, <1>10, <1>11, <1>12,
     <1>13, <1>14, <1>15, <1>16, <1>17 DEF Arrive, Proceed

-----------------------------------------------------------------------------
(* The inductive invariant *)

\* Tables the handlers only read.
TablesTyped ==
    /\ users \in [Users -> [active : BOOLEAN, mustChange : BOOLEAN]]
    /\ systems \in [Systems -> [active : BOOLEAN, uris : SUBSET Uris]]
    /\ grants \in [Users -> [Systems -> Roles \cup {None}]]

LEMMA TablesKept ==
    ASSUME TablesTyped, \/ Administer \/ UNCHANGED tables
    PROVE  TablesTyped'
<1> USE DEF TablesTyped
<1>1. ASSUME NEW u \in Users, SetUserActive(u) PROVE TablesTyped'
  <2>1. [users[u] EXCEPT !.active = ~users[u].active]
           \in [active : BOOLEAN, mustChange : BOOLEAN]
    OBVIOUS
  <2>2. users' = [users EXCEPT ![u] = [users[u] EXCEPT !.active = ~users[u].active]]
    BY <1>1 DEF SetUserActive
  <2>3. QED
    BY <1>1, <2>1, <2>2 DEF SetUserActive
<1>2. ASSUME NEW u \in Users, SetMustChange(u) PROVE TablesTyped'
  BY <1>2 DEF SetMustChange
<1>3. ASSUME NEW s \in Systems, UpdateSystem(s) PROVE TablesTyped'
  BY <1>3 DEF UpdateSystem
<1>4. ASSUME NEW u \in Users, NEW s \in Systems, SetGrant(u, s) PROVE TablesTyped'
  <2>1. PICK role \in Roles \cup {None} :
          grants' = [grants EXCEPT ![u] = [grants[u] EXCEPT ![s] = role]]
    BY <1>4 DEF SetGrant
  <2>2. [grants[u] EXCEPT ![s] = role] \in [Systems -> Roles \cup {None}]
    OBVIOUS
  <2>3. QED
    BY <1>4, <2>1, <2>2 DEF SetGrant
<1>5. CASE UNCHANGED tables
  BY <1>5 DEF tables
<1>6. QED
  BY <1>1, <1>2, <1>3, <1>4, <1>5 DEF Administer

\* Only Administer writes those tables, and it writes nothing else.
LEMMA WhoWritesTables ==
    ASSUME [Next]_vars
    PROVE  \/ Administer /\ UNCHANGED <<codes, tokens, audit, delivered, req, origin>>
           \/ UNCHANGED tables
<1>1. ASSUME NEW r \in Requests, Arrive(r) PROVE UNCHANGED tables
  BY <1>1 DEF Arrive, StartAuthorize, StartCodeGrant, StartRefreshGrant, StartRevoke,
              NoWrite
<1>2. ASSUME NEW r \in Requests, Proceed(r) PROVE UNCHANGED tables
  BY <1>2 DEF Proceed, AuthUser, AuthAccess, CreateCode, AuditAccess, FindCode,
              RevokeAll, MarkUsed, FindToken, RevokeOld, RevokeFamily, AuditReuse,
              LoadUser, LoadAccess, CreateToken, AuditIssued, FindForRevoke,
              RevokeToken, AuditLogout, NoWrite, WritesCodes, WritesTokens, WritesAudit
<1>3. ASSUME NEW r \in Requests, Abort(r) PROVE UNCHANGED tables
  BY <1>3 DEF Abort, NoWrite
<1>4. CASE Tick
  BY <1>4 DEF Tick, ExpireCode, ExpireToken, WritesCodes, WritesTokens
<1>5. CASE Administer
  BY <1>5 DEF Administer, SetUserActive, SetMustChange, UpdateSystem, SetGrant, WritesTables
<1>6. CASE UNCHANGED vars
  BY <1>6 DEF vars, tables
<1>7. QED
  BY <1>1, <1>2, <1>3, <1>4, <1>5, <1>6 DEF Next

\* Rows that are written are well-typed rows.
RowsTyped ==
    /\ codes \in [Codes -> CodeRows \cup {None}]
    /\ tokens \in [Tokens -> TokenRows \cup {None}]
    /\ origin \in [Tokens -> Items \cup {None}]

LEMMA RowsStayTyped == ASSUME IInv, [Next]_vars PROVE RowsTyped'
<1>0. RowsTyped
  BY DEF IInv, TypeOK, RowsTyped
<1>1. CASE UNCHANGED <<codes, tokens, origin>>
  BY <1>0, <1>1 DEF RowsTyped
<1>2. ASSUME NEW r \in Requests, CreateCode(r) PROVE RowsTyped'
  <2>1. req[r].user \in Users /\ req[r].sys \in Systems /\ req[r].uri \in Uris
    BY <1>2 DEF CreateCode, At, IInv, LocalsStayTrue, StaysTrue
  <2>2. QED
    BY <1>0, <1>2, <2>1 DEF CreateCode, WritesCodes, RowsTyped, CodeRows
<1>3. ASSUME NEW r \in Requests, MarkUsed(r) PROVE RowsTyped'
  <2>1. req[r].item \in Codes /\ codes[req[r].item] \in CodeRows
    BY <1>3 DEF MarkUsed, At, IInv, TypeOK, LocalsStayTrue, StaysTrue, Exists
  <2>2. [codes[req[r].item] EXCEPT !.used = TRUE] \in CodeRows
    BY <2>1 DEF CodeRows
  <2>3. codes' = [codes EXCEPT ![req[r].item] =
                    [codes[req[r].item] EXCEPT !.used = TRUE]]
    BY <1>3 DEF MarkUsed
  <2>4. QED
    BY <1>0, <1>3, <2>1, <2>2, <2>3 DEF MarkUsed, WritesCodes, RowsTyped
<1>4. ASSUME NEW r \in Requests,
             RevokeOld(r) \/ RevokeToken(r) \/ RevokeFamily(r) \/ RevokeAll(r)
      PROVE RowsTyped'
  <2>1. PICK S \in SUBSET Tokens : Revokes(S)
    BY <1>4, RevokingSteps
  <2>2. UNCHANGED <<codes, origin>>
    BY <1>4, RevokingSteps
  <2>3. \A t \in Tokens : tokens[t] # None =>
                            [tokens[t] EXCEPT !.revoked = TRUE] \in TokenRows
    BY <1>0 DEF RowsTyped, TokenRows
  <2>4. QED
    BY <1>0, <2>1, <2>2, <2>3 DEF Revokes, RowsTyped
<1>5. ASSUME NEW r \in Requests, CreateToken(r) PROVE RowsTyped'
  <2>1. /\ req[r].user \in Users /\ req[r].sys \in Systems /\ req[r].item \in Items
        /\ req[r].item \notin Codes => tokens[req[r].item] \in TokenRows
    BY <1>5 DEF CreateToken, At, IInv, TypeOK, LocalsStayTrue, StaysTrue, Exists, Items
  <2>2. PICK t \in Tokens, family \in Tokens :
          /\ tokens' = [tokens EXCEPT ![t] =
                          [user |-> req[r].user, system |-> req[r].sys,
                           family |-> family, expired |-> FALSE, revoked |-> FALSE]]
          /\ origin' = [origin EXCEPT ![t] = req[r].item]
    BY <1>5, <2>1 DEF CreateToken, TokenRows
  <2>3. QED
    BY <1>0, <1>5, <2>1, <2>2 DEF CreateToken, WritesTokens, RowsTyped, TokenRows
<1>6. ASSUME NEW c \in Codes, ExpireCode(c) PROVE RowsTyped'
  BY <1>0, <1>6 DEF ExpireCode, WritesCodes, RowsTyped, CodeRows
<1>7. ASSUME NEW t \in Tokens, ExpireToken(t) PROVE RowsTyped'
  BY <1>0, <1>7 DEF ExpireToken, WritesTokens, RowsTyped, TokenRows
<1>8. ASSUME NEW r \in Requests, Arrive(r) PROVE RowsTyped'
  BY <1>1, <1>8 DEF Arrive, StartAuthorize, StartCodeGrant, StartRefreshGrant,
                    StartRevoke, NoWrite
<1>9. ASSUME NEW r \in Requests,
              \/ AuthUser(r) \/ AuthAccess(r) \/ AuditAccess(r) \/ FindCode(r)
              \/ FindToken(r) \/ AuditReuse(r) \/ LoadUser(r) \/ LoadAccess(r)
              \/ AuditIssued(r) \/ FindForRevoke(r) \/ AuditLogout(r) \/ Abort(r)
       PROVE RowsTyped'
  <2>1. UNCHANGED <<codes, tokens, origin>>
    BY <1>9 DEF AuthUser, AuthAccess, AuditAccess, FindCode, FindToken, AuditReuse,
                LoadUser, LoadAccess, AuditIssued, FindForRevoke, AuditLogout,
                Abort, NoWrite, WritesAudit
  <2>2. QED
    BY <1>1, <2>1
<1>10. CASE Administer
  BY <1>1, <1>10 DEF Administer, SetUserActive, SetMustChange, UpdateSystem, SetGrant,
                     WritesTables
<1>11. CASE UNCHANGED vars
  BY <1>1, <1>11 DEF vars
<1>12. QED
  BY <1>2, <1>3, <1>4, <1>5, <1>6, <1>7, <1>8, <1>9, <1>10, <1>11 DEF Next, Proceed, Tick

\* What is delivered exists, and audit rows are about codes and tokens.
LEMMA OutputsTyped ==
    ASSUME IInv, RowsKept, [Next]_vars
    PROVE  /\ audit' \in SUBSET (AuditActions \X Items)
           /\ delivered' \in SUBSET Items
           /\ \A i \in delivered' : Exists(i)'
<1> DEFINE Typed == /\ audit' \in SUBSET (AuditActions \X Items)
                    /\ delivered' \in SUBSET Items
                    /\ \A i \in delivered' : Exists(i)'
<1>1. /\ audit \in SUBSET (AuditActions \X Items)
      /\ delivered \in SUBSET Items
      /\ \A i \in delivered : Exists(i)'
  BY DEF IInv, TypeOK, LocalsStayTrue, RowsKept, Exists
<1>2. CASE UNCHANGED <<audit, delivered>>
  BY <1>1, <1>2
<1>3. ASSUME NEW r \in Requests,
             AuditAccess(r) \/ AuditIssued(r) \/ AuditReuse(r) \/ AuditLogout(r)
      PROVE Typed
  <2>1. req[r].item \in Items /\ Exists(req[r].item)
    BY <1>3 DEF AuditAccess, AuditIssued, AuditReuse, AuditLogout, At, IInv,
                LocalsStayTrue, StaysTrue, Exists
  <2>2. PICK i \in Items : i = req[r].item
    BY <2>1
  <2>3. Exists(i)'
    BY <2>1, <2>2 DEF RowsKept
  <2>4. PICK action \in AuditActions : audit' = audit \cup {<<action, i>>}
    BY <1>3, <2>2 DEF AuditAccess, AuditIssued, AuditReuse, AuditLogout, AuditActions
  <2>5. delivered' \subseteq delivered \cup {i}
    BY <1>3, <2>2 DEF AuditAccess, AuditIssued, AuditReuse, AuditLogout
  <2>6. QED
    BY <1>1, <2>2, <2>3, <2>4, <2>5
<1>4. ASSUME NEW r \in Requests, Arrive(r) \/ Abort(r) PROVE Typed
  BY <1>2, <1>4 DEF Arrive, StartAuthorize, StartCodeGrant, StartRefreshGrant,
                    StartRevoke, Abort, NoWrite
<1>5. ASSUME NEW r \in Requests, Proceed(r),
             ~(AuditAccess(r) \/ AuditIssued(r) \/ AuditReuse(r) \/ AuditLogout(r))
      PROVE Typed
  <2>1. UNCHANGED <<audit, delivered>>
    BY <1>5 DEF Proceed, AuthUser, AuthAccess, CreateCode, FindCode, RevokeAll,
                MarkUsed, FindToken, RevokeOld, RevokeFamily, LoadUser, LoadAccess,
                CreateToken, FindForRevoke, RevokeToken, NoWrite, WritesCodes,
                WritesTokens
  <2>2. QED
    BY <1>2, <2>1
<1>6. CASE Tick \/ Administer
  <2>1. UNCHANGED <<audit, delivered>>
    BY <1>6 DEF Tick, ExpireCode, ExpireToken, WritesCodes, WritesTokens, Administer,
                SetUserActive, SetMustChange, UpdateSystem, SetGrant, WritesTables
  <2>2. QED
    BY <1>2, <2>1
<1>7. CASE UNCHANGED vars
  BY <1>2, <1>7 DEF vars
<1>8. QED
  BY <1>3, <1>4, <1>5, <1>6, <1>7 DEF Next

\* The locals of every request stay well typed and true.
LEMMA HandlersStayTrue ==
    ASSUME IInv, RowsKept, [Next]_vars
    PROVE  /\ req' \in [Requests -> Locals]
           /\ \A r \in Requests : StaysTrue(req[r])'
<1>1. \A r \in Requests : req[r] \in Locals /\ StaysTrue(req[r])
  BY DEF IInv, TypeOK, LocalsStayTrue
<1>2. ASSUME NEW q \in Locals, StaysTrue(q) PROVE StaysTrue(q)'
  BY <1>2, KnowledgeKept
<1>3. CASE UNCHANGED req
  <2> SUFFICES ASSUME NEW r \in Requests PROVE StaysTrue(req[r])'
    BY <1>3 DEF IInv, TypeOK
  <2>1. PICK q \in Locals : q = req[r]
    BY <1>1
  <2>2. StaysTrue(q)' /\ q = req'[r]
    BY <1>1, <1>2, <1>3, <2>1
  <2>3. QED
    BY <2>2 DEF StaysTrue
<1>4. ASSUME NEW r \in Requests, Arrive(r) \/ Proceed(r) \/ Abort(r)
      PROVE  /\ req' \in [Requests -> Locals]
             /\ \A x \in Requests : StaysTrue(req[x])'
  <2>1. PICK q : MovesTo(r, q) /\ StaysTrue(q)'
    BY <1>4, HandlerStep
  <2>2. req' \in [Requests -> Locals] /\ req' = [req EXCEPT ![r] = q]
    BY <2>1 DEF MovesTo, IInv, TypeOK
  <2>3. ASSUME NEW x \in Requests PROVE StaysTrue(req[x])'
    <3>1. PICK p : p = IF x = r THEN q ELSE req[x]
      OBVIOUS
    <3>2. p = req'[x]
      BY <2>2, <3>1 DEF IInv, TypeOK
    <3>3. StaysTrue(p)'
      BY <1>1, <1>2, <2>1, <3>1
    <3>4. QED
      BY <3>2, <3>3 DEF StaysTrue
  <2>4. QED
    BY <2>2, <2>3
<1>5. CASE Tick \/ Administer
  <2>1. UNCHANGED req
    BY <1>5 DEF Tick, ExpireCode, ExpireToken, Administer, SetUserActive,
                SetMustChange, UpdateSystem, SetGrant, WritesTables
  <2>2. QED
    BY <1>3, <2>1
<1>6. CASE UNCHANGED vars
  BY <1>3, <1>6 DEF vars
<1>7. QED
  BY <1>4, <1>5, <1>6 DEF Next

LEMMA WindowStaysTyped ==
    ASSUME IInv, [Next]_vars, TablesTyped', req' \in [Requests -> Locals],
           \A r \in Requests : StaysTrue(req[r])'
    PROVE  window' \in [Requests -> SUBSET (Roles \cup {"active", "ready", "unspent"})]
<1>1. TrackWindow \/ UNCHANGED vars
  <2> USE DEF NoWrite, WritesCodes, WritesTokens, WritesAudit, WritesTables
  <2>1. ASSUME NEW r \in Requests, Arrive(r) \/ Abort(r) PROVE TrackWindow
    BY <2>1 DEF Arrive, StartAuthorize, StartCodeGrant, StartRefreshGrant,
                StartRevoke, Abort
  <2>2. ASSUME NEW r \in Requests, Proceed(r) PROVE TrackWindow
    BY <2>2 DEF Proceed, AuthUser, AuthAccess, CreateCode, AuditAccess, FindCode,
                RevokeAll, MarkUsed, FindToken, RevokeOld, RevokeFamily, AuditReuse,
                LoadUser, LoadAccess, CreateToken, AuditIssued, FindForRevoke,
                RevokeToken, AuditLogout
  <2>3. CASE Tick
    BY <2>3 DEF Tick, ExpireCode, ExpireToken
  <2>4. CASE Administer
    BY <2>4 DEF Administer, SetUserActive, SetMustChange, UpdateSystem, SetGrant
  <2>5. QED
    BY <2>1, <2>2, <2>3, <2>4 DEF Next
<1>2. CASE UNCHANGED vars
  BY <1>2 DEF vars, IInv, TypeOK
<1>3. CASE TrackWindow
  <2>1. ASSUME NEW r \in Requests, req'[r].user # None
        PROVE  Entitlements(users'[req'[r].user], grants'[req'[r].user][req'[r].sys])
                 \subseteq Roles \cup {"active", "ready", "unspent"}
    <3>1. req'[r].user \in Users /\ req'[r].sys \in Systems
      BY <2>1 DEF Locals, StaysTrue
    <3>2. grants'[req'[r].user][req'[r].sys] \in Roles \cup {None}
      BY <3>1 DEF TablesTyped
    <3>3. QED
      BY <3>2 DEF Entitlements
  <2>2. \A i : Unspent(i, codes', tokens') \subseteq {"unspent"}
    BY DEF Unspent
  <2>3. QED
    BY <1>3, <2>1, <2>2 DEF TrackWindow, IInv, TypeOK
<1>4. QED
  BY <1>1, <1>2, <1>3

LEMMA InitIInv == Init => IInv
<1> SUFFICES ASSUME Init PROVE IInv
  OBVIOUS
<1>1. TypeOK
  BY IdleTyped DEF Init, TypeOK
<1>2. LocalsStayTrue
  BY IdleTyped DEF Init, LocalsStayTrue
<1>3. QED
  BY <1>1, <1>2 DEF IInv

LEMMA StepKeepsIInv == IInv /\ [Next]_vars => IInv'
<1> SUFFICES ASSUME IInv, [Next]_vars PROVE IInv'
  OBVIOUS
<1>1. RowsKept
  BY StepKeepsRows
<1>2. RowsTyped'
  BY RowsStayTyped
<1>3. TablesTyped'
  BY WhoWritesTables, TablesKept DEF TablesTyped, IInv, TypeOK
<1>4. /\ req' \in [Requests -> Locals]
      /\ \A r \in Requests : StaysTrue(req[r])'
  BY <1>1, HandlersStayTrue
<1>5. window' \in [Requests -> SUBSET (Roles \cup {"active", "ready", "unspent"})]
  BY <1>3, <1>4, WindowStaysTyped
<1>6. /\ audit' \in SUBSET (AuditActions \X Items)
      /\ delivered' \in SUBSET Items
      /\ \A i \in delivered' : Exists(i)'
  BY <1>1, OutputsTyped
<1>7. QED
  BY <1>2, <1>3, <1>4, <1>5, <1>6 DEF IInv, TypeOK, LocalsStayTrue, RowsTyped, TablesTyped

\* Every variable keeps its type, and what a handler has learnt from the tables
\* about the code or token it serves is still true when it acts on it, however
\* many requests run at once and wherever any of them dies.
THEOREM KnowledgeTheorem == Spec => [](TypeOK /\ LocalsStayTrue)
<1>1. QED
  BY InitIInv, StepKeepsIInv, PTL DEF Spec, IInv

\* Every reachable state is well typed: rows, windows and the handlers' locals.
THEOREM TypeCorrectness == Spec => []TypeOK
BY KnowledgeTheorem, PTL

-----------------------------------------------------------------------------
(* Users, grants, redirect URIs and the audit trail *)

\* The steps of a handler, each by what it does to the handler's own locals.
LEMMA OneMoves ==
    ASSUME IInv, [Next]_vars, NEW r \in Requests, req'[r] # req[r]
    PROVE  Arrive(r) \/ Proceed(r) \/ Abort(r)
<1>1. ASSUME NEW o \in Requests \ {r}, Arrive(o) \/ Proceed(o) \/ Abort(o) PROVE FALSE
  <2>1. RowsKept
    BY StepKeepsRows
  <2>2. PICK q : MovesTo(o, q)
    BY <1>1, <2>1, HandlerStep
  <2>3. QED
    BY <2>2 DEF MovesTo, IInv, TypeOK
<1>2. CASE Tick \/ Administer
  BY <1>2 DEF Tick, ExpireCode, ExpireToken, Administer, SetUserActive,
              SetMustChange, UpdateSystem, SetGrant, WritesTables
<1>3. QED
  BY <1>1, <1>2 DEF Next, vars

-----------------------------------------------------------------------------
(* Entitlements *)

\* What a handler with locals q has seen, out of the entitlements w that were
\* in force while it ran.
Aware(q, w) ==
    /\ q.pc = "authAccess" => {"active", "ready"} \subseteq w
    /\ q.pc = "createCode" => {"active", "ready", q.role} \subseteq w
    /\ q.pc = "loadAccess" => "active" \in w
    /\ q.pc \in {"markUsed", "createToken"} => {"active", q.role} \subseteq w

AllAware == \A r \in Requests : Aware(req[r], window[r])

LEMMA WindowGrows ==
    ASSUME IInv, [Next]_vars, NEW r \in Requests, req'[r].user # None
    PROVE  \/ UNCHANGED vars
           \/ window'[r] = window[r]
                \cup Entitlements(users'[req'[r].user], grants'[req'[r].user][req'[r].sys])
                \cup Unspent(req'[r].item, codes', tokens')
<1> USE DEF NoWrite, WritesCodes, WritesTokens, WritesAudit, WritesTables
<1>1. ASSUME NEW o \in Requests, Arrive(o) \/ Abort(o) PROVE TrackWindow
  BY <1>1 DEF Arrive, StartAuthorize, StartCodeGrant, StartRefreshGrant, StartRevoke,
              Abort
<1>2. ASSUME NEW o \in Requests, Proceed(o) PROVE TrackWindow
  BY <1>2 DEF Proceed, AuthUser, AuthAccess, CreateCode, AuditAccess, FindCode,
              RevokeAll, MarkUsed, FindToken, RevokeOld, RevokeFamily, AuditReuse,
              LoadUser, LoadAccess, CreateToken, AuditIssued, FindForRevoke,
              RevokeToken, AuditLogout
<1>3. CASE Tick
  BY <1>3 DEF Tick, ExpireCode, ExpireToken, TrackWindow
<1>4. CASE Administer
  BY <1>4 DEF Administer, SetUserActive, SetMustChange, UpdateSystem, SetGrant,
              TrackWindow
<1>5. QED
  BY <1>1, <1>2, <1>3, <1>4 DEF Next, TrackWindow

LEMMA StepKeepsAware == IInv /\ IInv' /\ AllAware /\ [Next]_vars => AllAware'
<1> SUFFICES ASSUME IInv, IInv', AllAware, [Next]_vars, NEW r \in Requests
             PROVE  Aware(req'[r], window'[r])
  BY DEF AllAware, Aware
<1>1. /\ req[r] \in Locals /\ StaysTrue(req[r]) /\ Aware(req[r], window[r])
      /\ req \in [Requests -> Locals]
  BY DEF IInv, TypeOK, LocalsStayTrue, AllAware
<1>2. req'[r].pc \in {"authAccess", "createCode", "loadAccess", "markUsed", "createToken"}
        => req'[r].user # None
  BY DEF IInv, LocalsStayTrue, StaysTrue
<1>3. CASE req'[r] = req[r]
  BY <1>1, <1>2, <1>3, WindowGrows DEF Aware, vars
<1>4. CASE req'[r] # req[r]
  <2> DEFINE Ent == Entitlements(users'[req'[r].user], grants'[req'[r].user][req'[r].sys])
  <2>0. req'[r].user # None => window[r] \cup Ent \subseteq window'[r]
    BY <1>4, WindowGrows DEF vars
  <2>1. CASE AuthUser(r)
    <3>1. CASE Finish(r)
      BY <1>1, <3>1 DEF Finish, Idle, Aware
    <3>2. CASE ~Finish(r)
      <4>1. /\ At(r, "authUser") /\ Goto(r, "authAccess") /\ UNCHANGED users
            /\ users[req[r].user].active /\ ~users[req[r].user].mustChange
        BY <2>1, <3>2 DEF AuthUser, NoWrite, tables
      <4>2. req'[r].pc = "authAccess" /\ req'[r].user = req[r].user
        BY <1>1, <4>1 DEF Goto, Locals
      <4>3. {"active", "ready"} \subseteq Ent
        BY <4>1, <4>2 DEF Entitlements
      <4>4. QED
        BY <1>2, <2>0, <4>2, <4>3 DEF Aware
    <3>3. QED
      BY <3>1, <3>2
  <2>2. CASE AuthAccess(r) \/ LoadAccess(r)
    <3>1. CASE Finish(r)
      BY <1>1, <3>1 DEF Finish, Idle, Aware
    <3>2. CASE ~Finish(r)
      <4>1. PICK role : role = grants[req[r].user][req[r].sys]
        OBVIOUS
      <4>2. PICK pc \in Pcs :
              /\ req' = [req EXCEPT ![r].pc = pc, ![r].role = role]
              /\ role # None /\ UNCHANGED grants
              /\ \/ At(r, "authAccess") /\ pc = "createCode"
                 \/ At(r, "loadAccess") /\ pc \in {"markUsed", "createToken"}
        BY <2>2, <3>2, <4>1 DEF AuthAccess, LoadAccess, NoWrite, tables, Pcs, TokenPcs,
           AuthorizePcs
      <4>3. /\ req'[r].pc = pc /\ req'[r].role = role
            /\ req'[r].user = req[r].user /\ req'[r].sys = req[r].sys
        BY <1>1, <4>2 DEF Locals
      <4>4. role \in Ent
        BY <4>1, <4>2, <4>3 DEF Entitlements
      <4>5. QED
        BY <1>1, <1>2, <2>0, <4>2, <4>3, <4>4 DEF Aware, At
    <3>3. QED
      BY <3>1, <3>2
  <2>3. CASE LoadUser(r)
    <3>1. CASE Finish(r)
      BY <1>1, <3>1 DEF Finish, Idle, Aware
    <3>2. CASE ~Finish(r)
      <4>1. /\ Goto(r, "loadAccess") /\ UNCHANGED users /\ users[req[r].user].active
        BY <2>3, <3>2 DEF LoadUser, NoWrite, tables
      <4>2. req'[r].pc = "loadAccess" /\ req'[r].user = req[r].user
        BY <1>1, <4>1 DEF Goto, Locals
      <4>3. "active" \in Ent
        BY <4>1, <4>2 DEF Entitlements
      <4>4. QED
        BY <1>2, <2>0, <4>2, <4>3 DEF Aware
    <3>3. QED
      BY <3>1, <3>2
  <2>4. CASE MarkUsed(r)
    <3>1. /\ req'[r].pc = "createToken" /\ req'[r].role = req[r].role
          /\ req[r].pc = "markUsed"
      BY <1>1, <2>4 DEF MarkUsed, Goto, At, Locals
    <3>2. QED
      BY <1>1, <1>2, <2>0, <3>1 DEF Aware
  <2>5. ASSUME req'[r].pc \notin {"authAccess", "createCode", "loadAccess", "markUsed",
                                  "createToken"}
        PROVE  Aware(req'[r], window'[r])
    BY <2>5 DEF Aware
  <2>a. Finish(r) => req'[r].pc = "idle"
    BY <1>1 DEF Finish, Idle
  <2>b. ASSUME NEW pc, NEW i, GotoWith(r, pc, i) PROVE req'[r].pc = pc
    BY <1>1, <2>b DEF GotoWith, Idle
  <2>6. CASE Arrive(r) \/ Abort(r)
    <3>1. CASE Abort(r)
      BY <2>5, <2>a, <3>1 DEF Abort
    <3>2. CASE Arrive(r)
      <4>1. ASSUME NEW u \in Users, NEW s \in Systems, NEW uri \in Uris,
                   StartAuthorize(r, u, s, uri)
            PROVE  req'[r].pc = "authUser"
        BY <1>1, <4>1 DEF StartAuthorize, Idle
      <4>2. ASSUME NEW s \in Systems, NEW c \in Codes, NEW uri \in Uris,
                   StartCodeGrant(r, s, c, uri)
            PROVE  req'[r].pc = "findCode"
        BY <1>1, <4>2 DEF StartCodeGrant, Idle
      <4>3. ASSUME NEW s \in Systems, NEW t \in Tokens, StartRefreshGrant(r, s, t)
            PROVE  req'[r].pc = "findToken"
        BY <1>1, <4>3 DEF StartRefreshGrant, Idle
      <4>4. ASSUME NEW s \in Systems, NEW t \in Tokens, StartRevoke(r, s, t)
            PROVE  req'[r].pc = "findForRevoke"
        BY <1>1, <4>4 DEF StartRevoke, Idle
      <4>5. req'[r].pc \in {"authUser", "findCode", "findToken", "findForRevoke"}
        BY <3>2, <4>1, <4>2, <4>3, <4>4 DEF Arrive
      <4>6. QED
        BY <2>5, <4>5
    <3>3. QED
      BY <2>6, <3>1, <3>2
  <2>7. CASE \/ CreateCode(r) \/ AuditAccess(r) \/ RevokeAll(r) \/ RevokeFamily(r)
             \/ AuditReuse(r) \/ CreateToken(r) \/ AuditIssued(r) \/ FindForRevoke(r)
             \/ AuditLogout(r)
    <3>1. \/ Finish(r)
          \/ \E pc \in {"auditAccess", "auditReuse", "auditIssued", "revokeToken"} : \E i :
               GotoWith(r, pc, i)
      BY <2>7 DEF CreateCode, AuditAccess, RevokeAll, RevokeFamily, AuditReuse,
         CreateToken, AuditIssued, FindForRevoke, AuditLogout
    <3>2. QED
      BY <2>5, <2>a, <2>b, <3>1
  <2>8. CASE FindCode(r) \/ FindToken(r) \/ RevokeOld(r) \/ RevokeToken(r)
    <3>1. req'[r].pc \in {"revokeAll", "loadUser", "revokeFamily", "revokeOld",
                          "auditLogout", "idle"}
      BY <1>1, <2>8 DEF FindCode, FindToken, RevokeOld, RevokeToken, Goto, Finish, Idle,
         Locals
    <3>2. QED
      BY <2>5, <3>1
  <2>9. QED
    BY <1>4, <2>1, <2>2, <2>3, <2>4, <2>6, <2>7, <2>8, OneMoves DEF Proceed
<1>5. QED
  BY <1>3, <1>4

\* Codes and tokens are inserted only for a user who was active, and held the
\* role put into the answer, while the inserting handler ran: for any schedule
\* of deactivations, password resets and changes of grants.
THEOREM EntitlementTheorem == Spec => []NoIssueWithoutEntitlement
<1>1. Init => AllAware
  BY IdleTyped DEF Init, AllAware, Aware, Idle
<1>2. AllAware => NoIssueWithoutEntitlement
  BY DEF AllAware, Aware, NoIssueWithoutEntitlement
<1>3. QED
  BY <1>1, <1>2, StepKeepsAware, KnowledgeTheorem, PTL DEF Spec, IInv

-----------------------------------------------------------------------------
(* The audit trail and the redemption of codes *)

LEMMA AuditGrows == ASSUME [Next]_vars PROVE audit \subseteq audit'
<1>1. ASSUME NEW r \in Requests, Arrive(r) \/ Abort(r) PROVE audit \subseteq audit'
  BY <1>1 DEF Arrive, StartAuthorize, StartCodeGrant, StartRefreshGrant,
              StartRevoke, Abort, NoWrite
<1>2. ASSUME NEW r \in Requests, Proceed(r) PROVE audit \subseteq audit'
  BY <1>2 DEF Proceed, AuthUser, AuthAccess, CreateCode, AuditAccess, FindCode,
              RevokeAll, MarkUsed, FindToken, RevokeOld, RevokeFamily, AuditReuse,
              LoadUser, LoadAccess, CreateToken, AuditIssued, FindForRevoke,
              RevokeToken, AuditLogout, NoWrite, WritesCodes, WritesTokens
<1>3. CASE Tick \/ Administer
  BY <1>3 DEF Tick, ExpireCode, ExpireToken, WritesCodes, WritesTokens, Administer,
              SetUserActive, SetMustChange, UpdateSystem, SetGrant, WritesTables
<1>4. QED
  BY <1>1, <1>2, <1>3 DEF Next, vars

\* A delivery is the last thing a handler does, in the step that stores its
\* audit row.
LEMMA DeliverySteps ==
    ASSUME IInv, [Next]_vars
    PROVE  \/ UNCHANGED delivered
           \/ \E r \in Requests, i \in Items :
                /\ delivered' = delivered \cup {i}
                /\ <<IF i \in Codes THEN "SYSTEM_ACCESS" ELSE "TOKEN_ISSUED", i>>
                     \in audit'
<1>1. ASSUME NEW r \in Requests, Arrive(r) \/ Abort(r) PROVE UNCHANGED delivered
  BY <1>1 DEF Arrive, StartAuthorize, StartCodeGrant, StartRefreshGrant,
              StartRevoke, Abort, NoWrite
<1>2. ASSUME NEW r \in Requests, Proceed(r), ~AuditAccess(r), ~AuditIssued(r)
      PROVE  UNCHANGED delivered
  BY <1>2 DEF Proceed, AuthUser, AuthAccess, CreateCode, FindCode,
              RevokeAll, MarkUsed, FindToken, RevokeOld, RevokeFamily, AuditReuse,
              LoadUser, LoadAccess, CreateToken, FindForRevoke,
              RevokeToken, AuditLogout, NoWrite, WritesCodes, WritesTokens
<1>3. CASE Tick \/ Administer
  BY <1>3 DEF Tick, ExpireCode, ExpireToken, WritesCodes, WritesTokens, Administer,
              SetUserActive, SetMustChange, UpdateSystem, SetGrant, WritesTables
<1>4. ASSUME NEW r \in Requests, AuditAccess(r), ~UNCHANGED delivered
      PROVE  \E i \in Items :
               /\ delivered' = delivered \cup {i}
               /\ <<IF i \in Codes THEN "SYSTEM_ACCESS" ELSE "TOKEN_ISSUED", i>> \in audit'
  <2>1. req[r].item \in Codes
    BY <1>4 DEF AuditAccess, At, IInv, LocalsStayTrue, StaysTrue
  <2>2. QED
    BY <1>4, <2>1 DEF AuditAccess, Items
<1>5. ASSUME NEW r \in Requests, AuditIssued(r), ~UNCHANGED delivered
      PROVE  \E i \in Items :
               /\ delivered' = delivered \cup {i}
               /\ <<IF i \in Codes THEN "SYSTEM_ACCESS" ELSE "TOKEN_ISSUED", i>> \in audit'
  <2>1. req[r].item \in Tokens /\ req[r].item \notin Codes
    BY <1>5 DEF AuditIssued, At, IInv, LocalsStayTrue, StaysTrue
  <2>2. QED
    BY <1>5, <2>1 DEF AuditIssued, Items
<1>6. QED
  BY <1>1, <1>2, <1>3, <1>4, <1>5 DEF Next, vars

LEMMA StepKeepsAudited ==
    IInv /\ AuditedBeforeDelivered /\ [Next]_vars => AuditedBeforeDelivered'
BY AuditGrows, DeliverySteps DEF AuditedBeforeDelivered

\* No code and no token reaches a client before its audit row is stored, even
\* when a handler dies between the insert and the audit row.
THEOREM AuditTheorem == Spec => []AuditedBeforeDelivered
<1>1. Init => AuditedBeforeDelivered
  BY DEF Init, AuditedBeforeDelivered
<1>2. QED
  BY <1>1, StepKeepsAudited, KnowledgeTheorem, PTL DEF Spec, IInv

-----------------------------------------------------------------------------

\* What a handler that redeems a code has checked of it.
Redeems(q) ==
    /\ q.pc = "findCode" => q.item \in delivered
    /\ q.item \in Codes /\ q.pc \in {"loadUser", "loadAccess", "markUsed", "createToken"}
         => q.item \in delivered /\ codes[q.item].uri = q.uri
AllRedeem == \A r \in Requests : Redeems(req[r])

LEMMA UriKept ==
    ASSUME IInv, [Next]_vars, NEW c \in Codes, codes[c] # None
    PROVE  codes'[c].uri = codes[c].uri
<1>0. codes[c] \in CodeRows /\ codes \in [Codes -> CodeRows \cup {None}]
  BY DEF IInv, TypeOK
<1>1. CASE UNCHANGED codes
  BY <1>1
<1>2. ASSUME NEW r \in Requests, CreateCode(r) PROVE codes'[c].uri = codes[c].uri
  BY <1>0, <1>2 DEF CreateCode
<1>3. ASSUME NEW r \in Requests, MarkUsed(r) PROVE codes'[c].uri = codes[c].uri
  <2>1. codes'[c] = codes[c] \/ codes'[c] = [codes[c] EXCEPT !.used = TRUE]
    BY <1>0, <1>3 DEF MarkUsed
  <2>2. QED
    BY <1>0, <2>1 DEF CodeRows
<1>4. ASSUME NEW d \in Codes, ExpireCode(d) PROVE codes'[c].uri = codes[c].uri
  <2>1. codes'[c] = codes[c] \/ codes'[c] = [codes[c] EXCEPT !.expired = TRUE]
    BY <1>0, <1>4 DEF ExpireCode
  <2>2. QED
    BY <1>0, <2>1 DEF CodeRows
<1>5. ASSUME NEW r \in Requests, Arrive(r) \/ Abort(r) PROVE UNCHANGED codes
  BY <1>5 DEF Arrive, StartAuthorize, StartCodeGrant, StartRefreshGrant,
              StartRevoke, Abort, NoWrite
<1>6. ASSUME NEW r \in Requests, Proceed(r), ~CreateCode(r), ~MarkUsed(r)
      PROVE  UNCHANGED codes
  BY <1>6 DEF Proceed, AuthUser, AuthAccess, AuditAccess, FindCode,
              RevokeAll, FindToken, RevokeOld, RevokeFamily, AuditReuse,
              LoadUser, LoadAccess, CreateToken, AuditIssued, FindForRevoke,
              RevokeToken, AuditLogout, NoWrite, WritesAudit, WritesTokens
<1>7. ASSUME NEW t \in Tokens, ExpireToken(t) PROVE UNCHANGED codes
  BY <1>7 DEF ExpireToken, WritesTokens
<1>8. CASE Administer
  BY <1>8 DEF Administer, SetUserActive, SetMustChange, UpdateSystem, SetGrant,
              WritesTables
<1>9. QED
  BY <1>1, <1>2, <1>3, <1>4, <1>5, <1>6, <1>7, <1>8 DEF Next, Tick, vars

LEMMA StepKeepsRedeems == IInv /\ AllRedeem /\ [Next]_vars => AllRedeem'
<1> SUFFICES ASSUME IInv, AllRedeem, [Next]_vars, NEW r \in Requests
             PROVE  Redeems(req[r])'
  BY DEF AllRedeem
<1>1. /\ req[r] \in Locals /\ StaysTrue(req[r]) /\ Redeems(req[r])
      /\ req \in [Requests -> Locals]
  BY DEF IInv, TypeOK, LocalsStayTrue, AllRedeem
<1>2. delivered \subseteq delivered'
  BY DeliverySteps
<1>3. \A i \in delivered : Exists(i)
  BY DEF IInv, LocalsStayTrue
\* What holds of the locals a handler moves to keeps holding.
<1>4. ASSUME NEW q \in Locals, Redeems(q) PROVE Redeems(q)'
  <2>1. q.item \in delivered /\ q.item \in Codes => codes'[q.item].uri = codes[q.item].uri
    BY <1>3, UriKept DEF Exists
  <2>2. QED
    BY <1>2, <1>4, <2>1 DEF Redeems
<1>5. CASE req'[r] = req[r]
  <2>1. PICK q \in Locals : q = req[r]
    BY <1>1
  <2>2. Redeems(q)'
    BY <1>1, <1>4, <2>1
  <2>3. QED
    BY <1>5, <2>1, <2>2 DEF Redeems
<1>6. ASSUME NEW q \in Locals, req'[r] = q, Redeems(q) PROVE Redeems(req[r])'
  <2>1. Redeems(q)'
    BY <1>4, <1>6
  <2>2. QED
    BY <1>6, <2>1 DEF Redeems
<1>7. ASSUME req'[r].pc \notin {"findCode", "loadUser", "loadAccess", "markUsed",
                                "createToken"}
      PROVE  Redeems(req[r])'
  BY <1>7 DEF Redeems
<1>8. CASE req'[r] # req[r]
  <2>a. ASSUME Finish(r) PROVE Redeems(req[r])'
    BY <1>1, <1>7, <2>a DEF Finish, Idle
  <2>b. ASSUME NEW pc, NEW i, GotoWith(r, pc, i),
               pc \in {"auditAccess", "auditReuse", "auditIssued", "revokeToken"}
        PROVE  Redeems(req[r])'
    <3>1. req'[r].pc = pc
      BY <1>1, <2>b DEF GotoWith, Idle
    <3>2. QED
      BY <1>7, <2>b, <3>1
  <2>c. ASSUME NEW pc, Goto(r, pc) PROVE req'[r] = [req[r] EXCEPT !.pc = pc]
    BY <1>1, <2>c DEF Goto
  <2>1. CASE Abort(r)
    BY <2>1, <2>a DEF Abort
  <2>2. CASE Arrive(r)
    <3>1. ASSUME NEW u \in Users, NEW s \in Systems, NEW uri \in Uris,
                 StartAuthorize(r, u, s, uri)
          PROVE  req'[r].pc = "authUser"
      BY <1>1, <3>1 DEF StartAuthorize, Idle
    <3>2. ASSUME NEW s \in Systems, NEW c \in Codes, NEW uri \in Uris,
                 StartCodeGrant(r, s, c, uri)
          PROVE  req'[r].pc = "findCode" /\ req'[r].item \in delivered
      BY <1>1, <3>2 DEF StartCodeGrant, Idle
    <3>3. ASSUME NEW s \in Systems, NEW t \in Tokens, StartRefreshGrant(r, s, t)
          PROVE  req'[r].pc = "findToken"
      BY <1>1, <3>3 DEF StartRefreshGrant, Idle
    <3>4. ASSUME NEW s \in Systems, NEW t \in Tokens, StartRevoke(r, s, t)
          PROVE  req'[r].pc = "findForRevoke"
      BY <1>1, <3>4 DEF StartRevoke, Idle
    <3>5. \/ req'[r].pc \in {"authUser", "findToken", "findForRevoke"}
          \/ req'[r].pc = "findCode" /\ req'[r].item \in delivered'
      BY <1>2, <2>2, <3>1, <3>2, <3>3, <3>4 DEF Arrive
    <3>6. QED
      BY <3>5 DEF Redeems
  <2>3. CASE \/ CreateCode(r) \/ AuditAccess(r) \/ RevokeAll(r) \/ RevokeFamily(r)
             \/ AuditReuse(r) \/ CreateToken(r) \/ AuditIssued(r) \/ FindForRevoke(r)
             \/ AuditLogout(r)
    <3>1. \/ Finish(r)
          \/ \E pc \in {"auditAccess", "auditReuse", "auditIssued", "revokeToken"} : \E i :
               GotoWith(r, pc, i)
      BY <2>3 DEF CreateCode, AuditAccess, RevokeAll, RevokeFamily, AuditReuse,
         CreateToken, AuditIssued, FindForRevoke, AuditLogout
    <3>2. QED
      BY <2>a, <2>b, <3>1
  <2>4. CASE AuthUser(r) \/ AuthAccess(r) \/ FindToken(r) \/ RevokeToken(r)
    <3>1. req'[r].pc \in {"authAccess", "createCode", "revokeFamily", "revokeOld",
                          "auditLogout", "idle"}
      BY <1>1, <2>4 DEF AuthUser, AuthAccess, FindToken, RevokeToken, Goto, Finish,
                        Idle, Locals
    <3>2. QED
      BY <1>7, <3>1
  <2>5. CASE FindCode(r)
    <3>1. CASE Finish(r)
      BY <2>a, <3>1
    <3>2. CASE Goto(r, "revokeAll")
      <4>1. req'[r].pc = "revokeAll"
        BY <1>1, <3>2 DEF Goto, Locals
      <4>2. QED
        BY <1>7, <4>1
    <3>3. CASE ~Finish(r) /\ ~Goto(r, "revokeAll")
      <4>1. /\ req[r].pc = "findCode" /\ req[r].item \in delivered
            /\ codes[req[r].item].uri = req[r].uri
            /\ req' = [req EXCEPT ![r].pc = "loadUser",
                                  ![r].user = codes[req[r].item].user]
        BY <1>1, <2>5, <3>3 DEF FindCode, CodeVerdict, At, Redeems
      <4>2. PICK u : u = codes[req[r].item].user
        OBVIOUS
      <4>3. codes[req[r].item] \in CodeRows
        BY <1>1, <4>1 DEF StaysTrue, Exists, IInv, TypeOK
      <4>4. u \in Users
        BY <4>2, <4>3 DEF CodeRows
      <4>5. PICK q \in Locals : q = [req[r] EXCEPT !.pc = "loadUser", !.user = u]
        BY <1>1, <4>4 DEF Locals, Pcs, TokenPcs
      <4>6. req'[r] = q
        BY <1>1, <4>1, <4>2, <4>5
      <4>7. q.pc = "loadUser" /\ q.item = req[r].item /\ q.uri = req[r].uri
        BY <1>1, <4>5 DEF Locals
      <4>8. Redeems(q)
        BY <4>1, <4>7 DEF Redeems
      <4>9. QED
        BY <1>6, <4>6, <4>8
    <3>4. QED
      BY <3>1, <3>2, <3>3
  <2>6. CASE RevokeOld(r) \/ LoadUser(r) \/ MarkUsed(r)
    <3>1. CASE Finish(r)
      BY <2>a, <3>1
    <3>2. CASE ~Finish(r)
      <4>1. PICK pc \in {"loadUser", "loadAccess", "createToken"} :
              /\ Goto(r, pc)
              /\ req[r].pc \in {"revokeOld", "loadUser", "markUsed"}
        BY <2>6, <3>2 DEF RevokeOld, LoadUser, MarkUsed, At
      <4>2. PICK q \in Locals : q = [req[r] EXCEPT !.pc = pc]
        BY <1>1, <4>1 DEF Locals, Pcs, TokenPcs
      <4>3. /\ q.pc = pc /\ q.item = req[r].item /\ q.uri = req[r].uri
            /\ req[r].pc = "revokeOld" => req[r].item \notin Codes
        BY <1>1, <4>2 DEF Locals, StaysTrue
      <4>4. Redeems(q)
        BY <1>1, <4>1, <4>3 DEF Redeems
      <4>5. QED
        BY <1>6, <2>c, <4>1, <4>2, <4>4
    <3>3. QED
      BY <3>1, <3>2
  <2>7. CASE LoadAccess(r)
    <3>1. CASE Finish(r)
      BY <2>a, <3>1
    <3>2. CASE ~Finish(r)
      <4>1. PICK role \in Roles : role = grants[req[r].user][req[r].sys]
        BY <1>1, <2>7, <3>2 DEF LoadAccess, At, StaysTrue, IInv, TypeOK
      <4>2. PICK pc \in {"markUsed", "createToken"} :
              req' = [req EXCEPT ![r].pc = pc, ![r].role = role]
        BY <2>7, <3>2, <4>1 DEF LoadAccess
      <4>3. PICK q \in Locals : q = [req[r] EXCEPT !.pc = pc, !.role = role]
        BY <1>1, <4>2 DEF Locals, Pcs, TokenPcs
      <4>4. req'[r] = q
        BY <1>1, <4>2, <4>3
      <4>5. q.pc = pc /\ q.item = req[r].item /\ q.uri = req[r].uri
        BY <1>1, <4>3 DEF Locals
      <4>6. Redeems(q)
        BY <1>1, <2>7, <4>2, <4>5 DEF LoadAccess, At, Redeems
      <4>7. QED
        BY <1>6, <4>4, <4>6
    <3>3. QED
      BY <3>1, <3>2
  <2>8. QED
    BY <1>8, <2>1, <2>2, <2>3, <2>4, <2>5, <2>6, <2>7, OneMoves DEF Proceed
<1>9. QED
  BY <1>5, <1>8

\* What a handler on its way to issue has found unspent when it looked.
AllFresh == \A r \in Requests : req[r].pc \in Issuing => "unspent" \in window[r]

\* The way to issue a token begins where the code or token is found unspent.
LEMMA IssuingBegins ==
    ASSUME IInv, [Next]_vars, NEW r \in Requests, req'[r].pc \in Issuing,
           req[r].pc \notin Issuing
    PROVE  "unspent" \in Unspent(req'[r].item, codes', tokens')
<1>1. req[r] \in Locals /\ req \in [Requests -> Locals]
  BY DEF IInv, TypeOK
<1>a. Finish(r) => req'[r].pc = "idle"
  BY <1>1 DEF Finish, Idle
<1>b. \A pc : Goto(r, pc) => req'[r].pc = pc
  BY <1>1 DEF Goto, Locals
<1>c. \A pc, i : GotoWith(r, pc, i) => req'[r].pc = pc
  BY <1>1 DEF GotoWith, Idle
<1>d. \A pc, u : req' = [req EXCEPT ![r].pc = pc, ![r].user = u] => req'[r].item = req[r].item
  BY <1>1 DEF Locals
<1>2. ASSUME Arrive(r) PROVE FALSE
  <2>1. ASSUME NEW u \in Users, NEW s \in Systems, NEW uri \in Uris, StartAuthorize(r, u, s, uri)
        PROVE  req'[r].pc = "authUser"
    BY <1>1, <2>1 DEF StartAuthorize, Idle
  <2>2. ASSUME NEW s \in Systems, NEW c \in Codes, NEW uri \in Uris, StartCodeGrant(r, s, c, uri)
        PROVE  req'[r].pc = "findCode"
    BY <1>1, <2>2 DEF StartCodeGrant, Idle
  <2>3. ASSUME NEW s \in Systems, NEW t \in Tokens, StartRefreshGrant(r, s, t)
        PROVE  req'[r].pc = "findToken"
    BY <1>1, <2>3 DEF StartRefreshGrant, Idle
  <2>4. ASSUME NEW s \in Systems, NEW t \in Tokens, StartRevoke(r, s, t)
        PROVE  req'[r].pc = "findForRevoke"
    BY <1>1, <2>4 DEF StartRevoke, Idle
  <2>5. QED
    BY <1>2, <2>1, <2>2, <2>3, <2>4 DEF Arrive, Issuing
<1>3. ASSUME AuthUser(r) \/ AuthAccess(r) PROVE FALSE
  <2>1. req'[r].pc \in {"authAccess", "createCode", "idle"}
    BY <1>1, <1>3 DEF AuthUser, AuthAccess, Goto, Finish, Idle, Locals
  <2>2. QED
    BY <2>1 DEF Issuing
<1>4. ASSUME \/ CreateCode(r) \/ AuditAccess(r) \/ RevokeAll(r) \/ RevokeFamily(r) \/ AuditReuse(r)
             \/ CreateToken(r) \/ AuditIssued(r) \/ FindForRevoke(r) \/ RevokeToken(r)
             \/ AuditLogout(r) \/ Abort(r)
      PROVE  FALSE
  <2>1. req'[r].pc \in {"idle", "auditAccess", "auditReuse", "auditIssued", "revokeToken",
                         "auditLogout"}
    BY <1>4, <1>a, <1>b, <1>c DEF CreateCode, AuditAccess, RevokeAll, RevokeFamily, AuditReuse,
       CreateToken, AuditIssued, FindForRevoke, RevokeToken, AuditLogout, Abort
  <2>2. QED
    BY <2>1 DEF Issuing
<1>5. ASSUME RevokeOld(r) \/ LoadUser(r) \/ LoadAccess(r) \/ MarkUsed(r) PROVE FALSE
  BY <1>5 DEF RevokeOld, LoadUser, LoadAccess, MarkUsed, At, Issuing
<1>6. CASE FindCode(r)
  <2>1. /\ req'[r].item = req[r].item /\ ~codes[req[r].item].used /\ codes' = codes
    BY <1>6, <1>a, <1>b, <1>d DEF FindCode, CodeVerdict, NoWrite, Issuing
  <2>2. req[r].item \in Codes
    BY <1>6 DEF FindCode, At, IInv, LocalsStayTrue, StaysTrue
  <2>3. QED
    BY <2>1, <2>2 DEF Unspent
<1>7. CASE FindToken(r)
  <2>1. /\ req'[r].item = req[r].item /\ ~tokens[req[r].item].revoked /\ tokens' = tokens
    BY <1>7, <1>a, <1>b, <1>d DEF FindToken, TokenVerdict, NoWrite, Issuing
  <2>2. req[r].item \in Tokens
    BY <1>7 DEF FindToken, At, IInv, LocalsStayTrue, StaysTrue
  <2>3. QED
    BY <2>1, <2>2 DEF Unspent
<1>8. QED
  BY <1>2, <1>3, <1>4, <1>5, <1>6, <1>7, OneMoves DEF Proceed

LEMMA StepKeepsFresh == IInv /\ IInv' /\ AllFresh /\ [Next]_vars => AllFresh'
<1> SUFFICES ASSUME IInv, IInv', AllFresh, [Next]_vars, NEW r \in Requests,
                    req'[r].pc \in Issuing
             PROVE  "unspent" \in window'[r]
  BY DEF AllFresh
<1>1. req'[r].user # None
  BY DEF IInv, LocalsStayTrue, StaysTrue, Issuing
<1>2. \/ UNCHANGED vars
      \/ window[r] \cup Unspent(req'[r].item, codes', tokens') \subseteq window'[r]
  BY <1>1, WindowGrows
<1>3. CASE req[r].pc \in Issuing
  BY <1>2, <1>3 DEF AllFresh, vars
<1>4. CASE req[r].pc \notin Issuing
  <2>1. "unspent" \in Unspent(req'[r].item, codes', tokens')
    BY <1>4, IssuingBegins
  <2>2. QED
    BY <1>2, <1>4, <2>1 DEF vars
<1>5. QED
  BY <1>3, <1>4

\* Whoever is on the way to issue a token found the code or token unspent when
\* it looked, so that no exchange begins after another has spent it; and a code
\* is one issued, with an audit row, to the user and client the handler works
\* for and for the redirect URI its request repeated.
THEOREM RedemptionTheorem == Spec => []RedeemedAsIssued
<1>1. Init => AllRedeem /\ AllFresh
  BY DEF Init, AllRedeem, Redeems, AllFresh, Issuing, Idle
<1>2. ASSUME IInv, AllRedeem, AllFresh, AuditedBeforeDelivered PROVE RedeemedAsIssued
  <2>1. ASSUME NEW r \in Requests, req[r].pc \in Issuing, req[r].item \in Codes
        PROVE  /\ codes[req[r].item].system = req[r].sys
               /\ codes[req[r].item].uri = req[r].uri
               /\ codes[req[r].item].user = req[r].user
               /\ <<"SYSTEM_ACCESS", req[r].item>> \in audit
    <3>1. req[r].pc # "revokeOld"
      BY <1>2, <2>1 DEF IInv, LocalsStayTrue, StaysTrue
    <3>2. QED
      BY <1>2, <2>1, <3>1 DEF IInv, LocalsStayTrue, StaysTrue, Owner, AllRedeem, Redeems,
         AuditedBeforeDelivered, Issuing
  <2>2. QED
    BY <1>2, <2>1 DEF AllFresh, RedeemedAsIssued
<1>3. QED
  BY <1>1, <1>2, StepKeepsRedeems, StepKeepsFresh, AuditTheorem, KnowledgeTheorem, PTL
     DEF Spec, IInv

-----------------------------------------------------------------------------
(* The handlers implement the book of codes and tokens.  Its promises about
   single use and dead lineages do not hold of the code when requests about
   one lineage overlap (the run OAuthBurnRace).  They are proved of the
   behaviours in which such requests do not, however many others there are
   and wherever handlers die (OneRequestPerLineage). *)

USE LedgerNoneAssumption

Book == INSTANCE TokenLedgerProofs WITH codes <- LedgerCodes, tokens <- LedgerTokens

\* What TokenLedger assumes of its constants holds of these.
LEMMA BookConstants == Book!ConstantsDistinct
BY LedgerNoneAssumption DEF Book!ConstantsDistinct, Book!CodeEntries, Book!TokenEntries,
   Ledger!CodeEntries, Ledger!TokenEntries, Items

LEMMA InitRefines == Init => Book!Init
BY DEF Init, Book!Init, LedgerCodes, LedgerTokens

\* The mapped tables depend on the rows alone.
LEMMA SameRowsSameBook ==
    ASSUME UNCHANGED <<codes, tokens, origin>> PROVE UNCHANGED Book!lvars
BY DEF Book!lvars, LedgerCodes, LedgerTokens

\* Ageing a row does not show in the book.
LEMMA TickStutters == ASSUME IInv, Tick PROVE UNCHANGED Book!lvars
<1> USE DEF IInv, TypeOK, Book!lvars
<1>1. ASSUME NEW c \in Codes, ExpireCode(c) PROVE UNCHANGED Book!lvars
  <2>1. codes[c] \in CodeRows /\ [codes[c] EXCEPT !.expired = TRUE] \in CodeRows
    <3>1. codes[c] \in CodeRows
      BY <1>1 DEF ExpireCode
    <3>2. QED
      BY <3>1 DEF CodeRows
  <2>2. codes' = [codes EXCEPT ![c] = [codes[c] EXCEPT !.expired = TRUE]]
    BY <1>1 DEF ExpireCode
  <2>3. /\ codes'[c] # None /\ codes'[c].user = codes[c].user
        /\ codes'[c].system = codes[c].system /\ codes'[c].used = codes[c].used
    BY <2>1, <2>2 DEF CodeRows
  <2>4. LedgerCodes' = LedgerCodes
    BY <2>1, <2>2, <2>3 DEF LedgerCodes
  <2>5. QED
    BY <1>1, <2>4 DEF ExpireCode, WritesCodes, LedgerTokens
<1>2. ASSUME NEW t \in Tokens, ExpireToken(t) PROVE UNCHANGED Book!lvars
  <2>1. tokens[t] \in TokenRows /\ [tokens[t] EXCEPT !.expired = TRUE] \in TokenRows
    <3>1. tokens[t] \in TokenRows
      BY <1>2 DEF ExpireToken
    <3>2. QED
      BY <3>1 DEF TokenRows
  <2>2. tokens' = [tokens EXCEPT ![t] = [tokens[t] EXCEPT !.expired = TRUE]]
    BY <1>2 DEF ExpireToken
  <2>3. /\ tokens'[t] # None /\ tokens'[t].user = tokens[t].user
        /\ tokens'[t].system = tokens[t].system
        /\ tokens'[t].family = tokens[t].family
        /\ tokens'[t].revoked = tokens[t].revoked
    BY <2>1, <2>2 DEF TokenRows
  <2>4. LedgerTokens' = LedgerTokens
    BY <2>1, <2>2, <2>3 DEF LedgerTokens
  <2>5. QED
    BY <1>2, <2>4 DEF ExpireToken, WritesTokens, LedgerCodes
<1>3. QED
  BY <1>1, <1>2 DEF Tick

LEMMA CreateCodeRefines ==
    ASSUME IInv, NEW r \in Requests, CreateCode(r) PROVE Book!Next
<1>1. req[r].user \in Users /\ req[r].sys \in Systems /\ req[r].uri \in Uris
  BY DEF CreateCode, At, IInv, LocalsStayTrue, StaysTrue
<1>2. PICK c \in Codes :
        /\ codes[c] = None
        /\ codes' = [codes EXCEPT ![c] =
                       [user |-> req[r].user, system |-> req[r].sys,
                        uri |-> req[r].uri, expired |-> FALSE, used |-> FALSE]]
  BY DEF CreateCode
<1>3. codes'[c] # None
  <2>1. [user |-> req[r].user, system |-> req[r].sys, uri |-> req[r].uri,
         expired |-> FALSE, used |-> FALSE] \in CodeRows
    BY <1>1 DEF CodeRows
  <2>2. QED
    BY <1>2, <2>1 DEF IInv, TypeOK
<1>4. LedgerCodes' = [LedgerCodes EXCEPT ![c] =
                        [user |-> req[r].user, system |-> req[r].sys, used |-> FALSE]]
  BY <1>1, <1>2, <1>3 DEF LedgerCodes, IInv, TypeOK
<1>5. LedgerCodes[c] = None /\ UNCHANGED <<LedgerTokens, origin>>
  BY <1>2 DEF LedgerCodes, LedgerTokens, CreateCode, WritesCodes
<1>6. Book!IssueCode(c, req[r].user, req[r].sys)
  BY <1>4, <1>5 DEF Book!IssueCode
<1>7. QED
  BY <1>1, <1>6 DEF Book!Next

LEMMA MarkUsedRefines ==
    ASSUME IInv, NEW r \in Requests, MarkUsed(r) PROVE Book!Next
<1>1. PICK c \in Codes : c = req[r].item /\ codes[c] # None
  BY DEF MarkUsed, At, IInv, LocalsStayTrue, StaysTrue, Exists
<1>2. codes' = [codes EXCEPT ![c] = [codes[c] EXCEPT !.used = TRUE]]
  BY <1>1 DEF MarkUsed
<1>3. codes[c] \in CodeRows
  BY <1>1 DEF IInv, TypeOK
<1>4. [codes[c] EXCEPT !.used = TRUE] \in CodeRows
  BY <1>3 DEF CodeRows
<1>5. LedgerCodes' = [LedgerCodes EXCEPT ![c].used = TRUE]
  <2>1. ASSUME NEW x \in Codes
        PROVE LedgerCodes'[x] = [LedgerCodes EXCEPT ![c].used = TRUE][x]
    <3>1. CASE x = c
      <4>1. codes'[c] = [codes[c] EXCEPT !.used = TRUE] /\ codes'[c] # None
        BY <1>2, <1>4 DEF IInv, TypeOK
      <4>2. LedgerCodes'[c] = [user |-> codes[c].user, system |-> codes[c].system,
                               used |-> TRUE]
        BY <4>1, <1>3 DEF LedgerCodes, CodeRows
      <4>3. LedgerCodes[c] = [user |-> codes[c].user, system |-> codes[c].system,
                              used |-> codes[c].used]
        BY <1>1 DEF LedgerCodes
      <4>4. QED
        BY <3>1, <4>2, <4>3 DEF LedgerCodes
    <3>2. CASE x # c
      BY <3>2, <1>2 DEF LedgerCodes, IInv, TypeOK
    <3>3. QED
      BY <3>1, <3>2
  <2>2. QED
    BY <2>1 DEF LedgerCodes
<1>6. LedgerCodes[c] # None
  BY <1>1, LedgerNoneAssumption, <1>3 DEF LedgerCodes, Ledger!CodeEntries, CodeRows
<1>7. Book!UseCode(c)
  BY <1>5, <1>6 DEF Book!UseCode, MarkUsed, WritesCodes, LedgerTokens
<1>8. QED
  BY <1>7 DEF Book!Next

\* What the book says of an item is what its row says.
LEMMA BookReadsRows ==
    ASSUME IInv, NEW i \in Items, Exists(i)
    PROVE  /\ Book!Issued(i)
           /\ Book!Spent(i) <=> Spent(i)
           /\ Book!Owner(i) = Owner(i)
<1>1. CASE i \in Codes
  <2>1. codes[i] \in CodeRows /\ codes[i] # None
    BY <1>1 DEF Exists, IInv, TypeOK
  <2>2. LedgerCodes[i] = [user |-> codes[i].user, system |-> codes[i].system,
                          used |-> codes[i].used]
    BY <1>1, <2>1 DEF LedgerCodes
  <2>3. LedgerCodes[i] # None
    BY <2>1, <2>2 DEF Ledger!CodeEntries, CodeRows
  <2>4. QED
    BY <1>1, <2>2, <2>3 DEF Book!Issued, Book!Spent, Book!Owner, Spent, Owner
<1>2. CASE i \notin Codes
  <2>1. i \in Tokens /\ tokens[i] \in TokenRows /\ tokens[i] # None
    BY <1>2 DEF Exists, IInv, TypeOK, Items
  <2>2. LedgerTokens[i] = [user |-> tokens[i].user, system |-> tokens[i].system,
                           family |-> tokens[i].family, revoked |-> tokens[i].revoked]
    BY <2>1 DEF LedgerTokens
  <2>3. LedgerTokens[i] # None
    BY <2>1, <2>2 DEF Ledger!TokenEntries, TokenRows
  <2>4. QED
    BY <1>2, <2>2, <2>3 DEF Book!Issued, Book!Spent, Book!Owner, Spent, Owner
<1>3. QED
  BY <1>1, <1>2

LEMMA CreateTokenRefines ==
    ASSUME IInv, NEW r \in Requests, CreateToken(r) PROVE Book!Next
<1>1. PICK i \in Items : i = req[r].item
  BY DEF CreateToken, At, IInv, LocalsStayTrue, StaysTrue, Exists
<1>2. /\ Exists(i) /\ Spent(i) /\ Owner(i) = <<req[r].user, req[r].sys>>
      /\ req[r].user \in Users /\ req[r].sys \in Systems
  BY <1>1 DEF CreateToken, At, IInv, LocalsStayTrue, StaysTrue
<1>3. PICK t \in Tokens :
        LET family == IF i \in Codes THEN t ELSE tokens[i].family IN
        /\ tokens[t] = None
        /\ tokens' = [tokens EXCEPT ![t] =
                        [user |-> req[r].user, system |-> req[r].sys,
                         family |-> family, expired |-> FALSE, revoked |-> FALSE]]
        /\ origin' = [origin EXCEPT ![t] = i]
  BY <1>1 DEF CreateToken
<1>4. PICK family \in Tokens : family = IF i \in Codes THEN t ELSE tokens[i].family
  BY <1>2 DEF Exists, IInv, TypeOK, TokenRows, Items
<1>5. family = IF i \in Codes THEN t ELSE LedgerTokens[i].family
  BY <1>2, <1>4 DEF LedgerTokens, Exists, Items
<1>6. tokens' = [tokens EXCEPT ![t] =
                   [user |-> req[r].user, system |-> req[r].sys,
                    family |-> family, expired |-> FALSE, revoked |-> FALSE]]
  BY <1>3, <1>4
<1>7. tokens'[t] # None
  <2>1. [user |-> req[r].user, system |-> req[r].sys, family |-> family,
         expired |-> FALSE, revoked |-> FALSE] \in TokenRows
    BY <1>2 DEF TokenRows
  <2>2. QED
    BY <1>6, <2>1 DEF IInv, TypeOK
<1>8. LedgerTokens' = [LedgerTokens EXCEPT ![t] =
                         [user |-> req[r].user, system |-> req[r].sys,
                          family |-> family, revoked |-> FALSE]]
  BY <1>6, <1>7 DEF LedgerTokens, IInv, TypeOK
<1>9. Book!Issued(i) /\ Book!Spent(i) /\ Book!Owner(i) = <<req[r].user, req[r].sys>>
  BY <1>2, BookReadsRows
<1>10. LedgerTokens[t] = None /\ UNCHANGED LedgerCodes
  BY <1>3 DEF LedgerTokens, LedgerCodes, CreateToken, WritesTokens
<1>11. Book!IssueToken(t, i)
  BY <1>3, <1>5, <1>8, <1>9, <1>10 DEF Book!IssueToken
<1>12. QED
  BY <1>11 DEF Book!Next, Items

LEMMA RevocationRefines ==
    ASSUME IInv, NEW r \in Requests,
           RevokeOld(r) \/ RevokeToken(r) \/ RevokeFamily(r) \/ RevokeAll(r)
    PROVE  Book!Next
<1>1. PICK S \in SUBSET Tokens : Revokes(S)
  BY RevokingSteps
<1>2. UNCHANGED <<codes, origin>>
  BY RevokingSteps
<1>3. LedgerTokens' = [t \in Tokens |->
                         IF t \in S /\ LedgerTokens[t] # None
                         THEN [LedgerTokens[t] EXCEPT !.revoked = TRUE]
                         ELSE LedgerTokens[t]]
  <2> SUFFICES ASSUME NEW t \in Tokens
               PROVE LedgerTokens'[t] = IF t \in S /\ LedgerTokens[t] # None
                                        THEN [LedgerTokens[t] EXCEPT !.revoked = TRUE]
                                        ELSE LedgerTokens[t]
    BY DEF LedgerTokens
  <2>1. CASE tokens[t] = None
    BY <1>1, <2>1 DEF Revokes, LedgerTokens
  <2>2. CASE tokens[t] # None
    <3>1. tokens[t] \in TokenRows
      BY <2>2 DEF IInv, TypeOK
    <3>2. LedgerTokens[t] = [user |-> tokens[t].user, system |-> tokens[t].system,
                             family |-> tokens[t].family, revoked |-> tokens[t].revoked]
      BY <2>2 DEF LedgerTokens
    <3>3. LedgerTokens[t] # None
      BY <3>1, <3>2 DEF Ledger!TokenEntries, TokenRows
    <3>4. CASE t \notin S
      BY <1>1, <3>4 DEF Revokes, LedgerTokens
    <3>5. CASE t \in S
      <4>1. tokens'[t] = [tokens[t] EXCEPT !.revoked = TRUE]
        BY <1>1, <2>2, <3>5 DEF Revokes
      <4>2. tokens'[t] \in TokenRows
        BY <3>1, <4>1 DEF TokenRows
      <4>3. LedgerTokens'[t] = [user |-> tokens[t].user, system |-> tokens[t].system,
                                family |-> tokens[t].family, revoked |-> TRUE]
        BY <3>1, <4>1, <4>2 DEF LedgerTokens, TokenRows
      <4>4. [LedgerTokens[t] EXCEPT !.revoked = TRUE] =
              [user |-> tokens[t].user, system |-> tokens[t].system,
               family |-> tokens[t].family, revoked |-> TRUE]
        <5>1. ASSUME NEW e \in Ledger!TokenEntries
              PROVE  [e EXCEPT !.revoked = TRUE] =
                       [user |-> e.user, system |-> e.system,
                        family |-> e.family, revoked |-> TRUE]
          <6>1. ASSUME NEW a \in Ledger!TokenEntries, NEW b \in Ledger!TokenEntries,
                       a.user = b.user, a.system = b.system, a.family = b.family,
                       a.revoked = b.revoked
                PROVE  a = b
            BY <6>1 DEF Ledger!TokenEntries
          <6> DEFINE a == [e EXCEPT !.revoked = TRUE]
                     b == [user |-> e.user, system |-> e.system,
                           family |-> e.family, revoked |-> TRUE]
          <6>2. a \in Ledger!TokenEntries
            BY DEF Ledger!TokenEntries
          <6>3. b \in Ledger!TokenEntries
            BY DEF Ledger!TokenEntries
          <6>4. /\ a.user = e.user /\ a.system = e.system /\ a.family = e.family
                /\ a.revoked = TRUE
            BY DEF Ledger!TokenEntries
          <6>5. /\ b.user = e.user /\ b.system = e.system /\ b.family = e.family
                /\ b.revoked = TRUE
            OBVIOUS
          <6>6. a = b
            <7> HIDE DEF a, b
            <7>1. QED
              BY <6>1, <6>2, <6>3, <6>4, <6>5
          <6>7. QED
            BY <6>6
        <5>2. LedgerTokens[t] \in Ledger!TokenEntries
          BY <3>1, <3>2 DEF Ledger!TokenEntries, TokenRows
        <5>3. /\ LedgerTokens[t].user = tokens[t].user
              /\ LedgerTokens[t].system = tokens[t].system
              /\ LedgerTokens[t].family = tokens[t].family
          BY <3>2
        <5>4. QED
          BY <5>1, <5>2, <5>3
      <4>5. QED
        BY <3>3, <3>5, <4>3, <4>4
    <3>6. QED
      BY <3>4, <3>5
  <2>3. QED
    BY <2>1, <2>2
<1>4. Book!RevokeTokens(S)
  BY <1>2, <1>3 DEF Book!RevokeTokens, LedgerCodes
<1>5. QED
  BY <1>4 DEF Book!Next

LEMMA StepRefines == ASSUME IInv, [Next]_vars PROVE [Book!Next]_(Book!lvars)
<1>1. ASSUME NEW r \in Requests, Arrive(r) \/ Abort(r) PROVE UNCHANGED Book!lvars
  BY <1>1, SameRowsSameBook DEF Arrive, StartAuthorize, StartCodeGrant,
     StartRefreshGrant, StartRevoke, Abort, NoWrite
<1>2. ASSUME NEW r \in Requests, Proceed(r) PROVE [Book!Next]_(Book!lvars)
  <2>1. CASE \/ CreateCode(r) \/ MarkUsed(r) \/ CreateToken(r) \/ RevokeOld(r)
             \/ RevokeToken(r) \/ RevokeFamily(r) \/ RevokeAll(r)
    BY <2>1, CreateCodeRefines, MarkUsedRefines, CreateTokenRefines, RevocationRefines
  <2>2. CASE \/ AuthUser(r) \/ AuthAccess(r) \/ AuditAccess(r) \/ FindCode(r)
             \/ FindToken(r) \/ AuditReuse(r) \/ LoadUser(r) \/ LoadAccess(r)
             \/ AuditIssued(r) \/ FindForRevoke(r) \/ AuditLogout(r)
    BY <2>2, SameRowsSameBook DEF AuthUser, AuthAccess, AuditAccess, FindCode,
       FindToken, AuditReuse, LoadUser, LoadAccess, AuditIssued, FindForRevoke,
       AuditLogout, NoWrite, WritesAudit
  <2>3. QED
    BY <1>2, <2>1, <2>2 DEF Proceed
<1>3. CASE Tick
  BY <1>3, TickStutters
<1>4. CASE Administer
  BY <1>4, SameRowsSameBook DEF Administer, SetUserActive, SetMustChange, UpdateSystem,
     SetGrant, WritesTables
<1>5. CASE UNCHANGED vars
  BY <1>5, SameRowsSameBook DEF vars
<1>6. QED
  BY <1>1, <1>2, <1>3, <1>4, <1>5 DEF Next

LEMMA RefinesBook == Spec => Book!Spec
<1>1. Init => Book!Init
  BY InitRefines
<1>2. IInv /\ [Next]_vars => [Book!Next]_(Book!lvars)
  BY StepRefines
<1>3. QED
  BY <1>1, <1>2, KnowledgeTheorem, PTL DEF Spec, Book!Spec, IInv

\* Whatever requests run at once and wherever they die, the tables of codes and
\* refresh tokens behave as the book of TokenLedger.
THEOREM RefinementTheorem == Spec => ImplementsLedger
<1>1. Book!Init => Ledger!Init
  BY DEF Book!Init, Ledger!Init
<1>2. [Book!Next]_(Book!lvars) => [Ledger!Next]_(Ledger!lvars)
  <2>1. Book!lvars = Ledger!lvars /\ (UNCHANGED Book!lvars => UNCHANGED Ledger!lvars)
    BY DEF Book!lvars, Ledger!lvars
  <2>2. Book!Next => Ledger!Next
    BY DEF Book!Next, Book!IssueCode, Book!UseCode, Book!IssueToken, Book!RevokeTokens,
           Book!Issued, Book!Spent, Book!Owner,
           Ledger!Next, Ledger!IssueCode, Ledger!UseCode, Ledger!IssueToken,
           Ledger!RevokeTokens, Ledger!Issued, Ledger!Spent, Ledger!Owner
  <2>3. QED
    BY <2>1, <2>2
<1>3. QED
  BY <1>1, <1>2, RefinesBook, PTL DEF ImplementsLedger, Book!Spec, Ledger!Spec

\* Every family leads back to a used code of the same user and system: proved
\* of the book, and read off the rows.
THEOREM LineageTheorem == Spec => []LineageRooted
<1>1. IInv /\ Book!LineageRooted => LineageRooted
  <2> SUFFICES ASSUME IInv, Book!LineageRooted, NEW t \in IssuedTokens PROVE Rooted(t)
    BY DEF LineageRooted
  <2>1. /\ tokens[t] \in TokenRows /\ tokens[t] # None /\ t \in Items
        /\ t \notin Codes /\ Exists(t)
    BY DEF IssuedTokens, IInv, TypeOK, Items, Exists
  <2>2. t \in Book!IssuedTokens /\ Book!Rooted(t)
    <3>1. LedgerTokens[t] # None
      BY <2>1, BookReadsRows DEF Book!Issued
    <3>2. QED
      BY <3>1, <2>1 DEF Book!IssuedTokens, Book!LineageRooted, IssuedTokens
  <2>3. PICK root \in Tokens, c \in Codes :
          /\ LedgerTokens[t].family = root /\ LedgerTokens[root] # None
          /\ LedgerTokens[root].family = root /\ origin[root] = c
          /\ Book!Issued(c) /\ Book!Spent(c) /\ Book!Owner(t) = Book!Owner(c)
    BY <2>2 DEF Book!Rooted, Book!IssuedTokens
  <2>4. /\ tokens[t].family = root /\ tokens[root] # None
        /\ tokens[root].family = root /\ codes[c] # None
    <3>1. tokens[root] # None /\ codes[c] # None
      BY <2>3 DEF LedgerTokens, LedgerCodes, Book!Issued
    <3>2. LedgerTokens[t].family = tokens[t].family
      BY <2>1 DEF LedgerTokens, IssuedTokens
    <3>3. LedgerTokens[root].family = tokens[root].family
      BY <3>1 DEF LedgerTokens
    <3>4. QED
      BY <2>3, <3>1, <3>2, <3>3
  <2>5. Exists(c) /\ c \in Items
    BY <2>4 DEF Exists, Items
  <2>6. codes[c].used /\ Owner(t) = Owner(c)
    BY <2>1, <2>3, <2>5, BookReadsRows DEF Spent
  <2>7. tokens[t].user = codes[c].user /\ tokens[t].system = codes[c].system
    BY <2>1, <2>6 DEF Owner
  <2>8. QED
    BY <2>3, <2>4, <2>6, <2>7 DEF Rooted, IssuedTokens, IssuedCodes
<1>2. Book!Spec => []Book!LineageRooted
  BY Book!LedgerSound, BookConstants, PTL
<1>3. QED
  BY <1>1, <1>2, RefinesBook, KnowledgeTheorem, PTL DEF IInv

-----------------------------------------------------------------------------
(* Requests about one lineage that do not overlap *)

\* The code a code or token goes back to: it names the lineage.
RootCode(i) == IF i \in Codes THEN i ELSE origin[tokens[i].family]

\* No two requests in flight present codes or tokens of one lineage.  Nothing
\* in the code sees to it: clients do, by using a code or token once, in turn.
OneRequestPerLineage ==
    \A r1, r2 \in Requests :
      r1 # r2 /\ req[r1].item # None /\ req[r2].item # None =>
        RootCode(req[r1].item) # RootCode(req[r2].item)

\* The tokens of the lineage of c are revoked, all but one perhaps.
DeadBut(c, t0) == \A t \in IssuedTokens : RootCode(t) = c /\ t # t0 => tokens[t].revoked
Dead(c)        == \A t \in IssuedTokens : RootCode(t) = c => tokens[t].revoked
Untouched(c)   == \A t \in IssuedTokens : RootCode(t) # c
Childless(t0)  == \A t \in IssuedTokens : origin[t] # t0

\* What a handler with locals q may rely on while it is alone with its lineage.
Alone(q) ==
    /\ q.item \in Codes =>
         /\ q.pc \in {"loadUser", "loadAccess", "markUsed"} => ~codes[q.item].used
         /\ q.pc = "createToken" => Untouched(q.item)
         /\ q.pc \in {"revokeAll", "auditReuse"} => codes[q.item].used
         /\ q.pc = "auditReuse" => Dead(q.item)
    /\ q.item \in Tokens =>
         /\ q.pc \in Issuing => Childless(q.item)
         /\ q.pc \in {"revokeOld", "revokeToken"} => DeadBut(RootCode(q.item), q.item)
         /\ q.pc \in {"loadUser", "loadAccess", "createToken", "auditReuse", "auditLogout"} =>
              Dead(RootCode(q.item))
AllAlone == \A r \in Requests : Alone(req[r])

\* A token belongs to the lineage of what was exchanged for it, which is spent.
Descends  == \A t \in IssuedTokens : /\ Exists(origin[t]) /\ Spent(origin[t])
                                     /\ RootCode(t) = RootCode(origin[t])
UsedOnce  == \A t1, t2 \in IssuedTokens : origin[t1] = origin[t2] => t1 = t2
OneUsable == \A t1, t2 \in IssuedTokens :
               /\ RootCode(t1) = RootCode(t2)
               /\ ~tokens[t1].revoked /\ ~tokens[t2].revoked
               => t1 = t2

\* A lineage with a recorded incident or logout is dead and nobody revives it.
Buried(i) == /\ Exists(i) /\ Dead(RootCode(i)) /\ codes[RootCode(i)].used
             /\ \A r \in Requests :
                  req[r].item # None /\ RootCode(req[r].item) = RootCode(i) =>
                    req[r].pc \notin Issuing
AllBuried == \A action \in {"ACCESS_REVOKED", "LOGOUT"}, i \in Items :
               <<action, i>> \in audit => Buried(i)

LineageInv == Descends /\ UsedOnce /\ OneUsable /\ AllAlone /\ AllBuried

\* The root code of an existing item exists, and is used once a token is there.
LEMMA RootsExist ==
    ASSUME IInv, LineageRooted, NEW i \in Items, Exists(i)
    PROVE  /\ RootCode(i) \in Codes /\ codes[RootCode(i)] # None
           /\ i \in Tokens => /\ codes[RootCode(i)].used
                              /\ tokens[i].family \in IssuedTokens
                              /\ Owner(i) = Owner(RootCode(i))
<1>1. CASE i \in Codes
  BY <1>1 DEF RootCode, Exists
<1>2. CASE i \notin Codes
  <2>1. i \in IssuedTokens
    BY <1>2 DEF Exists, IssuedTokens, Items
  <2>2. Rooted(i)
    BY <2>1 DEF LineageRooted
  <2>3. QED
    BY <1>2, <2>2 DEF Rooted, RootCode, IssuedCodes, Owner
<1>3. QED
  BY <1>1, <1>2

\* What exists stays in its lineage.
LEMMA RootKept ==
    ASSUME IInv, LineageRooted, RowsKept, NEW i \in Items, Exists(i)
    PROVE  RootCode(i)' = RootCode(i)
<1>1. CASE i \in Codes
  BY <1>1 DEF RootCode
<1>2. CASE i \notin Codes
  <2>1. i \in IssuedTokens /\ i \in Tokens
    BY <1>2 DEF Exists, IssuedTokens, Items
  <2>2. tokens[i].family \in IssuedTokens
    BY <2>1, RootsExist
  <2>3. tokens'[i].family = tokens[i].family
        /\ origin'[tokens[i].family] = origin[tokens[i].family]
    BY <2>1, <2>2 DEF RowsKept
  <2>4. QED
    BY <1>2, <2>3 DEF RootCode
<1>3. QED
  BY <1>1, <1>2

\* Tokens that were there have been in the lineage, and stay as dead.
LEMMA OldTokens ==
    ASSUME IInv, LineageRooted, RowsKept, NEW t \in IssuedTokens
    PROVE  /\ t \in IssuedTokens' /\ RootCode(t)' = RootCode(t)
           /\ origin'[t] = origin[t]
           /\ tokens[t].revoked => tokens'[t].revoked
<1>1. t \in Items /\ t \notin Codes /\ Exists(t)
  BY DEF IssuedTokens, Items, Exists
<1>2. Exists(t)' /\ (Spent(t) => Spent(t)')
  BY <1>1 DEF RowsKept
<1>3. QED
  BY <1>1, <1>2, RootKept DEF RowsKept, IssuedTokens, Exists, Spent

\* The tokens a step inserts stay out of lineage c, and are not issued for i.
NewElsewhere(c, i) ==
    \A t \in IssuedTokens' : t \notin IssuedTokens => RootCode(t)' # c /\ origin'[t] # i

LEMMA LineageKept ==
    ASSUME IInv, LineageRooted, RowsKept, NEW c, NEW i, NewElsewhere(c, i)
    PROVE  /\ Dead(c) => Dead(c)'
           /\ \A t0 : DeadBut(c, t0) => DeadBut(c, t0)'
           /\ Untouched(c) => Untouched(c)'
           /\ Childless(i) => Childless(i)'
BY OldTokens DEF NewElsewhere, Dead, DeadBut, Untouched, Childless

\* The pcs at which Alone and Buried say something.
Attentive == Issuing \cup {"revokeAll", "revokeToken", "auditReuse", "auditLogout"}

LEMMA NothingToKnow ==
    ASSUME NEW q, q.pc \notin Attentive
    PROVE  Alone(q) /\ Alone(q)'
BY DEF Alone, Attentive, Issuing

\* A handler may rely on what it knows as long as others stay off its lineage.
LEMMA AloneStays ==
    ASSUME IInv, LineageRooted, RowsKept, NEW q \in Locals, StaysTrue(q), Alone(q),
           NewElsewhere(RootCode(q.item), q.item),
           q.item \in Codes /\ ~codes[q.item].used => ~codes'[q.item].used
    PROVE  Alone(q)'
<1>1. CASE q.pc \notin Attentive
  BY <1>1, NothingToKnow
<1>2. CASE q.pc \in Attentive
  <2>1. Exists(q.item) /\ q.item \in Items
    BY <1>2 DEF StaysTrue, Attentive, Issuing, Exists
  <2>2. RootCode(q.item)' = RootCode(q.item)
    BY <2>1, RootKept
  <2>3. PICK c : c = RootCode(q.item)
    OBVIOUS
  <2>4. /\ Dead(c) => Dead(c)'
        /\ DeadBut(c, q.item) => DeadBut(c, q.item)'
        /\ Untouched(c) => Untouched(c)'
        /\ Childless(q.item) => Childless(q.item)'
    BY <2>3, LineageKept
  <2>5. q.item \in Codes => /\ c = q.item
                            /\ codes[q.item].used => codes'[q.item].used
    BY <2>1, <2>3 DEF RootCode, RowsKept, Spent
  <2>6. CASE q.item \in Codes
    <3>1. q.item \notin Tokens
      BY <2>6
    <3>2. QED
      BY <2>4, <2>5, <2>6, <3>1 DEF Alone
  <2>7. CASE q.item \in Tokens
    <3>1. q.item \notin Codes /\ RootCode(q.item)' = c
      BY <2>2, <2>3, <2>7
    <3>2. Dead(RootCode(q.item))' = Dead(c)' /\ DeadBut(RootCode(q.item), q.item)' = DeadBut(c, q.item)'
      BY <3>1 DEF Dead, DeadBut
    <3>3. QED
      BY <2>3, <2>4, <2>7, <3>1, <3>2 DEF Alone
  <2>8. QED
    BY <2>1, <2>6, <2>7 DEF Items
<1>3. QED
  BY <1>1, <1>2

\* Steps that insert no token leave the tree of tokens as it is.
LEMMA TreeStays ==
    ASSUME IInv, LineageRooted, RowsKept, IssuedTokens' \subseteq IssuedTokens,
           Descends, UsedOnce, OneUsable
    PROVE  Descends' /\ UsedOnce' /\ OneUsable'
<1>1. UsedOnce'
  BY OldTokens DEF UsedOnce
<1>2. OneUsable'
  BY OldTokens DEF OneUsable
<1>3. ASSUME NEW t \in IssuedTokens
      PROVE  \E i : /\ origin'[t] = i /\ Exists(i)' /\ Spent(i)'
                    /\ RootCode(t)' = RootCode(i)'
  <2>1. PICK i : i = origin[t]
    OBVIOUS
  <2>2. i \in Items /\ Exists(i) /\ Spent(i) /\ RootCode(t) = RootCode(i)
    BY <2>1 DEF Descends, Exists
  <2>3. Exists(i)' /\ Spent(i)' /\ RootCode(i)' = RootCode(i)
    BY <2>2, RootKept DEF RowsKept
  <2>4. origin'[t] = i /\ RootCode(t)' = RootCode(t)
    BY <2>1, OldTokens
  <2>5. QED
    BY <2>2, <2>3, <2>4
<1>4. Descends'
  BY <1>3 DEF Descends, Exists, Spent, RootCode
<1>5. QED
  BY <1>1, <1>2, <1>4

\* A handler comes to where it may insert a token only with something unspent.
EntersUnspent(r) ==
    req'[r].pc \in Issuing =>
      /\ req'[r].item = req[r].item /\ Exists(req[r].item)
      /\ req[r].pc \in Issuing \/ ~Spent(req[r].item)

LEMMA BuriedStays ==
    ASSUME IInv, LineageRooted, RowsKept, NEW i \in Items, Buried(i),
           NewElsewhere(RootCode(i), i), \A r \in Requests : EntersUnspent(r)
    PROVE  Buried(i)'
<1>1. PICK c \in Codes : c = RootCode(i) /\ codes[c] # None
  BY RootsExist DEF Buried
<1>2. Exists(i) /\ Dead(c) /\ codes[c].used /\ c \in Items /\ Exists(c)
  BY <1>1 DEF Buried, Items, Exists
<1>3. Exists(i)' /\ RootCode(i)' = c /\ codes'[c].used
  BY <1>1, <1>2, RootKept DEF RowsKept, Spent
<1>4. Dead(c)'
  BY <1>1, <1>2, LineageKept
<1>5. ASSUME NEW r \in Requests, req'[r].item # None, RootCode(req[r].item)' = c,
             req'[r].pc \in Issuing
      PROVE  FALSE
  <2>1. PICK j : j = req[r].item
    OBVIOUS
  <2>2. /\ req'[r].item = j /\ Exists(j) /\ j \in Items /\ j # None
        /\ req[r].pc \in Issuing \/ ~Spent(j)
    BY <1>5, <2>1 DEF EntersUnspent, Exists
  <2>3. RootCode(j)' = c
    BY <1>5, <2>2 DEF RootCode
  <2>4. RootCode(j) = c
    BY <2>2, <2>3, RootKept
  <2>5. req[r].pc \notin Issuing
    BY <1>1, <2>1, <2>2, <2>4 DEF Buried
  <2>6. CASE j \in Codes
    BY <1>2, <2>2, <2>4, <2>5, <2>6 DEF RootCode, Spent
  <2>7. CASE j \notin Codes
    <3>1. j \in IssuedTokens
      BY <2>2, <2>7 DEF Items, Exists, IssuedTokens
    <3>2. QED
      BY <1>2, <2>2, <2>4, <2>5, <2>7, <3>1 DEF Dead, Spent
  <2>8. QED
    BY <2>6, <2>7
<1>6. Dead(RootCode(i))' /\ codes'[RootCode(i)'].used
  BY <1>3, <1>4 DEF Dead
<1>7. QED
  BY <1>3, <1>5, <1>6 DEF Buried

\* Where a step takes its handler: most answer, or go on to where nothing is
\* promised yet.
LEMMA HarmlessTurns ==
    ASSUME IInv, NEW r \in Requests,
           \/ Arrive(r) \/ Abort(r) \/ AuthUser(r) \/ AuthAccess(r) \/ CreateCode(r)
           \/ AuditAccess(r) \/ CreateToken(r) \/ AuditIssued(r) \/ AuditReuse(r)
           \/ AuditLogout(r) \/ Finish(r)
    PROVE  req'[r].pc \notin Attentive
<1>0. req[r] \in Locals /\ req \in [Requests -> Locals]
  BY DEF IInv, TypeOK
<1>1. Finish(r) => req'[r].pc = "idle"
  BY <1>0 DEF Finish, Idle
<1>2. \A pc, i : GotoWith(r, pc, i) => req'[r].pc = pc
  BY <1>0 DEF GotoWith, Idle
<1>3. ASSUME Arrive(r) PROVE req'[r].pc \in {"authUser", "findCode", "findToken", "findForRevoke"}
  <2>1. ASSUME NEW u \in Users, NEW s \in Systems, NEW uri \in Uris,
               StartAuthorize(r, u, s, uri)
        PROVE  req'[r].pc = "authUser"
    BY <1>0, <2>1 DEF StartAuthorize, Idle
  <2>2. ASSUME NEW s \in Systems, NEW c \in Codes, NEW uri \in Uris,
               StartCodeGrant(r, s, c, uri)
        PROVE  req'[r].pc = "findCode"
    BY <1>0, <2>2 DEF StartCodeGrant, Idle
  <2>3. ASSUME NEW s \in Systems, NEW t \in Tokens, StartRefreshGrant(r, s, t)
        PROVE  req'[r].pc = "findToken"
    BY <1>0, <2>3 DEF StartRefreshGrant, Idle
  <2>4. ASSUME NEW s \in Systems, NEW t \in Tokens, StartRevoke(r, s, t)
        PROVE  req'[r].pc = "findForRevoke"
    BY <1>0, <2>4 DEF StartRevoke, Idle
  <2>5. QED
    BY <1>3, <2>1, <2>2, <2>3, <2>4 DEF Arrive
<1>4. AuthUser(r) \/ AuthAccess(r) => req'[r].pc \in {"authAccess", "createCode", "idle"}
  BY <1>0 DEF AuthUser, AuthAccess, Goto, Finish, Idle, Locals
<1>5. CreateCode(r) \/ CreateToken(r) => req'[r].pc \in {"auditAccess", "auditIssued"}
  BY <1>2 DEF CreateCode, CreateToken
<1>6. AuditAccess(r) \/ AuditIssued(r) \/ AuditReuse(r) \/ AuditLogout(r) \/ Abort(r) => Finish(r)
  BY DEF AuditAccess, AuditIssued, AuditReuse, AuditLogout, Abort
<1>7. req'[r].pc \in {"idle", "authUser", "findCode", "findToken", "findForRevoke",
                      "authAccess", "createCode", "auditAccess", "auditIssued"}
  BY <1>1, <1>3, <1>4, <1>5, <1>6
<1>8. QED
  BY <1>7 DEF Attentive, Issuing

\* Going on within a handler keeps what it serves.
LEMMA GoesOnServing ==
    ASSUME IInv, NEW r \in Requests
    PROVE  /\ \A pc : Goto(r, pc) => req'[r].pc = pc /\ req'[r].item = req[r].item
           /\ \A pc, i : GotoWith(r, pc, i) => req'[r].pc = pc /\ req'[r].item = i
           /\ \A pc, u : req' = [req EXCEPT ![r].pc = pc, ![r].user = u] =>
                           req'[r].pc = pc /\ req'[r].item = req[r].item
           /\ \A pc, u : req' = [req EXCEPT ![r].pc = pc, ![r].role = u] =>
                           req'[r].pc = pc /\ req'[r].item = req[r].item
<1>1. req[r] \in Locals /\ req \in [Requests -> Locals]
  BY DEF IInv, TypeOK
<1>2. \A pc : Goto(r, pc) => req'[r].pc = pc /\ req'[r].item = req[r].item
  BY <1>1 DEF Goto, Locals
<1>3. \A pc, i : GotoWith(r, pc, i) => req'[r].pc = pc /\ req'[r].item = i
  BY <1>1 DEF GotoWith, Idle
<1>4. \A pc, u : req' = [req EXCEPT ![r].pc = pc, ![r].user = u] =>
                   req'[r].pc = pc /\ req'[r].item = req[r].item
  BY <1>1 DEF Locals
<1>5. \A pc, u : req' = [req EXCEPT ![r].pc = pc, ![r].role = u] =>
                   req'[r].pc = pc /\ req'[r].item = req[r].item
  BY <1>1 DEF Locals
<1>6. QED
  BY <1>2, <1>3, <1>4, <1>5

\* What the turns of a handler start from.
TurnInv == IInv /\ LineageRooted /\ Descends /\ UsedOnce /\ OneUsable /\ AllAlone

\* As long as no token is inserted, what is known of a lineage stays true.
LEMMA KnownStays ==
    ASSUME IInv, LineageRooted, RowsKept, IssuedTokens' \subseteq IssuedTokens, NEW i \in Items,
           Exists(i)
    PROVE  /\ Dead(RootCode(i)) => Dead(RootCode(i))'
           /\ DeadBut(RootCode(i), i) => DeadBut(RootCode(i), i)'
           /\ Untouched(i) => Untouched(i)'
           /\ Childless(i) => Childless(i)'
<1>1. RootCode(i)' = RootCode(i)
  BY RootKept
<1>2. PICK c : c = RootCode(i)
  OBVIOUS
<1>3. NewElsewhere(c, i) /\ NewElsewhere(i, i)
  BY DEF NewElsewhere
<1>4. /\ Dead(c) => Dead(c)'
      /\ DeadBut(c, i) => DeadBut(c, i)'
      /\ Untouched(i) => Untouched(i)'
      /\ Childless(i) => Childless(i)'
  BY <1>3, LineageKept
<1>5. QED
  BY <1>1, <1>2, <1>4 DEF Dead, DeadBut

LEMMA CodeTurns ==
    ASSUME TurnInv, RowsKept, NEW r \in Requests, FindCode(r) \/ RevokeAll(r) \/ MarkUsed(r)
    PROVE  Alone(req[r])' /\ EntersUnspent(r)
<1>0. IInv /\ LineageRooted
  BY DEF TurnInv
<1>1. PICK i \in Codes : i = req[r].item /\ Exists(i) /\ i \in Items /\ i \notin Tokens
  BY DEF TurnInv, IInv, LocalsStayTrue, StaysTrue, FindCode, RevokeAll, MarkUsed, At, Items
<1>2. Alone(req[r])
  BY DEF TurnInv, AllAlone
<1>3. CASE FindCode(r)
  <2>1. UNCHANGED codes
    BY <1>3 DEF FindCode, NoWrite
  <2>2. CASE Finish(r)
    BY <1>0, <2>2, HarmlessTurns, NothingToKnow DEF EntersUnspent, Attentive, Alone, Issuing
  <2>3. CASE Goto(r, "revokeAll") /\ codes[i].used
    <3>1. req'[r].pc = "revokeAll" /\ req'[r].item = i
      BY <1>0, <1>1, <2>3, GoesOnServing
    <3>2. QED
      BY <1>1, <2>1, <2>3, <3>1 DEF Alone, EntersUnspent, Issuing
  <2>4. CASE ~codes[i].used /\ req' = [req EXCEPT ![r].pc = "loadUser", ![r].user = codes[i].user]
    <3>1. req'[r].pc = "loadUser" /\ req'[r].item = i
      BY <1>0, <1>1, <2>4, GoesOnServing
    <3>2. QED
      BY <1>1, <2>1, <2>4, <3>1 DEF Alone, EntersUnspent, Spent
  <2>5. QED
    BY <1>1, <1>3, <2>2, <2>3, <2>4 DEF FindCode, CodeVerdict
<1>4. CASE RevokeAll(r)
  <2>1. /\ req'[r].pc = "auditReuse" /\ req'[r].item = i
        /\ codes[i].used
    BY <1>0, <1>1, <1>2, <1>4, GoesOnServing DEF RevokeAll, At, Alone
  <2>2. codes'[i].used
    BY <1>1, <2>1 DEF RowsKept, Spent
  <2>3. ASSUME NEW t \in IssuedTokens', RootCode(t)' = i PROVE tokens'[t].revoked
    <3>1. t \in IssuedTokens
      BY <1>4, <2>3 DEF RevokeAll, IssuedTokens
    <3>2. t \in Items /\ t \in Tokens /\ t \notin Codes /\ Exists(t)
      BY <3>1 DEF IssuedTokens, Items, Exists
    <3>3. RootCode(t) = i
      BY <1>0, <2>3, <3>2, RootKept
    <3>4. Owner(t) = Owner(i)
      BY <1>0, <3>2, <3>3, RootsExist
    <3>5. tokens[t].user = codes[i].user /\ tokens[t].system = codes[i].system
      BY <1>1, <3>2, <3>4 DEF Owner
    <3>6. tokens'[t] = [tokens[t] EXCEPT !.revoked = TRUE] /\ tokens[t] \in TokenRows
      BY <1>0, <1>1, <1>4, <3>1, <3>2, <3>5 DEF RevokeAll, IssuedTokens, IInv, TypeOK
    <3>7. QED
      BY <3>6 DEF TokenRows
  <2>4. Dead(i)'
    BY <2>3 DEF Dead
  <2>5. QED
    BY <1>1, <2>1, <2>2, <2>4 DEF Alone, EntersUnspent, Issuing, Dead
<1>5. CASE MarkUsed(r)
  <2>1. /\ req[r].pc = "markUsed" /\ req'[r].pc = "createToken" /\ req'[r].item = i
        /\ ~codes[i].used /\ UNCHANGED tokens
    BY <1>0, <1>1, <1>2, <1>5, GoesOnServing DEF MarkUsed, At, Alone, WritesCodes
  <2>2. Untouched(i)
    <3> SUFFICES ASSUME NEW t \in IssuedTokens, RootCode(t) = i PROVE FALSE
      BY DEF Untouched
    <3>1. t \in Items /\ t \in Tokens /\ Exists(t)
      BY DEF IssuedTokens, Items, Exists
    <3>2. QED
      BY <1>0, <2>1, <3>1, RootsExist
  <2>3. Untouched(i)'
    BY <1>0, <1>1, <2>1, <2>2, KnownStays DEF IssuedTokens
  <2>4. QED
    BY <1>1, <2>1, <2>3 DEF Alone, EntersUnspent, Issuing, Untouched
<1>6. QED
  BY <1>3, <1>4, <1>5

\* A token that is not revoked is the only usable one, and nothing was issued
\* for it.
LEMMA UsableIsLast ==
    ASSUME TurnInv, NEW t \in IssuedTokens, ~tokens[t].revoked
    PROVE  Childless(t) /\ DeadBut(RootCode(t), t)
<1>1. Childless(t)
  <2>1. t \notin Codes
    BY DEF IssuedTokens
  <2>2. QED
    BY <2>1 DEF TurnInv, Descends, Childless, Spent
<1>2. DeadBut(RootCode(t), t)
  BY DEF TurnInv, OneUsable, DeadBut
<1>3. QED
  BY <1>1, <1>2

\* When a token is revoked whose siblings are dead, the lineage is.
LEMMA LastOneDies ==
    ASSUME IInv, LineageRooted, RowsKept, IssuedTokens' \subseteq IssuedTokens,
           NEW t \in IssuedTokens, DeadBut(RootCode(t), t), tokens'[t].revoked
    PROVE  Dead(RootCode(t))'
<1>1. t \in Items /\ Exists(t)
  BY DEF IssuedTokens, Items, Exists
<1>2. DeadBut(RootCode(t), t)'
  BY <1>1, KnownStays
<1>3. QED
  BY <1>2 DEF DeadBut, Dead

LEMMA TokenTurns ==
    ASSUME TurnInv, RowsKept, NEW r \in Requests,
           \/ FindToken(r) \/ RevokeOld(r) \/ RevokeFamily(r)
           \/ FindForRevoke(r) \/ RevokeToken(r)
    PROVE  Alone(req[r])' /\ EntersUnspent(r)
<1>0. IInv /\ LineageRooted
  BY DEF TurnInv
<1>1. PICK i \in IssuedTokens : /\ i = req[r].item /\ Exists(i) /\ i \in Items
                                /\ i \in Tokens /\ i \notin Codes
  BY DEF TurnInv, IInv, LocalsStayTrue, StaysTrue, FindToken, RevokeOld, RevokeFamily,
         FindForRevoke, RevokeToken, At, Items, Exists, IssuedTokens
<1>2. Alone(req[r])
  BY DEF TurnInv, AllAlone
<1>a. CASE Finish(r)
  BY <1>0, <1>a, HarmlessTurns, NothingToKnow DEF EntersUnspent, Attentive, Alone, Issuing
<1>b. tokens[i] \in TokenRows /\ tokens \in [Tokens -> TokenRows \cup {None}]
  BY <1>0, <1>1 DEF IInv, TypeOK, IssuedTokens
<1>3. CASE FindToken(r) /\ ~Finish(r)
  <2>1. UNCHANGED tokens
    BY <1>3 DEF FindToken, NoWrite
  <2>2. CASE Goto(r, "revokeFamily")
    <3>1. req'[r].pc = "revokeFamily"
      BY <1>0, <2>2, GoesOnServing
    <3>2. QED
      BY <3>1 DEF EntersUnspent, Alone, Issuing
  <2>3. CASE ~tokens[i].revoked /\ req' = [req EXCEPT ![r].pc = "revokeOld", ![r].user = tokens[i].user]
    <3>1. req'[r].pc = "revokeOld" /\ req'[r].item = i
      BY <1>0, <1>1, <2>3, GoesOnServing
    <3>2. Childless(i) /\ DeadBut(RootCode(i), i)
      BY <1>1, <2>3, UsableIsLast
    <3>3. Childless(i)' /\ DeadBut(RootCode(i), i)'
      BY <1>0, <1>1, <2>1, <3>2, KnownStays DEF IssuedTokens
    <3>4. QED
      BY <1>1, <2>3, <3>1, <3>3 DEF Alone, EntersUnspent, Spent, Childless, DeadBut, RootCode
  <2>4. QED
    BY <1>1, <1>3, <2>2, <2>3 DEF FindToken, TokenVerdict
<1>4. CASE RevokeOld(r)
  <2>1. /\ req[r].pc = "revokeOld" /\ req'[r].pc = "loadUser" /\ req'[r].item = i
        /\ tokens' = [tokens EXCEPT ![i].revoked = TRUE]
    BY <1>0, <1>1, <1>4, GoesOnServing DEF RevokeOld, At
  <2>2. Childless(i) /\ DeadBut(RootCode(i), i)
    BY <1>1, <1>2, <2>1 DEF Alone, Issuing
  <2>3. tokens'[i].revoked /\ IssuedTokens' \subseteq IssuedTokens
    BY <1>1, <1>b, <2>1 DEF TokenRows, IssuedTokens
  <2>4. Childless(i)' /\ Dead(RootCode(i))'
    BY <1>0, <1>1, <2>2, <2>3, KnownStays, LastOneDies
  <2>5. QED
    BY <1>1, <2>1, <2>4 DEF Alone, EntersUnspent, Issuing, Childless, Dead, RootCode
<1>5. CASE RevokeFamily(r)
  <2>1. req'[r].pc = "auditReuse" /\ req'[r].item = i
    BY <1>0, <1>1, <1>5, GoesOnServing DEF RevokeFamily
  <2>2. ASSUME NEW t \in IssuedTokens', RootCode(t)' = RootCode(i)' PROVE tokens'[t].revoked
    <3>1. t \in IssuedTokens
      BY <1>5 DEF RevokeFamily, IssuedTokens
    <3>2. t \in Items /\ t \in Tokens /\ t \notin Codes /\ Exists(t)
      BY <3>1 DEF IssuedTokens, Items, Exists
    <3>3. RootCode(t) = RootCode(i)
      BY <1>0, <1>1, <2>2, <3>2, RootKept
    <3>4. tokens[t].family \in IssuedTokens /\ tokens[i].family \in IssuedTokens
      BY <1>0, <1>1, <3>2, RootsExist
    <3>5. tokens[t].family = tokens[i].family
      BY <1>1, <3>2, <3>3, <3>4 DEF TurnInv, UsedOnce, RootCode
    <3>6. tokens'[t] = [tokens[t] EXCEPT !.revoked = TRUE] /\ tokens[t] \in TokenRows
      BY <1>b, <1>1, <1>5, <3>1, <3>2, <3>5 DEF RevokeFamily, IssuedTokens
    <3>7. QED
      BY <3>6 DEF TokenRows
  <2>3. Dead(RootCode(i))'
    BY <2>2 DEF Dead
  <2>4. QED
    BY <1>1, <2>1, <2>3 DEF Alone, EntersUnspent, Issuing, Dead, RootCode
<1>6. CASE FindForRevoke(r) /\ ~Finish(r)
  <2>1. /\ UNCHANGED tokens /\ ~tokens[i].revoked
        /\ req'[r].pc = "revokeToken" /\ req'[r].item = i
    BY <1>0, <1>1, <1>6, GoesOnServing DEF FindForRevoke, NoWrite
  <2>2. DeadBut(RootCode(i), i)
    BY <1>1, <2>1, UsableIsLast
  <2>3. DeadBut(RootCode(i), i)'
    BY <1>0, <1>1, <2>1, <2>2, KnownStays DEF IssuedTokens
  <2>4. QED
    BY <1>1, <2>1, <2>3 DEF Alone, EntersUnspent, Issuing, DeadBut, RootCode
<1>7. CASE RevokeToken(r)
  <2>1. /\ req[r].pc = "revokeToken" /\ req'[r].pc = "auditLogout" /\ req'[r].item = i
        /\ tokens' = [tokens EXCEPT ![i].revoked = TRUE]
    BY <1>0, <1>1, <1>7, GoesOnServing DEF RevokeToken, At
  <2>2. DeadBut(RootCode(i), i)
    BY <1>1, <1>2, <2>1 DEF Alone
  <2>3. tokens'[i].revoked /\ IssuedTokens' \subseteq IssuedTokens
    BY <1>1, <1>b, <2>1 DEF TokenRows, IssuedTokens
  <2>4. Dead(RootCode(i))'
    BY <1>0, <1>1, <2>2, <2>3, LastOneDies
  <2>5. QED
    BY <1>1, <2>1, <2>4 DEF Alone, EntersUnspent, Issuing, Dead, RootCode
<1>8. QED
  BY <1>a, <1>3, <1>4, <1>5, <1>6, <1>7

LEMMA SharedTurns ==
    ASSUME TurnInv, RowsKept, NEW r \in Requests, LoadUser(r) \/ LoadAccess(r)
    PROVE  Alone(req[r])' /\ EntersUnspent(r)
<1>0. IInv /\ LineageRooted
  BY DEF TurnInv
<1>1. PICK i \in Items : i = req[r].item /\ Exists(i)
  BY DEF TurnInv, IInv, LocalsStayTrue, StaysTrue, LoadUser, LoadAccess, At, Exists
<1>2. Alone(req[r]) /\ UNCHANGED <<codes, tokens, origin>>
  BY DEF TurnInv, AllAlone, LoadUser, LoadAccess, NoWrite
<1>3. CASE Finish(r)
  BY <1>0, <1>3, HarmlessTurns, NothingToKnow DEF EntersUnspent, Attentive, Alone, Issuing
<1>4. CASE ~Finish(r)
  <2>1. /\ req'[r].item = i /\ req[r].pc \in {"loadUser", "loadAccess"}
        /\ \/ req'[r].pc = "loadAccess"
           \/ i \in Codes /\ req'[r].pc = "markUsed"
           \/ i \notin Codes /\ req'[r].pc = "createToken"
    <3>1. CASE LoadUser(r)
      <4>1. Goto(r, "loadAccess") /\ req[r].pc = "loadUser"
        BY <1>4, <3>1 DEF LoadUser, At
      <4>2. QED
        BY <1>0, <1>1, <4>1, GoesOnServing
    <3>2. CASE LoadAccess(r)
      <4>1. PICK pc, role :
              /\ pc = IF i \in Codes THEN "markUsed" ELSE "createToken"
              /\ req' = [req EXCEPT ![r].pc = pc, ![r].role = role]
              /\ req[r].pc = "loadAccess"
        BY <1>1, <1>4, <3>2 DEF LoadAccess, At
      <4>2. req'[r].pc = pc /\ req'[r].item = req[r].item
        <5>1. req[r] \in Locals /\ req \in [Requests -> Locals]
          BY <1>0 DEF IInv, TypeOK
        <5>2. QED
          BY <4>1, <5>1 DEF Locals
      <4>3. QED
        BY <1>1, <4>1, <4>2
    <3>3. QED
      BY <3>1, <3>2
  <2>2. CASE i \in Codes
    <3>1. i \notin Tokens /\ req'[r].pc \in {"loadAccess", "markUsed"} /\ ~codes'[i].used
      BY <1>1, <1>2, <2>1, <2>2 DEF Alone
    <3>2. QED
      BY <1>1, <2>1, <3>1 DEF Alone, EntersUnspent, Issuing
  <2>3. CASE i \notin Codes
    <3>1. i \in Tokens /\ req'[r].pc \in {"loadAccess", "createToken"}
      BY <2>1, <2>3 DEF Items
    <3>2. Childless(i) /\ Dead(RootCode(i))
      BY <1>1, <1>2, <2>1, <3>1 DEF Alone, Issuing
    <3>3. Childless(i)' /\ Dead(RootCode(i))'
      BY <1>0, <1>1, <1>2, <3>2, KnownStays DEF IssuedTokens
    <3>4. QED
      BY <1>1, <2>1, <2>3, <3>1, <3>3 DEF Alone, EntersUnspent, Issuing, Childless, Dead, RootCode
  <2>4. QED
    BY <2>2, <2>3
<1>5. QED
  BY <1>3, <1>4

\* The one step that inserts a token puts it at the end of the lineage its
\* handler serves.
LEMMA InsertedToken ==
    ASSUME TurnInv, RowsKept, NEW r \in Requests, CreateToken(r)
    PROVE  \E t \in Tokens, i \in Items :
             /\ i = req[r].item /\ Exists(i) /\ Spent(i) /\ req[r].pc = "createToken"
             /\ t \notin IssuedTokens /\ IssuedTokens' = IssuedTokens \cup {t}
             /\ origin'[t] = i /\ RootCode(t)' = RootCode(i)
<1>0. IInv /\ LineageRooted
  BY DEF TurnInv
<1>1. PICK i \in Items : i = req[r].item /\ Exists(i) /\ Spent(i) /\ req[r].pc = "createToken"
  BY DEF CreateToken, At, TurnInv, IInv, LocalsStayTrue, StaysTrue, Exists
<1>2. /\ req[r].user \in Users /\ req[r].sys \in Systems
      /\ tokens \in [Tokens -> TokenRows \cup {None}]
      /\ origin \in [Tokens -> Items \cup {None}]
  BY <1>0, <1>1 DEF IInv, TypeOK, LocalsStayTrue, StaysTrue
<1>a. PICK t \in Tokens :
        LET family == IF i \in Codes THEN t ELSE tokens[i].family IN
        /\ tokens[t] = None
        /\ tokens' = [tokens EXCEPT ![t] =
                        [user |-> req[r].user, system |-> req[r].sys,
                         family |-> family, expired |-> FALSE, revoked |-> FALSE]]
        /\ origin' = [origin EXCEPT ![t] = i]
  BY <1>1 DEF CreateToken
<1>3. PICK family :
        /\ family = IF i \in Codes THEN t ELSE tokens[i].family
        /\ tokens[t] = None
        /\ tokens' = [tokens EXCEPT ![t] =
                        [user |-> req[r].user, system |-> req[r].sys,
                         family |-> family, expired |-> FALSE, revoked |-> FALSE]]
        /\ origin' = [origin EXCEPT ![t] = i]
  BY <1>a
<1>4. family \in Tokens
  <2>1. CASE i \in Codes
    BY <1>3, <2>1
  <2>2. CASE i \notin Codes
    BY <1>0, <1>1, <1>3, <2>2, RootsExist DEF Items, IssuedTokens
  <2>3. QED
    BY <2>1, <2>2
<1>5. PICK row \in TokenRows :
        row = [user |-> req[r].user, system |-> req[r].sys,
               family |-> family, expired |-> FALSE, revoked |-> FALSE]
  BY <1>2, <1>4 DEF TokenRows
<1>6. tokens' = [tokens EXCEPT ![t] = row] /\ row # None /\ row.family = family
  BY <1>3, <1>5
<1>7. t \notin IssuedTokens /\ IssuedTokens' = IssuedTokens \cup {t}
  BY <1>2, <1>3, <1>6 DEF IssuedTokens
<1>8. tokens'[t].family = family /\ origin'[t] = i
  BY <1>2, <1>3, <1>6
<1>9. RootCode(t)' = RootCode(i)
  <2>1. RootCode(t)' = origin'[family]
    BY <1>8 DEF RootCode
  <2>2. CASE i \in Codes
    BY <1>3, <1>8, <2>1, <2>2 DEF RootCode
  <2>3. CASE i \notin Codes
    <3>1. family \in IssuedTokens /\ family # t
      BY <1>0, <1>1, <1>3, <1>7, <2>3, RootsExist DEF Items
    <3>2. QED
      BY <1>3, <2>1, <2>3, <3>1 DEF RowsKept, RootCode
  <2>4. QED
    BY <2>2, <2>3
<1>10. QED
  BY <1>1, <1>7, <1>8, <1>9

\* It is the only token issued for what it was exchanged for, and the only one
\* of its lineage that is usable.
LEMMA TreeGrows ==
    ASSUME TurnInv, RowsKept, NEW r \in Requests, CreateToken(r)
    PROVE  Descends' /\ UsedOnce' /\ OneUsable'
<1>0. IInv /\ LineageRooted
  BY DEF TurnInv
<1>1. PICK t \in Tokens, i \in Items :
        /\ i = req[r].item /\ Exists(i) /\ Spent(i) /\ req[r].pc = "createToken"
        /\ t \notin IssuedTokens /\ IssuedTokens' = IssuedTokens \cup {t}
        /\ origin'[t] = i /\ RootCode(t)' = RootCode(i)
  BY InsertedToken
<1>2. Exists(i)' /\ Spent(i)' /\ RootCode(i)' = RootCode(i)
  BY <1>0, <1>1, RootKept DEF RowsKept
<1>3. ASSUME NEW x \in IssuedTokens
      PROVE  \E j : /\ origin'[x] = j /\ Exists(j)' /\ Spent(j)' /\ RootCode(x)' = RootCode(j)'
  <2>1. PICK j : j = origin[x]
    OBVIOUS
  <2>2. j \in Items /\ Exists(j) /\ Spent(j) /\ RootCode(x) = RootCode(j)
    BY <2>1 DEF TurnInv, Descends, Exists
  <2>3. Exists(j)' /\ Spent(j)' /\ RootCode(j)' = RootCode(j)
    BY <1>0, <2>2, RootKept DEF RowsKept
  <2>4. QED
    BY <1>0, <2>1, <2>2, <2>3, OldTokens
<1>4. Descends'
  <2>1. \A x \in IssuedTokens' :
          \E j : /\ origin'[x] = j /\ Exists(j)' /\ Spent(j)' /\ RootCode(x)' = RootCode(j)'
    BY <1>1, <1>2, <1>3
  <2>2. QED
    BY <2>1 DEF Descends, Exists, Spent, RootCode
<1>5. Alone(req[r])
  BY DEF TurnInv, AllAlone
<1>6. \A x \in IssuedTokens : origin[x] # i /\ (RootCode(x) = RootCode(i) => tokens[x].revoked)
  <2>1. CASE i \in Codes
    <3>1. Untouched(i) /\ RootCode(i) = i
      BY <1>1, <1>5, <2>1 DEF Alone, RootCode
    <3>2. \A x \in IssuedTokens : origin[x] = i => RootCode(x) = i
      BY <3>1 DEF TurnInv, Descends
    <3>3. QED
      BY <3>1, <3>2 DEF Untouched
  <2>2. CASE i \notin Codes
    BY <1>1, <1>5, <2>2 DEF Alone, Issuing, Childless, Dead, Items
  <2>3. QED
    BY <2>1, <2>2
<1>7. \A x \in IssuedTokens :
        /\ origin'[x] = origin[x] /\ RootCode(x)' = RootCode(x)
        /\ tokens[x].revoked => tokens'[x].revoked
  BY <1>0, OldTokens
<1>8. UsedOnce'
  BY <1>1, <1>6, <1>7 DEF TurnInv, UsedOnce
<1>9. OneUsable'
  BY <1>1, <1>6, <1>7 DEF TurnInv, OneUsable
<1>10. QED
  BY <1>4, <1>8, <1>9

\* Whatever a handler does next, it may rely on what it knows afterwards.
LEMMA OwnTurn ==
    ASSUME TurnInv, RowsKept, NEW r \in Requests, Arrive(r) \/ Proceed(r) \/ Abort(r)
    PROVE  Alone(req[r])' /\ EntersUnspent(r)
<1>0. IInv
  BY DEF TurnInv
<1>1. CASE \/ Arrive(r) \/ Abort(r) \/ AuthUser(r) \/ AuthAccess(r) \/ CreateCode(r)
           \/ AuditAccess(r) \/ CreateToken(r) \/ AuditIssued(r) \/ AuditReuse(r)
           \/ AuditLogout(r)
  <2>1. req'[r].pc \notin Attentive
    BY <1>0, <1>1, HarmlessTurns
  <2>2. QED
    BY <2>1 DEF Alone, EntersUnspent, Attentive, Issuing
<1>2. QED
  BY <1>1, CodeTurns, TokenTurns, SharedTurns DEF Proceed

\* Only two steps insert a token or mark a code, and for their own lineage.
LEMMA OthersStayOff ==
    ASSUME TurnInv, RowsKept, [Next]_vars, NEW r \in Requests,
           Arrive(r) \/ Proceed(r) \/ Abort(r)
    PROVE  \/ /\ IssuedTokens' \subseteq IssuedTokens
              /\ \A c \in Codes : codes[c] # None /\ ~codes[c].used => ~codes'[c].used
           \/ /\ IssuedTokens' \subseteq IssuedTokens
              /\ req[r].item \in Codes /\ req[r].pc \in Issuing
              /\ \A c \in Codes \ {req[r].item} :
                   codes[c] # None /\ ~codes[c].used => ~codes'[c].used
           \/ CreateToken(r) /\ UNCHANGED codes
<1>0. IInv
  BY DEF TurnInv
<1>1. codes \in [Codes -> CodeRows \cup {None}]
  BY <1>0 DEF IInv, TypeOK
<1>2. CASE CreateToken(r)
  BY <1>2 DEF CreateToken, WritesTokens
<1>3. CASE MarkUsed(r)
  <2>1. req[r].item \in Codes /\ req[r].pc \in Issuing /\ UNCHANGED tokens
    BY <1>0, <1>3 DEF MarkUsed, At, IInv, LocalsStayTrue, StaysTrue, WritesCodes, Issuing
  <2>2. \A c \in Codes \ {req[r].item} : codes'[c] = codes[c]
    BY <1>1, <1>3 DEF MarkUsed
  <2>3. QED
    BY <2>1, <2>2 DEF IssuedTokens
<1>4. CASE CreateCode(r)
  <2>1. UNCHANGED tokens /\ \A c \in Codes : codes[c] # None => codes'[c] = codes[c]
    BY <1>1, <1>4 DEF CreateCode, WritesCodes
  <2>2. QED
    BY <2>1 DEF IssuedTokens
<1>5. CASE RevokeAll(r) \/ RevokeFamily(r) \/ RevokeOld(r) \/ RevokeToken(r)
  <2>1. UNCHANGED codes /\ \E S \in SUBSET Tokens : Revokes(S)
    BY <1>0, <1>5, RevokingSteps
  <2>2. QED
    BY <2>1 DEF Revokes, IssuedTokens
<1>6. CASE \/ Arrive(r) \/ Abort(r) \/ AuthUser(r) \/ AuthAccess(r) \/ AuditAccess(r)
           \/ FindCode(r) \/ FindToken(r) \/ AuditReuse(r) \/ LoadUser(r) \/ LoadAccess(r)
           \/ AuditIssued(r) \/ FindForRevoke(r) \/ AuditLogout(r)
  <2>1. UNCHANGED <<codes, tokens>>
    BY <1>6 DEF Arrive, StartAuthorize, StartCodeGrant, StartRefreshGrant, StartRevoke,
       Abort, AuthUser, AuthAccess, AuditAccess, FindCode, FindToken, AuditReuse, LoadUser,
       LoadAccess, AuditIssued, FindForRevoke, AuditLogout, NoWrite, WritesAudit
  <2>2. QED
    BY <2>1 DEF IssuedTokens
<1>7. QED
  BY <1>2, <1>3, <1>4, <1>5, <1>6 DEF Proceed

\* While nobody else works on its lineage, a handler keeps its knowledge, and
\* what is buried stays buried.
LEMMA StepKeepsAlone ==
    ASSUME TurnInv, RowsKept, OneRequestPerLineage, [Next]_vars, NEW r \in Requests,
           Arrive(r) \/ Proceed(r) \/ Abort(r)
    PROVE  AllAlone'
<1>0. IInv /\ LineageRooted /\ AllAlone
  BY DEF TurnInv
<1>1. PICK q : MovesTo(r, q)
  BY <1>0, HandlerStep
<1>2. \A o \in Requests : o # r => req'[o] = req[o]
  BY <1>0, <1>1 DEF MovesTo, IInv, TypeOK
<1>3. ASSUME NEW o \in Requests, o # r PROVE Alone(req[o])'
  <2>1. PICK p \in Locals : p = req[o]
    BY <1>0 DEF IInv, TypeOK
  <2>2. StaysTrue(p) /\ Alone(p)
    BY <1>0, <2>1 DEF IInv, LocalsStayTrue, AllAlone
  <2>3. CASE p.pc \notin Attentive
    BY <1>2, <1>3, <2>1, <2>3, NothingToKnow DEF Alone, Attentive, Issuing
  <2>4. CASE p.pc \in Attentive
    <3>1. Exists(p.item) /\ p.item \in Items /\ p.item # None
      BY <2>2, <2>4 DEF StaysTrue, Attentive, Issuing, Exists
    <3>2. req[r].item # None => RootCode(req[r].item) # RootCode(p.item)
      BY <1>3, <2>1, <3>1 DEF OneRequestPerLineage
    <3>3. /\ NewElsewhere(RootCode(p.item), p.item)
          /\ p.item \in Codes /\ ~codes[p.item].used => ~codes'[p.item].used
      <4>0. p.item \in Codes => codes[p.item] # None
        BY <3>1 DEF Exists
      <4>1. CASE /\ IssuedTokens' \subseteq IssuedTokens
                 /\ \A c \in Codes : codes[c] # None /\ ~codes[c].used => ~codes'[c].used
        BY <4>0, <4>1 DEF NewElsewhere
      <4>2. CASE /\ IssuedTokens' \subseteq IssuedTokens
                 /\ req[r].item \in Codes /\ req[r].pc \in Issuing
                 /\ \A c \in Codes \ {req[r].item} :
                      codes[c] # None /\ ~codes[c].used => ~codes'[c].used
        <5>1. p.item \in Codes => p.item # req[r].item
          BY <3>2, <4>2 DEF RootCode, Items
        <5>2. QED
          BY <4>0, <4>2, <5>1 DEF NewElsewhere
      <4>3. CASE CreateToken(r) /\ UNCHANGED codes
        <5>1. PICK t \in Tokens, i \in Items :
                /\ i = req[r].item /\ Exists(i)
                /\ IssuedTokens' = IssuedTokens \cup {t}
                /\ origin'[t] = i /\ RootCode(t)' = RootCode(i)
          BY <4>3, InsertedToken
        <5>2. i # None /\ RootCode(i) # RootCode(p.item)
          BY <3>2, <5>1 DEF Items
        <5>3. i # p.item
          BY <5>2
        <5>4. QED
          BY <4>3, <5>1, <5>2, <5>3 DEF NewElsewhere
      <4>4. QED
        BY <4>1, <4>2, <4>3, OthersStayOff
    <3>4. Alone(p)'
      BY <1>0, <2>2, <3>3, AloneStays
    <3>5. p = req'[o]
      BY <1>2, <1>3, <2>1
    <3>6. QED
      BY <3>4, <3>5 DEF Alone, RootCode
  <2>5. QED
    BY <2>3, <2>4
<1>4. Alone(req[r])'
  BY OwnTurn
<1>5. QED
  BY <1>3, <1>4 DEF AllAlone, Alone

LEMMA StepKeepsBuried ==
    ASSUME TurnInv, RowsKept, OneRequestPerLineage, AllBuried, [Next]_vars,
           NEW r \in Requests, Arrive(r) \/ Proceed(r) \/ Abort(r)
    PROVE  AllBuried'
<1>0. IInv /\ LineageRooted /\ AllAlone
  BY DEF TurnInv
<1>1. PICK q : MovesTo(r, q)
  BY <1>0, HandlerStep
<1>2. \A o \in Requests : o # r => req'[o] = req[o]
  BY <1>0, <1>1 DEF MovesTo, IInv, TypeOK
<1>3. \A o \in Requests : EntersUnspent(o)
  <2>1. \A o \in Requests : req[o].pc \in Issuing => Exists(req[o].item)
    BY <1>0 DEF IInv, LocalsStayTrue, StaysTrue, Issuing
  <2>2. QED
    BY <1>2, <2>1, OwnTurn DEF EntersUnspent
<1>4. ASSUME NEW action \in {"ACCESS_REVOKED", "LOGOUT"}, NEW i \in Items,
             <<action, i>> \in audit
      PROVE  Buried(i)'
  <2>1. Buried(i)
    BY <1>4 DEF AllBuried
  <2>2. NewElsewhere(RootCode(i), i)
    <3>1. CASE IssuedTokens' \subseteq IssuedTokens
      BY <3>1 DEF NewElsewhere
    <3>2. CASE CreateToken(r)
      <4>1. PICK t \in Tokens, j \in Items :
              /\ j = req[r].item /\ Exists(j) /\ req[r].pc = "createToken"
              /\ IssuedTokens' = IssuedTokens \cup {t}
              /\ origin'[t] = j /\ RootCode(t)' = RootCode(j)
        BY <3>2, InsertedToken
      <4>2. j # None /\ RootCode(j) # RootCode(i)
        BY <2>1, <4>1 DEF Buried, Issuing, Items
      <4>3. j # i
        BY <4>2
      <4>4. QED
        BY <4>1, <4>2, <4>3 DEF NewElsewhere
    <3>3. QED
      BY <3>1, <3>2, OthersStayOff
  <2>3. QED
    BY <1>0, <1>3, <2>1, <2>2, BuriedStays
<1>5. ASSUME NEW action \in {"ACCESS_REVOKED", "LOGOUT"}, NEW i \in Items,
             <<action, i>> \in audit', <<action, i>> \notin audit
      PROVE  Buried(i)'
  <2>1. CASE AuditReuse(r) \/ AuditLogout(r)
    <3>1. i = req[r].item /\ req[r].pc \in {"auditReuse", "auditLogout"} /\ Exists(i)
      <4>1. i = req[r].item /\ req[r].pc \in {"auditReuse", "auditLogout"}
        BY <1>5, <2>1 DEF AuditReuse, AuditLogout, At
      <4>2. QED
        BY <1>0, <4>1 DEF IInv, LocalsStayTrue, StaysTrue
    <3>2. UNCHANGED <<codes, tokens, origin>> /\ Finish(r)
      BY <2>1 DEF AuditReuse, AuditLogout, WritesAudit
    <3>3. /\ Dead(RootCode(i)) /\ codes[RootCode(i)].used
      <4>1. Alone(req[r])
        BY <1>0 DEF AllAlone
      <4>2. CASE i \in Codes
        <5>1. req[r].pc = "auditReuse"
          BY <1>0, <2>1, <3>1, <4>2 DEF AuditReuse, AuditLogout, At, IInv, LocalsStayTrue,
                                        StaysTrue
        <5>2. QED
          BY <3>1, <4>1, <4>2, <5>1 DEF Alone, RootCode
      <4>3. CASE i \notin Codes
        <5>1. i \in Tokens
          BY <4>3 DEF Items
        <5>2. QED
          BY <1>0, <3>1, <4>1, <5>1, RootsExist DEF Alone
      <4>4. QED
        BY <4>2, <4>3
    <3>4. RootCode(i)' = RootCode(i)
      BY <3>2 DEF RootCode
    <3>5. Exists(i)' /\ Dead(RootCode(i))' /\ codes'[RootCode(i)'].used
      BY <3>1, <3>2, <3>3, <3>4 DEF Exists, Dead, IssuedTokens, RootCode
    <3>6. ASSUME NEW o \in Requests, req'[o].item # None, RootCode(req[o].item)' = RootCode(i)'
          PROVE  FALSE
      <4>1. req'[r].item = None
        BY <1>0, <3>2 DEF Finish, Idle, IInv, TypeOK
      <4>2. o # r /\ req'[o] = req[o]
        BY <1>2, <3>6, <4>1
      <4>3. RootCode(req[o].item) = RootCode(i)
        BY <3>2, <3>4, <3>6, <4>2 DEF RootCode
      <4>4. i # None
        BY DEF Items
      <4>5. QED
        BY <3>1, <3>6, <4>2, <4>3, <4>4 DEF OneRequestPerLineage
    <3>7. QED
      BY <3>5, <3>6 DEF Buried
  <2>2. CASE ~(AuditReuse(r) \/ AuditLogout(r))
    <3>1. \/ UNCHANGED audit
          \/ \E j : audit' = audit \cup {<<"SYSTEM_ACCESS", j>>}
          \/ \E j : audit' = audit \cup {<<"TOKEN_ISSUED", j>>}
      <4>1. CASE Arrive(r) \/ Abort(r)
        BY <4>1 DEF Arrive, StartAuthorize, StartCodeGrant, StartRefreshGrant, StartRevoke,
                    Abort, NoWrite
      <4>2. CASE Proceed(r)
        BY <2>2, <4>2 DEF Proceed, AuthUser, AuthAccess, CreateCode, AuditAccess, FindCode,
           RevokeAll, MarkUsed, FindToken, RevokeOld, RevokeFamily, LoadUser, LoadAccess,
           CreateToken, AuditIssued, FindForRevoke, RevokeToken, NoWrite, WritesCodes,
           WritesTokens
      <4>3. QED
        BY <4>1, <4>2
    <3>2. QED
      BY <1>5, <3>1
  <2>3. QED
    BY <2>1, <2>2
<1>6. QED
  BY <1>4, <1>5 DEF AllBuried, Buried

\* Time, administrators and steps that change nothing.
LEMMA WorldKeepsLineages ==
    ASSUME IInv, LineageRooted, RowsKept, LineageInv, Tick \/ Administer \/ UNCHANGED vars
    PROVE  LineageInv'
<1>1. UNCHANGED <<req, audit>>
  BY DEF Tick, ExpireCode, ExpireToken, WritesCodes, WritesTokens, Administer,
         SetUserActive, SetMustChange, UpdateSystem, SetGrant, WritesTables, vars
<1>2. IssuedTokens' \subseteq IssuedTokens
      /\ \A c \in Codes : codes[c] # None /\ ~codes[c].used => ~codes'[c].used
  <2>1. /\ tokens \in [Tokens -> TokenRows \cup {None}]
        /\ codes \in [Codes -> CodeRows \cup {None}]
    BY DEF IInv, TypeOK
  <2>2. ASSUME NEW c \in Codes, ExpireCode(c)
        PROVE  \A x \in Codes : codes[x] # None => codes'[x].used = codes[x].used
    <3>1. \A x \in Codes : codes'[x] = codes[x] \/ codes'[x] = [codes[x] EXCEPT !.expired = TRUE]
      BY <2>1, <2>2 DEF ExpireCode
    <3>2. QED
      BY <2>1, <3>1 DEF CodeRows
  <2>3. ASSUME NEW c \in Codes, ExpireCode(c) PROVE UNCHANGED tokens
    BY <2>3 DEF ExpireCode, WritesCodes
  <2>4. ASSUME NEW t \in Tokens, ExpireToken(t)
        PROVE  UNCHANGED codes /\ \A x \in Tokens : tokens[x] = None => tokens'[x] = None
    BY <2>1, <2>4 DEF ExpireToken, WritesTokens
  <2>5. CASE Administer \/ UNCHANGED vars
    BY <2>5 DEF Administer, SetUserActive, SetMustChange, UpdateSystem, SetGrant,
                WritesTables, vars, IssuedTokens
  <2>6. QED
    BY <2>2, <2>3, <2>4, <2>5 DEF Tick, IssuedTokens
<1>3. Descends' /\ UsedOnce' /\ OneUsable'
  BY <1>2, TreeStays DEF LineageInv
<1>4. \A c, i : NewElsewhere(c, i)
  BY <1>2 DEF NewElsewhere
<1>5. AllAlone'
  <2> SUFFICES ASSUME NEW r \in Requests PROVE Alone(req[r])'
    BY DEF AllAlone
  <2>1. PICK q \in Locals : q = req[r]
    BY DEF IInv, TypeOK
  <2>2. StaysTrue(q) /\ Alone(q)
    BY <2>1 DEF IInv, LocalsStayTrue, LineageInv, AllAlone
  <2>3. CASE q.pc \notin Attentive
    BY <1>1, <2>1, <2>3 DEF Alone, Attentive, Issuing
  <2>4. CASE q.pc \in Attentive
    <3>1. q.item \in Codes => codes[q.item] # None
      BY <2>2, <2>4 DEF StaysTrue, Attentive, Issuing, Exists
    <3>2. q.item \in Codes /\ ~codes[q.item].used => ~codes'[q.item].used
      BY <1>2, <3>1
    <3>3. Alone(q)'
      BY <1>4, <2>2, <3>2, AloneStays
    <3>4. QED
      BY <1>1, <2>1, <3>3 DEF Alone, RootCode
  <2>5. QED
    BY <2>3, <2>4
<1>6. AllBuried'
  <2>1. \A r \in Requests : EntersUnspent(r)
    BY <1>1 DEF EntersUnspent, IInv, LocalsStayTrue, StaysTrue, Issuing
  <2>2. \A i \in Items : Buried(i) => Buried(i)'
    BY <1>4, <2>1, BuriedStays
  <2>3. QED
    BY <1>1, <2>2 DEF LineageInv, AllBuried, Buried
<1>7. QED
  BY <1>3, <1>5, <1>6 DEF LineageInv

LEMMA StepKeepsLineages ==
    IInv /\ LineageRooted /\ OneRequestPerLineage /\ LineageInv /\ [Next]_vars => LineageInv'
<1> SUFFICES ASSUME IInv, LineageRooted, OneRequestPerLineage, LineageInv, [Next]_vars
             PROVE  LineageInv'
  OBVIOUS
<1>1. RowsKept /\ TurnInv /\ AllBuried
  BY StepKeepsRows DEF LineageInv, TurnInv
<1>2. ASSUME NEW r \in Requests, Arrive(r) \/ Proceed(r) \/ Abort(r) PROVE LineageInv'
  <2>1. AllAlone' /\ AllBuried'
    BY <1>1, <1>2, StepKeepsAlone, StepKeepsBuried
  <2>2. Descends' /\ UsedOnce' /\ OneUsable'
    <3>1. CASE CreateToken(r)
      BY <1>1, <3>1, TreeGrows
    <3>2. CASE ~CreateToken(r)
      <4>1. IssuedTokens' \subseteq IssuedTokens
        BY <1>1, <1>2, <3>2, OthersStayOff
      <4>2. QED
        BY <1>1, <4>1, TreeStays DEF LineageInv
    <3>3. QED
      BY <3>1, <3>2
  <2>3. QED
    BY <2>1, <2>2 DEF LineageInv
<1>3. CASE Tick \/ Administer \/ UNCHANGED vars
  BY <1>1, <1>3, WorldKeepsLineages
<1>4. QED
  BY <1>2, <1>3 DEF Next

LEMMA InitLineages == Init => LineageInv
<1> SUFFICES ASSUME Init PROVE LineageInv
  OBVIOUS
<1>1. IssuedTokens = {} /\ audit = {} /\ \A r \in Requests : req[r].pc = "idle"
  BY DEF Init, IssuedTokens, Idle
<1>2. Descends /\ UsedOnce /\ OneUsable /\ AllBuried
  BY <1>1 DEF Descends, UsedOnce, OneUsable, AllBuried
<1>3. AllAlone
  BY <1>1 DEF AllAlone, Alone, Issuing
<1>4. QED
  BY <1>2, <1>3 DEF LineageInv

\* The invariant behind the four promises: each holds as long as the requests
\* about any one lineage follow each other.
THEOREM LineageInvariance == Spec /\ []OneRequestPerLineage => []LineageInv
<1>1. QED
  BY InitLineages, StepKeepsLineages, LineageTheorem, KnowledgeTheorem, PTL DEF Spec, IInv

\* "codigo de uso unico" (prisma/schema.prisma): exchangeAuthorizationCode
\* issues one token for a code, unless two requests present it at once.
THEOREM CodeSingleUseTheorem == Spec /\ []OneRequestPerLineage => []CodeSingleUse
<1>1. LineageInv => CodeSingleUse
  BY DEF LineageInv, UsedOnce, CodeSingleUse, ExchangedOnce
<1>2. QED
  BY <1>1, LineageInvariance, PTL

\* "Rotacionado a cada uso; nunca reaproveitado" (docs/SEGURANCA.md): the same
\* for exchangeRefreshToken.
THEOREM TokenSingleUseTheorem == Spec /\ []OneRequestPerLineage => []TokenSingleUse
<1>1. LineageInv => TokenSingleUse
  BY DEF LineageInv, UsedOnce, TokenSingleUse, ExchangedOnce
<1>2. QED
  BY <1>1, LineageInvariance, PTL

\* A recorded action of either kind leaves no usable token behind.
LEMMA RecordedMeansDead ==
    ASSUME LineageInv, NEW action \in {"ACCESS_REVOKED", "LOGOUT"}
    PROVE  DeadOnceRecorded(action)
<1> SUFFICES ASSUME NEW i \in Items, <<action, i>> \in audit, NEW t \in Lineage(i)
             PROVE  tokens[t].revoked
  BY DEF DeadOnceRecorded
<1>1. Dead(RootCode(i)) /\ t \in IssuedTokens
  BY DEF LineageInv, AllBuried, Buried, Lineage
<1>2. t \notin Codes
  BY <1>1 DEF IssuedTokens
<1>3. RootCode(t) = RootCode(i)
  BY <1>2 DEF Lineage, RootCode
<1>4. QED
  BY <1>1, <1>3 DEF Dead

\* Once the reuse of a code or token has been answered with a revocation and
\* recorded, none of its lineage is usable again.
THEOREM BurnedTheorem == Spec /\ []OneRequestPerLineage => []BurnedLineageStaysDead
<1>1. LineageInv => BurnedLineageStaysDead
  BY RecordedMeansDead DEF BurnedLineageStaysDead
<1>2. QED
  BY <1>1, LineageInvariance, PTL

\* POST /revoke logs out for good: the same once a logout is recorded.
THEOREM LoggedOutTheorem == Spec /\ []OneRequestPerLineage => []LoggedOutLineageStaysDead
<1>1. LineageInv => LoggedOutLineageStaysDead
  BY RecordedMeansDead DEF LoggedOutLineageStaysDead
<1>2. QED
  BY <1>1, LineageInvariance, PTL
=============================================================================
