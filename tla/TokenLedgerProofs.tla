------------------------- MODULE TokenLedgerProofs -------------------------
(***************************************************************************)
(* Proofs about the book of codes and tokens, for any sets of users,       *)
(* systems, codes and tokens.                                              *)
(***************************************************************************)
EXTENDS TokenLedger, TLAPS

USE DEF ConstantsDistinct

\* Entries only ever hold the fields they are declared with.
THEOREM LedgerTyped ==
    ASSUME ConstantsDistinct PROVE Spec => []TypeOK
<1>1. Init => TypeOK
  BY DEF Init, TypeOK
<1>2. TypeOK /\ [Next]_lvars => TypeOK'
  <2> SUFFICES ASSUME TypeOK, [Next]_lvars PROVE TypeOK'
    OBVIOUS
  <2> USE DEF TypeOK
  <2>1. ASSUME NEW c \in Codes, NEW u \in Users, NEW s \in Systems, IssueCode(c, u, s)
        PROVE TypeOK'
    BY <2>1 DEF IssueCode, CodeEntries, TokenEntries
  <2>2. ASSUME NEW c \in Codes, UseCode(c) PROVE TypeOK'
    <3>1. codes[c] \in CodeEntries
      BY <2>2 DEF UseCode
    <3>2. [codes[c] EXCEPT !.used = TRUE] \in CodeEntries
      BY <3>1 DEF CodeEntries
    <3>3. QED
      BY <2>2, <3>2 DEF UseCode
  <2>3. ASSUME NEW t \in Tokens, NEW i \in Codes \cup Tokens, IssueToken(t, i)
        PROVE TypeOK'
    BY <2>3 DEF IssueToken, Issued, Owner, CodeEntries, TokenEntries
  <2>4. ASSUME NEW revoked \in SUBSET Tokens, RevokeTokens(revoked) PROVE TypeOK'
    <3>1. \A t \in Tokens : tokens[t] # None =>
                             [tokens[t] EXCEPT !.revoked = TRUE] \in TokenEntries
      BY DEF TokenEntries
    <3>2. QED
      BY <2>4, <3>1 DEF RevokeTokens
  <2>5. CASE UNCHANGED lvars
    BY <2>5 DEF lvars
  <2>6. QED
    BY <2>1, <2>2, <2>3, <2>4, <2>5 DEF Next
<1>3. QED
  BY <1>1, <1>2, PTL DEF Spec

-----------------------------------------------------------------------------

\* No step takes an entry away, changes its owner, or makes it usable again.
LEMMA StepKeepsEntries ==
    ASSUME ConstantsDistinct, TypeOK, [Next]_lvars
    PROVE  /\ \A i \in Codes \cup Tokens :
                 Issued(i) => /\ Issued(i)'
                              /\ Owner(i)' = Owner(i)
                              /\ Spent(i) => Spent(i)'
           /\ \A t \in IssuedTokens : /\ tokens'[t].family = tokens[t].family
                                      /\ origin'[t] = origin[t]
<1> DEFINE Kept == /\ \A i \in Codes \cup Tokens :
                         Issued(i) => /\ Issued(i)'
                                      /\ Owner(i)' = Owner(i)
                                      /\ Spent(i) => Spent(i)'
                   /\ \A t \in IssuedTokens :
                         /\ tokens'[t].family = tokens[t].family
                         /\ origin'[t] = origin[t]
<1> USE DEF TypeOK, CodeEntries, TokenEntries, Issued, Spent,
                             Owner, IssuedTokens
<1>1. ASSUME NEW c \in Codes, NEW u \in Users, NEW s \in Systems, IssueCode(c, u, s)
      PROVE Kept
  BY <1>1 DEF IssueCode
<1>2. ASSUME NEW c \in Codes, UseCode(c) PROVE Kept
  BY <1>2 DEF UseCode
<1>3. ASSUME NEW t \in Tokens, NEW i \in Codes \cup Tokens, IssueToken(t, i)
      PROVE Kept
  BY <1>3 DEF IssueToken
<1>4. ASSUME NEW revoked \in SUBSET Tokens, RevokeTokens(revoked) PROVE Kept
  <2>1. \A t \in Tokens : tokens[t] # None =>
          /\ [tokens[t] EXCEPT !.revoked = TRUE] # None
          /\ [tokens[t] EXCEPT !.revoked = TRUE].user = tokens[t].user
          /\ [tokens[t] EXCEPT !.revoked = TRUE].system = tokens[t].system
          /\ [tokens[t] EXCEPT !.revoked = TRUE].family = tokens[t].family
          /\ [tokens[t] EXCEPT !.revoked = TRUE].revoked
    <3>1. \A t \in Tokens : tokens[t] # None =>
                             [tokens[t] EXCEPT !.revoked = TRUE] \in TokenEntries
      OBVIOUS
    <3>2. QED
      BY <3>1
  <2>2. \A t \in Tokens : tokens[t] # None =>
          /\ tokens'[t] # None
          /\ tokens'[t].user = tokens[t].user
          /\ tokens'[t].system = tokens[t].system
          /\ tokens'[t].family = tokens[t].family
          /\ tokens[t].revoked => tokens'[t].revoked
    BY <1>4, <2>1 DEF RevokeTokens
  <2>3. UNCHANGED <<codes, origin>>
    BY <1>4 DEF RevokeTokens
  <2>4. QED
    BY <2>2, <2>3
<1>5. CASE UNCHANGED lvars
  BY <1>5 DEF lvars
<1>6. QED
  BY <1>1, <1>2, <1>3, <1>4, <1>5 DEF Next

\* The tables only grow: the action property of the same name.
THEOREM LedgerMonotone ==
    ASSUME ConstantsDistinct PROVE Spec => NothingComesBack
<1>1. TypeOK /\ [Next]_lvars =>
        [/\ \A i \in Codes \cup Tokens :
              Issued(i) => /\ Issued(i)'
                           /\ Owner(i)' = Owner(i)
                           /\ Spent(i) => Spent(i)'
         /\ \A t \in IssuedTokens : /\ tokens'[t].family = tokens[t].family
                                    /\ origin'[t] = origin[t]]_lvars
  BY StepKeepsEntries
<1>2. QED
  BY <1>1, LedgerTyped, PTL DEF Spec, NothingComesBack

-----------------------------------------------------------------------------

LedgerInv == TypeOK /\ ParentSpentFirst /\ LineageRooted

\* A step that is taken keeps the ledger consistent.  Entries are only ever
\* added to, so only the token an IssueToken step inserts needs a look.
LEMMA StepKeepsLedgerInv ==
    ASSUME ConstantsDistinct
    PROVE  LedgerInv /\ [Next]_lvars /\ TypeOK' => LedgerInv'
<1> SUFFICES ASSUME LedgerInv, [Next]_lvars, TypeOK' PROVE LedgerInv'
  OBVIOUS
<1>1. /\ \A i \in Codes \cup Tokens :
            Issued(i) => /\ Issued(i)'
                         /\ Owner(i)' = Owner(i)
                         /\ Spent(i) => Spent(i)'
      /\ \A t \in IssuedTokens : /\ tokens'[t].family = tokens[t].family
                                 /\ origin'[t] = origin[t]
  BY StepKeepsEntries DEF LedgerInv
<1>2. \A t \in IssuedTokens' \ IssuedTokens :
        /\ origin'[t] \in Codes \cup Tokens
        /\ Issued(origin'[t]) /\ Spent(origin'[t])
        /\ Owner(t)' = Owner(origin'[t])
        /\ tokens'[t].family = IF origin'[t] \in Codes THEN t
                               ELSE tokens[origin'[t]].family
  <2> SUFFICES ASSUME NEW t \in IssuedTokens', t \notin IssuedTokens
               PROVE  /\ origin'[t] \in Codes \cup Tokens
                      /\ Issued(origin'[t]) /\ Spent(origin'[t])
                      /\ Owner(t)' = Owner(origin'[t])
                      /\ tokens'[t].family = IF origin'[t] \in Codes THEN t
                                             ELSE tokens[origin'[t]].family
    OBVIOUS
  <2> USE DEF IssuedTokens
  <2>1. PICK t1 \in Tokens, i \in Codes \cup Tokens : IssueToken(t1, i)
    BY DEF Next, IssueCode, UseCode, RevokeTokens, lvars
  <2>2. t1 = t /\ origin'[t] = i /\ Issued(i) /\ Spent(i)
    BY <2>1 DEF IssueToken, LedgerInv, TypeOK
  <2>3. tokens'[t] = [user |-> Owner(i)[1], system |-> Owner(i)[2],
                      family |-> IF i \in Codes THEN t ELSE tokens[i].family,
                      revoked |-> FALSE]
    BY <2>1, <2>2 DEF IssueToken, LedgerInv, TypeOK
  <2>4. t \notin Codes
    OBVIOUS
  <2>5. QED
    BY <2>2, <2>3, <2>4 DEF Owner
<1>3. \A x \in IssuedTokens : x \in IssuedTokens'
  BY <1>1 DEF IssuedTokens, Issued
<1>4. ParentSpentFirst'
  BY <1>1, <1>2 DEF LedgerInv, ParentSpentFirst, IssuedTokens
<1>5. LineageRooted'
  <2>1. \A t \in IssuedTokens : Rooted(t)'
    <3> SUFFICES ASSUME NEW t \in IssuedTokens PROVE Rooted(t)'
      OBVIOUS
    <3>1. PICK root \in IssuedTokens, c \in Codes :
            /\ tokens[t].family = root /\ tokens[root].family = root
            /\ origin[root] = c /\ Issued(c) /\ Spent(c) /\ Owner(t) = Owner(c)
      BY DEF LedgerInv, LineageRooted, Rooted
    <3>2. /\ tokens'[t].family = root /\ root \in IssuedTokens'
          /\ tokens'[root].family = root /\ origin'[root] = c
      BY <1>1, <1>3, <3>1
    <3>3. t \notin Codes /\ Issued(t)
      BY DEF IssuedTokens, Issued
    <3>4. Owner(t)' = Owner(t) /\ Owner(c)' = Owner(c) /\ Issued(c)' /\ Spent(c)'
      BY <1>1, <3>1, <3>3 DEF IssuedTokens
    <3>5. QED
      BY <3>1, <3>2, <3>4 DEF Rooted, Issued, Spent, Owner
  <2>2. \A t \in IssuedTokens' \ IssuedTokens : Rooted(t)'
    <3> SUFFICES ASSUME NEW t \in IssuedTokens', t \notin IssuedTokens
                 PROVE Rooted(t)'
      OBVIOUS
    <3>1. CASE origin'[t] \in Codes
      <4>1. Issued(origin'[t]) /\ Spent(origin'[t]) /\ tokens'[t].family = t
            /\ Owner(t)' = Owner(origin'[t])
        BY <1>2, <3>1
      <4>2. PICK i \in Codes : i = origin'[t]
        BY <3>1
      <4>3. Issued(i)' /\ Spent(i)' /\ Owner(i)' = Owner(i)
        BY <1>1, <4>1, <4>2
      <4>4. QED
        BY <4>1, <4>2, <4>3 DEF Rooted, Issued, Spent, Owner
    <3>2. CASE origin'[t] \notin Codes
      <4>1. PICK i \in IssuedTokens : i = origin'[t]
        BY <1>2, <3>2 DEF IssuedTokens, Issued
      <4>2. tokens'[t].family = tokens[i].family /\ Owner(t)' = Owner(i)
        BY <1>2, <3>2, <4>1
      <4>3. i \notin Codes /\ t \notin Codes /\ Issued(i)
        BY DEF IssuedTokens, Issued
      <4>4. tokens'[i].family = tokens[i].family /\ Owner(i)' = Owner(i)
        BY <1>1, <4>3 DEF IssuedTokens
      <4>5. Rooted(i)'
        BY <2>1
      <4>6. QED
        BY <4>2, <4>3, <4>4, <4>5 DEF Rooted, Owner
    <3>3. QED
      BY <3>1, <3>2
  <2>3. QED
    BY <2>1, <2>2 DEF LineageRooted
<1>6. QED
  BY <1>4, <1>5 DEF LedgerInv

\* Every token was issued for something already spent, and every family leads
\* to one root token and the used code it was issued for, of the same owner.
THEOREM LedgerSound ==
    ASSUME ConstantsDistinct PROVE Spec => [](ParentSpentFirst /\ LineageRooted)
<1>1. Init => ParentSpentFirst /\ LineageRooted
  BY DEF Init, ParentSpentFirst, LineageRooted, IssuedTokens
<1>2. LedgerInv /\ [Next]_lvars /\ TypeOK' => LedgerInv'
  BY StepKeepsLedgerInv
<1>3. QED
  BY <1>1, <1>2, LedgerTyped, PTL DEF Spec, LedgerInv
=============================================================================
