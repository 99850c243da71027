------------------------- MODULE ClientSessionProofs -------------------------
(***************************************************************************)
(* What the SDK's sessions promise, for any number of sessions, logins,    *)
(* tokens and overlapping requests.                                        *)
(*                                                                         *)
(* A request works on a copy of its session, so the invariant says of      *)
(* every copy what the requirements say of the store: the tokens in it are *)
(* of the login its session was created for, and its state was sent to the *)
(* IdP for that session.  The copies change under no lock; that the tables *)
(* they refer to only grow is what keeps them true (Kept, KnowsOn).        *)
(***************************************************************************)
EXTENDS ClientSession, TLAPS

\* Token a belongs to the login session s was created for.
Holds(a, s, tok, lin) == s # None /\ tok[a] # None /\ tok[a].family = lin[s]

\* What a copy q of a session relies on, by the point its handler has reached.
Knows(q, tok, lin, ask) ==
    /\ q \in Locals
    /\ q.pc = "refresh" => q.auth # None
    /\ q.pc = "exchange" => <<q.sid, q.login>> \in ask
    /\ q.pc # "regenerate" /\ q.auth # None => Holds(q.auth, q.sid, tok, lin)
    /\ q.pc = "regenerate" => /\ q.auth # None /\ tok[q.auth] # None
                              /\ tok[q.auth].family = q.auth
                              /\ \A s \in Sids : lin[s] # q.auth

CopiesKnow == \A r \in Requests : Knows(req[r], tokens, lineage, asked)

\* Two handlers about to open a session do so for different logins.
OneSessionEach ==
    \A r1, r2 \in Requests :
      At(r1, "regenerate") /\ At(r2, "regenerate") /\ req[r1].auth = req[r2].auth => r1 = r2

\* A stored session holds tokens of its login and a state that was sent for it.
StoreKeepsLogins ==
    \A s \in Sids : store[s] # None =>
      /\ store[s].auth # None => Holds(store[s].auth, s, tokens, lineage)
      /\ store[s].state # None => <<s, store[s].state>> \in asked

LineageIssued == \A s \in Sids : lineage[s] # None => tokens[lineage[s]] # None
LineageUnique ==
    \A s1, s2 \in Sids : lineage[s1] = lineage[s2] /\ lineage[s1] # None => s1 = s2
ExpiredIssued == \A t \in expired : tokens[t] # None

IInv ==
    /\ TypeOK
    /\ CopiesKnow /\ OneSessionEach
    /\ StoreKeepsLogins
    /\ LineageIssued /\ LineageUnique
    /\ ExpiredIssued

\* What a step may do to the rows of refresh tokens.
Rows == [Tokens -> TokenRows \cup {None}]
Kept(tok, tok2) ==
    \A t \in Tokens : tok[t] # None => tok2[t] # None /\ tok2[t].family = tok[t].family

\* The body of ServedOnFreshToken.
ServedFresh == \A r \in Requests : ~At(r, "serve") /\ req'[r].pc = "serve" =>
                                     req'[r].auth \notin expired

-----------------------------------------------------------------------------
(* The helpers *)

\* What a copy relies on survives every growth of the tables.
LEMMA KnowsOn ==
    ASSUME NEW q, NEW tok, NEW tok2, NEW lin, NEW ask, NEW ask2,
           Knows(q, tok, lin, ask), Kept(tok, tok2), ask \subseteq ask2
    PROVE  Knows(q, tok2, lin, ask2)
  <1>1. q.auth # None => q.auth \in Tokens
    BY DEF Knows, Locals
  <1> QED BY <1>1 DEF Knows, Kept, Holds

\* The UPDATEs of revoked leave every row in its family.
LEMMA RevokedKeeps ==
    ASSUME tokens \in Rows, NEW dead
    PROVE  /\ WithRevoked(dead) \in Rows
           /\ Kept(tokens, WithRevoked(dead))
           /\ \A t \in Tokens : tokens[t] = None => WithRevoked(dead)[t] = None
  <1>1. ASSUME NEW t \in Tokens
        PROVE  /\ WithRevoked(dead)[t] \in TokenRows \cup {None}
               /\ tokens[t] # None => /\ WithRevoked(dead)[t] # None
                                      /\ WithRevoked(dead)[t].family = tokens[t].family
               /\ tokens[t] = None => WithRevoked(dead)[t] = None
    <2>1. tokens[t] # None => tokens[t] \in TokenRows
      BY DEF Rows
    <2>2. tokens[t] # None => /\ [tokens[t] EXCEPT !.revoked = TRUE] \in TokenRows
                              /\ [tokens[t] EXCEPT !.revoked = TRUE].family = tokens[t].family
      BY <2>1 DEF TokenRows
    <2>3. None \notin TokenRows
      BY NoneAssumption
    <2> QED BY <2>1, <2>2, <2>3 DEF WithRevoked, Issued, Rows
  <1>2. WithRevoked(dead) \in Rows
    BY <1>1 DEF WithRevoked, Rows
  <1> QED BY <1>1, <1>2 DEF Kept

\* A row inserted for a token that was not there leaves the others alone.
LEMMA IssueKeeps ==
    ASSUME tokens \in Rows, NEW t \in FreshTokens, NEW family \in Tokens
    PROVE  /\ t \in Tokens /\ tokens[t] = None
           /\ Issue(t, family) \in Rows
           /\ Kept(tokens, Issue(t, family))
           /\ Issue(t, family)[t] # None
           /\ Issue(t, family)[t].family = family
  <1>1. t \in Tokens /\ tokens[t] = None
    BY DEF FreshTokens
  <1>2. [family |-> family, revoked |-> FALSE] \in TokenRows
    BY DEF TokenRows
  <1>3. [family |-> family, revoked |-> FALSE] # None
    BY <1>2, NoneAssumption
  <1> QED BY <1>1, <1>2, <1>3 DEF Issue, Rows, Kept

\* The copy of a stored session relies on nothing the store does not promise.
LEMMA OpenedKnows ==
    ASSUME IInv, NEW sid \in Sids \cup {None}
    PROVE  /\ Opened(sid) \in Locals
           /\ Opened(sid).pc = "idle"
           /\ Opened(sid).auth # None => Holds(Opened(sid).auth, Opened(sid).sid, tokens, lineage)
           /\ Opened(sid).state # None => <<Opened(sid).sid, Opened(sid).state>> \in asked
  <1>1. /\ Idle \in Locals /\ Idle.pc = "idle" /\ Idle.auth = None /\ Idle.state = None
        /\ Idle.sid = None
    BY DEF Idle, Locals, Pcs
  <1>2. CASE sid # None /\ store[sid] # None
    <2>1. sid \in Sids /\ store[sid] \in SessionData
      BY <1>2 DEF IInv, TypeOK
    <2>2. Opened(sid) = [Idle EXCEPT !.sid = sid, !.state = store[sid].state,
                                     !.auth = store[sid].auth]
      BY <1>2 DEF Opened
    <2>3. /\ Opened(sid) \in Locals
          /\ Opened(sid).pc = "idle" /\ Opened(sid).sid = sid
          /\ Opened(sid).auth = store[sid].auth /\ Opened(sid).state = store[sid].state
      BY <2>1, <2>2 DEF SessionData, Idle, Locals, Pcs
    <2> QED BY <1>2, <2>1, <2>3 DEF IInv, StoreKeepsLogins
  <1>3. CASE ~(sid # None /\ store[sid] # None)
    <2>1. Opened(sid) = Idle
      BY <1>3 DEF Opened
    <2> QED BY <1>1, <2>1
  <1> QED BY <1>2, <1>3

\* A request that is over relies on nothing.
LEMMA IdleKnows ==
    ASSUME NEW tok, NEW lin, NEW ask
    PROVE  Knows(Idle, tok, lin, ask) /\ Idle.pc = "idle"
  BY DEF Knows, Idle, Locals, Pcs

\* A response changes nothing of what the copy holds.
LEMMA RespondKnows ==
    ASSUME NEW tok, NEW lin, NEW ask, NEW q, Knows(q, tok, lin, ask), q.pc # "regenerate"
    PROVE  Knows(Respond(q), tok, lin, ask) /\ Respond(q).pc \in {"save", "idle"}
  <1>1. CASE q.dirty
    <2>1. q \in Locals
      BY DEF Knows
    <2>2. Respond(q) = [q EXCEPT !.pc = "save"]
      BY <1>1 DEF Respond
    <2>3. /\ Respond(q) \in Locals /\ Respond(q).pc = "save"
          /\ Respond(q).auth = q.auth /\ Respond(q).sid = q.sid
      BY <2>1, <2>2 DEF Locals, Pcs
    <2> QED BY <2>3 DEF Knows
  <1>2. CASE ~q.dirty
    BY <1>2, IdleKnows DEF Respond
  <1> QED BY <1>1, <1>2

\* The invariant as the facts the steps start from.
LEMMA StepStarts ==
    ASSUME IInv, NEW r \in Requests
    PROVE  /\ tokens \in Rows
           /\ req \in [Requests -> Locals] /\ req[r] \in Locals
           /\ Knows(req[r], tokens, lineage, asked)
           /\ store \in [Sids -> SessionData \cup {None}]
           /\ used \in SUBSET Logins /\ sent \in SUBSET Logins
           /\ expired \in SUBSET Tokens /\ alarm \in BOOLEAN
           /\ asked \in SUBSET (Sids \X Logins)
           /\ lineage \in [Sids -> Tokens \cup {None}]
  BY DEF IInv, TypeOK, Rows, CopiesKnow

\* Stored sessions stay true while the tables grow and the store shrinks.
LEMMA StoreStays ==
    ASSUME IInv, store' \in [Sids -> SessionData \cup {None}], lineage' = lineage,
           \A s \in Sids : store'[s] = store[s] \/ store'[s] = None,
           Kept(tokens, tokens'), asked \subseteq asked'
    PROVE  StoreKeepsLogins'
  <1>1. \A s \in Sids : store[s] # None => store[s] \in SessionData
    BY DEF IInv, TypeOK
  <1>2. \A s \in Sids : store[s] # None /\ store[s].auth # None => store[s].auth \in Tokens
    BY <1>1 DEF SessionData
  <1> QED BY <1>2 DEF IInv, StoreKeepsLogins, Kept, Holds

\* A request goes on as q, the rows and the logins asked for grow, no session
\* is opened: the invariant needs a look only at q and at the store.
LEMMA GoesOn ==
    ASSUME IInv, NEW r \in Requests, NEW q,
           req' = [req EXCEPT ![r] = q],
           Knows(q, tokens', lineage, asked'),
           q.pc = "regenerate" => tokens[q.auth] = None,
           q.pc = "serve" /\ ~At(r, "serve") => q.auth \notin expired,
           tokens' \in Rows, Kept(tokens, tokens'),
           store' \in [Sids -> SessionData \cup {None}], StoreKeepsLogins',
           asked' \in SUBSET (Sids \X Logins), asked \subseteq asked',
           used' \in SUBSET Logins, sent' \in SUBSET Logins, alarm' \in BOOLEAN,
           UNCHANGED <<expired, lineage>>
    PROVE  IInv' /\ ServedFresh
  <1>1. req \in [Requests -> Locals] /\ tokens \in Rows
    BY StepStarts
  <1>2. q \in Locals
    BY DEF Knows
  <1>3. \A x \in Requests : req'[x] = IF x = r THEN q ELSE req[x]
    BY <1>1
  <1>4. TypeOK'
    <2>1. req' \in [Requests -> Locals]
      BY <1>1, <1>2
    <2> QED BY <2>1 DEF IInv, TypeOK, Rows
  <1>5. CopiesKnow'
    <2>1. \A x \in Requests : Knows(req[x], tokens', lineage, asked')
      BY KnowsOn DEF IInv, CopiesKnow
    <2>2. \A x \in Requests : Knows(req'[x], tokens', lineage, asked')
      BY <1>3, <2>1
    <2> QED BY <2>2 DEF CopiesKnow, Knows, Holds
  <1>6. OneSessionEach'
    <2>1. \A x \in Requests : At(x, "regenerate") => tokens[req[x].auth] # None
      BY DEF IInv, CopiesKnow, Knows, At
    <2> QED BY <1>3, <2>1 DEF IInv, OneSessionEach, At
  <1>7. LineageIssued' /\ LineageUnique'
    BY DEF IInv, TypeOK, LineageIssued, LineageUnique, Kept
  <1>8. ExpiredIssued'
    BY DEF IInv, TypeOK, ExpiredIssued, Kept
  <1>9. ServedFresh
    BY <1>3 DEF ServedFresh, At
  <1> QED BY <1>4, <1>5, <1>6, <1>7, <1>8, <1>9 DEF IInv

\* The same for a request that is let in: nothing else changes.
LEMMA ReceiveStep ==
    ASSUME IInv, NEW r \in Requests, NEW q, Receive(r, q),
           Knows(q, tokens, lineage, asked), q.pc # "regenerate",
           q.pc = "serve" => q.auth \notin expired
    PROVE  IInv' /\ ServedFresh
  <1>1. /\ req' = [req EXCEPT ![r] = q]
        /\ UNCHANGED <<store, tokens, used, alarm, expired, sent, asked, lineage>>
    BY DEF Receive, idp
  <1>2. Kept(tokens, tokens')
    BY <1>1 DEF Kept
  <1>3. Knows(q, tokens', lineage, asked')
    BY <1>1
  <1>4. StoreKeepsLogins'
    BY <1>1, <1>2, StoreStays, StepStarts
  <1> QED BY <1>1, <1>2, <1>3, <1>4, GoesOn, StepStarts

-----------------------------------------------------------------------------
(* The steps: requests that come in *)

LEMMA LoginStep ==
    ASSUME IInv, NEW r \in Requests, NEW sid \in Sids \cup {None}, NEW l \in Logins,
           Login(r, sid, l)
    PROVE  IInv' /\ ServedFresh
  <1> DEFINE q == [Opened(sid) EXCEPT !.pc = "save", !.state = l, !.login = l,
                                      !.dirty = TRUE]
  <1>1. /\ Opened(sid) \in Locals
        /\ Opened(sid).auth # None => Holds(Opened(sid).auth, Opened(sid).sid, tokens, lineage)
    BY OpenedKnows
  <1>2. /\ q \in Locals /\ q.pc = "save"
        /\ q.auth = Opened(sid).auth /\ q.sid = Opened(sid).sid
    BY <1>1 DEF Locals, Pcs
  <1>3. Knows(q, tokens, lineage, asked)
    BY <1>1, <1>2 DEF Knows
  <1>4. Receive(r, q)
    BY DEF Login
  <1> HIDE DEF q
  <1> QED BY <1>2, <1>3, <1>4, ReceiveStep

LEMMA CallbackStep ==
    ASSUME IInv, NEW r \in Requests, NEW sid \in Sids \cup {None}, NEW l \in Logins,
           Callback(r, sid, l)
    PROVE  IInv' /\ ServedFresh
  <1> DEFINE q == [Opened(sid) EXCEPT !.state = None, !.dirty = Opened(sid).state # None]
             e == [q EXCEPT !.pc = "exchange", !.login = l]
  <1>1. /\ Opened(sid) \in Locals /\ Opened(sid).pc = "idle"
        /\ Opened(sid).auth # None => Holds(Opened(sid).auth, Opened(sid).sid, tokens, lineage)
        /\ Opened(sid).state # None => <<Opened(sid).sid, Opened(sid).state>> \in asked
    BY OpenedKnows
  <1>2. /\ q \in Locals /\ q.pc = "idle"
        /\ q.auth = Opened(sid).auth /\ q.sid = Opened(sid).sid
    BY <1>1 DEF Locals, Pcs
  <1>3. Knows(q, tokens, lineage, asked)
    BY <1>1, <1>2 DEF Knows
  <1>4. CASE Opened(sid).state = l
    <2>1. Receive(r, e)
      BY <1>4 DEF Callback
    <2>2. /\ e \in Locals /\ e.pc = "exchange" /\ e.login = l
          /\ e.auth = Opened(sid).auth /\ e.sid = Opened(sid).sid
      BY <1>1 DEF Locals, Pcs
    <2>3. l # None
      BY NoneAssumption
    <2>4. Knows(e, tokens, lineage, asked)
      BY <1>1, <1>4, <2>2, <2>3 DEF Knows
    <2> HIDE DEF e
    <2> QED BY <2>1, <2>2, <2>4, ReceiveStep
  <1>5. CASE Opened(sid).state # l
    <2>1. Receive(r, Respond(q))
      BY <1>5 DEF Callback
    <2> HIDE DEF q
    <2>2. Knows(Respond(q), tokens, lineage, asked) /\ Respond(q).pc \in {"save", "idle"}
      BY <1>2, <1>3, RespondKnows
    <2> QED BY <2>1, <2>2, ReceiveStep
  <1> QED BY <1>4, <1>5

LEMMA ProtectStep ==
    ASSUME IInv, NEW r \in Requests, NEW sid \in Sids \cup {None}, Protect(r, sid)
    PROVE  IInv' /\ ServedFresh
  <1> DEFINE q == Opened(sid)
             sv == [q EXCEPT !.pc = "serve"]
             rf == [q EXCEPT !.pc = "refresh"]
  <1>1. /\ q \in Locals /\ q.pc = "idle"
        /\ q.auth # None => Holds(q.auth, q.sid, tokens, lineage)
    BY OpenedKnows
  <1>2. /\ sv \in Locals /\ sv.pc = "serve" /\ sv.auth = q.auth /\ sv.sid = q.sid
        /\ rf \in Locals /\ rf.pc = "refresh" /\ rf.auth = q.auth /\ rf.sid = q.sid
    BY <1>1 DEF Locals, Pcs
  <1>3. \/ Receive(r, Idle)
        \/ q.auth # None /\ q.auth \notin expired /\ Receive(r, sv)
        \/ q.auth # None /\ Receive(r, rf)
    BY DEF Protect
  <1> HIDE DEF q, sv, rf
  <1>4. CASE Receive(r, Idle)
    BY <1>4, IdleKnows, ReceiveStep
  <1>5. CASE q.auth # None /\ q.auth \notin expired /\ Receive(r, sv)
    <2>1. Knows(sv, tokens, lineage, asked)
      BY <1>1, <1>2 DEF Knows
    <2> QED BY <1>2, <1>5, <2>1, ReceiveStep
  <1>6. CASE q.auth # None /\ Receive(r, rf)
    <2>1. Knows(rf, tokens, lineage, asked)
      BY <1>1, <1>2, <1>6 DEF Knows
    <2> QED BY <1>2, <1>6, <2>1, ReceiveStep
  <1> QED BY <1>3, <1>4, <1>5, <1>6

LEMMA LogoutStep ==
    ASSUME IInv, NEW r \in Requests, NEW sid \in Sids \cup {None}, Logout(r, sid)
    PROVE  IInv' /\ ServedFresh
  <1> DEFINE q == [Opened(sid) EXCEPT
                     !.pc = IF Opened(sid).auth = None THEN "destroy" ELSE "revoke"]
  <1>1. /\ Opened(sid) \in Locals
        /\ Opened(sid).auth # None => Holds(Opened(sid).auth, Opened(sid).sid, tokens, lineage)
    BY OpenedKnows
  <1>2. /\ q \in Locals /\ q.pc \in {"destroy", "revoke"}
        /\ q.auth = Opened(sid).auth /\ q.sid = Opened(sid).sid
    BY <1>1 DEF Locals, Pcs
  <1>3. Knows(q, tokens, lineage, asked)
    BY <1>1, <1>2 DEF Knows
  <1>4. Receive(r, q)
    BY DEF Logout
  <1> HIDE DEF q
  <1> QED BY <1>2, <1>3, <1>4, ReceiveStep

-----------------------------------------------------------------------------
(* The steps: calls to the IdP *)

LEMMA ExchangeStep ==
    ASSUME IInv, NEW r \in Requests, Exchange(r)
    PROVE  IInv' /\ ServedFresh
  <1>1. /\ tokens \in Rows /\ req \in [Requests -> Locals]
        /\ Knows(req[r], tokens, lineage, asked)
        /\ req[r].pc = "exchange" /\ req[r] \in Locals
        /\ used \in SUBSET Logins /\ alarm \in BOOLEAN
    BY StepStarts DEF Exchange, At
  <1>2. UNCHANGED <<store, expired, sent, asked, lineage>>
    BY DEF Exchange
  <1>3. \/ ExchangeFails(r) /\ UNCHANGED idp
        \/ /\ tokens' = WithRevoked(Tokens) /\ alarm' = TRUE
           /\ ExchangeFails(r) /\ UNCHANGED used
        \/ /\ used' = used \cup {req[r].login}
           /\ \E t \in FreshTokens :
                /\ tokens' = Issue(t, t)
                /\ \/ req' = [req EXCEPT ![r].pc = "regenerate", ![r].auth = t]
                   \/ ExchangeFails(r)
           /\ UNCHANGED alarm
    BY DEF Exchange
  <1>4. ASSUME ExchangeFails(r), tokens' \in Rows, Kept(tokens, tokens'),
               used' \in SUBSET Logins, alarm' \in BOOLEAN
        PROVE  IInv' /\ ServedFresh
    <2>1. req' = [req EXCEPT ![r] = Respond(req[r])]
      BY <1>4 DEF ExchangeFails
    <2>2. Knows(req[r], tokens', lineage, asked')
      BY <1>1, <1>2, <1>4, KnowsOn
    <2>3. Knows(Respond(req[r]), tokens', lineage, asked')
          /\ Respond(req[r]).pc \in {"save", "idle"}
      BY <1>1, <2>2, RespondKnows
    <2>4. StoreKeepsLogins'
      BY <1>2, <1>4, StoreStays, StepStarts
    <2> QED BY <1>2, <1>4, <2>1, <2>3, <2>4, GoesOn, StepStarts
  <1>5. CASE ExchangeFails(r) /\ UNCHANGED idp
    <2>1. tokens' = tokens /\ used' = used /\ alarm' = alarm
      BY <1>5 DEF idp
    <2> QED BY <1>1, <1>4, <1>5, <2>1 DEF Kept
  <1>6. CASE tokens' = WithRevoked(Tokens) /\ alarm' = TRUE /\ ExchangeFails(r) /\ UNCHANGED used
    BY <1>1, <1>4, <1>6, RevokedKeeps
  <1>7. ASSUME used' = used \cup {req[r].login}, UNCHANGED alarm,
               NEW t \in FreshTokens, tokens' = Issue(t, t),
               \/ req' = [req EXCEPT ![r].pc = "regenerate", ![r].auth = t]
               \/ ExchangeFails(r)
        PROVE  IInv' /\ ServedFresh
    <2>1. /\ t \in Tokens /\ tokens[t] = None
          /\ tokens' \in Rows /\ Kept(tokens, tokens')
          /\ tokens'[t] # None /\ tokens'[t].family = t
      BY <1>1, <1>7, IssueKeeps DEF FreshTokens
    <2>2. used' \in SUBSET Logins
      <3>1. <<req[r].sid, req[r].login>> \in Sids \X Logins
        BY <1>1, StepStarts DEF Knows
      <3> QED BY <1>1, <1>7, <3>1
    <2>3. alarm' \in BOOLEAN
      BY <1>1, <1>7
    <2>4. CASE ExchangeFails(r)
      BY <1>4, <2>1, <2>2, <2>3, <2>4
    <2>5. CASE req' = [req EXCEPT ![r].pc = "regenerate", ![r].auth = t]
      <3> DEFINE q == [req[r] EXCEPT !.pc = "regenerate", !.auth = t]
      <3>1. q \in Locals /\ q.pc = "regenerate" /\ q.auth = t
        BY <1>1, <2>1 DEF Locals, Pcs
      <3>2. req' = [req EXCEPT ![r] = q]
        BY <1>1, <2>5
      <3>3. t # None /\ \A s \in Sids : lineage[s] # t
        BY <2>1, NoneAssumption DEF IInv, LineageIssued
      <3>4. Knows(q, tokens', lineage, asked')
        BY <2>1, <3>1, <3>3 DEF Knows
      <3>5. StoreKeepsLogins'
        BY <1>2, <2>1, StoreStays, StepStarts
      <3> HIDE DEF q
      <3> QED BY <1>2, <2>1, <2>2, <2>3, <3>1, <3>2, <3>4, <3>5, GoesOn, StepStarts
    <2> QED BY <1>7, <2>4, <2>5
  <1> QED BY <1>3, <1>5, <1>6, <1>7

LEMMA RefreshStep ==
    ASSUME IInv, NEW r \in Requests, Refresh(r)
    PROVE  IInv' /\ ServedFresh
  <1> DEFINE old == req[r].auth
  <1>1. /\ tokens \in Rows /\ req \in [Requests -> Locals]
        /\ Knows(req[r], tokens, lineage, asked)
        /\ req[r].pc = "refresh" /\ req[r] \in Locals
        /\ used \in SUBSET Logins /\ alarm \in BOOLEAN
    BY StepStarts DEF Refresh, At
  <1>2. UNCHANGED <<store, expired, sent, asked, lineage>>
    BY DEF Refresh
  <1>3. old \in Tokens /\ Holds(old, req[r].sid, tokens, lineage)
    BY <1>1 DEF Knows, Locals
  <1>4. \/ RenewalFails(r) /\ UNCHANGED idp
        \/ /\ tokens' = WithRevoked({t \in Issued : tokens[t].family = tokens[old].family})
           /\ alarm' = TRUE /\ RenewalFails(r) /\ UNCHANGED used
        \/ tokens' = WithRevoked({old}) /\ RenewalFails(r) /\ UNCHANGED <<used, alarm>>
        \/ /\ \E t \in FreshTokens :
                /\ tokens' = [Issue(t, tokens[old].family) EXCEPT ![old].revoked = TRUE]
                /\ \/ req' = [req EXCEPT ![r].pc = "serve", ![r].auth = t, ![r].dirty = TRUE]
                   \/ RenewalFails(r)
           /\ UNCHANGED <<used, alarm>>
    BY DEF Refresh
  <1>5. ASSUME RenewalFails(r), tokens' \in Rows, Kept(tokens, tokens'),
               used' \in SUBSET Logins, alarm' \in BOOLEAN
        PROVE  IInv' /\ ServedFresh
    <2> DEFINE q == [req[r] EXCEPT !.pc = "save", !.auth = None, !.dirty = TRUE]
    <2>1. req' = [req EXCEPT ![r] = q]
      BY <1>1, <1>5 DEF RenewalFails
    <2>2. q \in Locals /\ q.pc = "save" /\ q.auth = None
      BY <1>1 DEF Locals, Pcs
    <2>3. Knows(q, tokens', lineage, asked')
      BY <2>2 DEF Knows
    <2>4. StoreKeepsLogins'
      BY <1>2, <1>5, StoreStays, StepStarts
    <2> HIDE DEF q
    <2> QED BY <1>2, <1>5, <2>1, <2>2, <2>3, <2>4, GoesOn, StepStarts
  <1>6. CASE RenewalFails(r) /\ UNCHANGED idp
    <2>1. tokens' = tokens /\ used' = used /\ alarm' = alarm
      BY <1>6 DEF idp
    <2> QED BY <1>1, <1>5, <1>6, <2>1 DEF Kept
  <1>7. CASE /\ tokens' = WithRevoked({t \in Issued : tokens[t].family = tokens[old].family})
             /\ alarm' = TRUE /\ RenewalFails(r) /\ UNCHANGED used
    BY <1>1, <1>5, <1>7, RevokedKeeps
  <1>8. CASE tokens' = WithRevoked({old}) /\ RenewalFails(r) /\ UNCHANGED <<used, alarm>>
    BY <1>1, <1>5, <1>8, RevokedKeeps
  <1>9. ASSUME UNCHANGED <<used, alarm>>, NEW t \in FreshTokens,
               tokens' = [Issue(t, tokens[old].family) EXCEPT ![old].revoked = TRUE],
               \/ req' = [req EXCEPT ![r].pc = "serve", ![r].auth = t, ![r].dirty = TRUE]
               \/ RenewalFails(r)
        PROVE  IInv' /\ ServedFresh
    <2> DEFINE fam == tokens[old].family
               row == [tokens[old] EXCEPT !.revoked = TRUE]
    <2>1. tokens[old] \in TokenRows /\ fam \in Tokens
      BY <1>1, <1>3 DEF Rows, Holds, TokenRows
    <2>2. /\ t \in Tokens /\ tokens[t] = None /\ t # old
          /\ Issue(t, fam) \in Rows /\ Kept(tokens, Issue(t, fam))
          /\ Issue(t, fam)[t] # None /\ Issue(t, fam)[t].family = fam
      BY <1>1, <1>3, <2>1, IssueKeeps DEF Holds
    <2>3. Issue(t, fam)[old] = tokens[old]
      BY <1>1, <1>3, <2>2 DEF Issue, Rows
    <2>4. row \in TokenRows /\ row.family = fam /\ row # None
      BY <2>1, NoneAssumption DEF TokenRows
    <2>5. tokens' = [Issue(t, fam) EXCEPT ![old] = row]
      BY <1>3, <1>9, <2>2, <2>3 DEF Rows
    <2> HIDE DEF row
    <2>6. /\ tokens' \in Rows
          /\ \A x \in Tokens : tokens'[x] = IF x = old THEN row ELSE Issue(t, fam)[x]
      BY <1>3, <2>2, <2>4, <2>5 DEF Rows
    <2>7. Kept(tokens, tokens')
      BY <1>3, <2>2, <2>4, <2>6 DEF Kept
    <2>8. tokens'[t] # None /\ tokens'[t].family = fam
      BY <2>2, <2>6
    <2>9. used' \in SUBSET Logins /\ alarm' \in BOOLEAN
      BY <1>1, <1>9
    <2>10. CASE RenewalFails(r)
      BY <1>5, <2>6, <2>7, <2>9, <2>10
    <2>11. CASE req' = [req EXCEPT ![r].pc = "serve", ![r].auth = t, ![r].dirty = TRUE]
      <3> DEFINE q == [req[r] EXCEPT !.pc = "serve", !.auth = t, !.dirty = TRUE]
      <3>1. q \in Locals /\ q.pc = "serve" /\ q.auth = t /\ q.sid = req[r].sid
        BY <1>1, <2>2 DEF Locals, Pcs
      <3>2. req' = [req EXCEPT ![r] = q]
        BY <1>1, <2>11
      <3>3. t \notin expired
        BY <2>2 DEF IInv, ExpiredIssued
      <3>4. Knows(q, tokens', lineage, asked')
        BY <1>3, <2>8, <3>1 DEF Knows, Holds
      <3>5. StoreKeepsLogins'
        BY <1>2, <2>7, StoreStays, StepStarts
      <3> HIDE DEF q
      <3> QED BY <1>2, <2>6, <2>7, <2>9, <3>1, <3>2, <3>3, <3>4, <3>5, GoesOn, StepStarts
    <2> QED BY <1>9, <2>10, <2>11
  <1> QED BY <1>4, <1>6, <1>7, <1>8, <1>9

LEMMA RevokeStep ==
    ASSUME IInv, NEW r \in Requests, Revoke(r)
    PROVE  IInv' /\ ServedFresh
  <1> DEFINE q == [req[r] EXCEPT !.pc = "destroy"]
  <1>1. /\ tokens \in Rows /\ req \in [Requests -> Locals]
        /\ Knows(req[r], tokens, lineage, asked)
        /\ req[r].pc = "revoke" /\ req[r] \in Locals
    BY StepStarts DEF Revoke, At
  <1>2. UNCHANGED <<store, used, alarm, expired, sent, asked, lineage>>
    BY DEF Revoke
  <1>3. tokens' \in Rows /\ Kept(tokens, tokens')
    BY <1>1, RevokedKeeps DEF Revoke, Kept
  <1>4. req' = [req EXCEPT ![r] = q]
    BY <1>1 DEF Revoke
  <1>5. q \in Locals /\ q.pc = "destroy" /\ q.auth = req[r].auth /\ q.sid = req[r].sid
    BY <1>1 DEF Locals, Pcs
  <1>6. Knows(req[r], tokens', lineage, asked')
    BY <1>1, <1>2, <1>3, KnowsOn
  <1>7. Knows(q, tokens', lineage, asked')
    BY <1>1, <1>5, <1>6 DEF Knows
  <1>8. StoreKeepsLogins'
    BY <1>2, <1>3, StoreStays, StepStarts
  <1> HIDE DEF q
  <1> QED BY <1>2, <1>3, <1>4, <1>5, <1>7, <1>8, GoesOn, StepStarts

-----------------------------------------------------------------------------
(* The steps: the session store *)

\* The session opened is one nobody knows, and the login is one no session has:
\* both together keep logins and sessions one to one.
LEMMA RegenerateStep ==
    ASSUME IInv, NEW r \in Requests, Regenerate(r)
    PROVE  IInv' /\ ServedFresh
  <1>1. /\ req \in [Requests -> Locals] /\ req[r] \in Locals
        /\ Knows(req[r], tokens, lineage, asked) /\ req[r].pc = "regenerate"
        /\ store \in [Sids -> SessionData \cup {None}]
        /\ lineage \in [Sids -> Tokens \cup {None}]
    BY StepStarts DEF Regenerate, At
  <1>2. UNCHANGED <<tokens, used, alarm, expired, sent, asked>>
    BY DEF Regenerate, idp
  <1>3. PICK s \in FreshSids :
          /\ lineage' = [lineage EXCEPT ![s] = req[r].auth]
          /\ req' = [req EXCEPT ![r].pc = "save", ![r].sid = s, ![r].dirty = TRUE]
    BY DEF Regenerate
  <1>4. /\ s \in Sids /\ store[s] = None /\ lineage[s] = None
        /\ \A x \in Requests : req[x].sid # s
    BY DEF FreshSids
  <1>5. /\ store' \in [Sids -> SessionData \cup {None}]
        /\ \A x \in Sids : store'[x] = store[x] \/ store'[x] = None
    BY <1>1 DEF Regenerate
  <1> DEFINE a == req[r].auth
             q == [req[r] EXCEPT !.pc = "save", !.sid = s, !.dirty = TRUE]
  <1>6. /\ a \in Tokens /\ a # None /\ tokens[a] # None /\ tokens[a].family = a
        /\ \A x \in Sids : lineage[x] # a
    BY <1>1 DEF Knows, Locals
  <1>7. q \in Locals /\ q.pc = "save" /\ q.auth = a /\ q.sid = s
    BY <1>1, <1>4 DEF Locals, Pcs
  <1>8. req' = [req EXCEPT ![r] = q]
    BY <1>1, <1>3
  <1> HIDE DEF q
  <1>9. \A x \in Requests : req'[x] = IF x = r THEN q ELSE req[x]
    BY <1>1, <1>8
  <1>10. \A x \in Sids : lineage'[x] = IF x = s THEN a ELSE lineage[x]
    BY <1>1, <1>3
  <1>11. TypeOK'
    <2>1. req' \in [Requests -> Locals]
      BY <1>1, <1>7, <1>8
    <2>2. lineage' \in [Sids -> Tokens \cup {None}]
      BY <1>1, <1>3, <1>6
    <2> QED BY <1>2, <1>5, <2>1, <2>2 DEF IInv, TypeOK
  <1>12. CopiesKnow'
    <2>1. Knows(q, tokens', lineage', asked')
      <3>1. s # None
        BY <1>4, NoneAssumption
      <3> QED BY <1>2, <1>4, <1>6, <1>7, <1>10, <3>1 DEF Knows, Holds
    <2>2. ASSUME NEW x \in Requests, x # r
          PROVE  Knows(req[x], tokens', lineage', asked')
      <3>1. Knows(req[x], tokens, lineage, asked) /\ req[x].sid # s /\ req[x] \in Locals
        BY <1>1, <1>4 DEF IInv, CopiesKnow
      <3>2. req[x].pc = "regenerate" => req[x].auth # a
        BY <1>1, <2>2 DEF IInv, OneSessionEach, At
      <3>3. req[x].sid \in Sids \cup {None}
        BY <3>1 DEF Locals
      <3> QED BY <1>2, <1>10, <3>1, <3>2, <3>3 DEF Knows, Holds
    <2>3. \A x \in Requests : Knows(req'[x], tokens', lineage', asked')
      BY <1>9, <2>1, <2>2
    <2> QED BY <2>3 DEF CopiesKnow, Knows, Holds
  <1>13. OneSessionEach'
    BY <1>7, <1>9 DEF IInv, OneSessionEach, At
  <1>14. StoreKeepsLogins'
    BY <1>2, <1>4, <1>5, <1>10 DEF IInv, StoreKeepsLogins, Holds
  <1>15. LineageIssued'
    BY <1>2, <1>6, <1>10 DEF IInv, LineageIssued
  <1>16. LineageUnique'
    BY <1>6, <1>10 DEF IInv, LineageUnique
  <1>17. ExpiredIssued'
    BY <1>2 DEF IInv, ExpiredIssued
  <1>18. ServedFresh
    BY <1>7, <1>9 DEF ServedFresh, At
  <1> QED BY <1>11, <1>12, <1>13, <1>14, <1>15, <1>16, <1>17, <1>18 DEF IInv

LEMMA ServeStep ==
    ASSUME IInv, NEW r \in Requests, Serve(r)
    PROVE  IInv' /\ ServedFresh
  <1>1. /\ Knows(req[r], tokens, lineage, asked) /\ req[r].pc = "serve"
        /\ req' = [req EXCEPT ![r] = Respond(req[r])]
        /\ UNCHANGED <<store, tokens, used, alarm, expired, sent, asked, lineage>>
    BY StepStarts DEF Serve, At, idp
  <1>2. /\ Knows(Respond(req[r]), tokens, lineage, asked)
        /\ Respond(req[r]).pc \in {"save", "idle"}
    BY <1>1, RespondKnows
  <1>3. Knows(Respond(req[r]), tokens', lineage, asked')
    BY <1>1, <1>2
  <1>4. Kept(tokens, tokens')
    BY <1>1 DEF Kept
  <1>5. StoreKeepsLogins'
    BY <1>1, <1>4, StoreStays, StepStarts
  <1> QED BY <1>1, <1>2, <1>3, <1>4, <1>5, GoesOn, StepStarts

\* A copy is written back as a whole; that it is an old one does no harm, for
\* what it holds belongs to its session at any time.
LEMMA SaveStep ==
    ASSUME IInv, NEW r \in Requests, Save(r)
    PROVE  IInv' /\ ServedFresh
  <1>1. /\ Knows(req[r], tokens, lineage, asked) /\ req[r].pc = "save"
        /\ req[r] \in Locals
        /\ store \in [Sids -> SessionData \cup {None}]
        /\ asked \in SUBSET (Sids \X Logins) /\ sent \in SUBSET Logins
    BY StepStarts DEF Save, At
  <1>2. UNCHANGED <<tokens, used, alarm, expired, lineage>>
    BY DEF Save, idp
  <1> DEFINE d == [state |-> req[r].state, auth |-> req[r].auth]
  <1>3. PICK s \in Sids :
          /\ IF req[r].sid # None THEN s = req[r].sid ELSE s \in FreshSids
          /\ store' = [store EXCEPT ![s] = d]
          /\ asked' = IF req[r].state = None THEN asked ELSE asked \cup {<<s, req[r].state>>}
    BY DEF Save
  <1>4. /\ req[r].state \in Logins \cup {None} /\ req[r].auth \in Tokens \cup {None}
        /\ req[r].sid \in Sids \cup {None}
    BY <1>1 DEF Locals
  <1>5. asked \subseteq asked' /\ asked' \in SUBSET (Sids \X Logins)
    BY <1>1, <1>3, <1>4
  <1>6. sent' \in SUBSET Logins
    BY <1>1, <1>4 DEF Save
  <1>7. d \in SessionData
    BY <1>4 DEF SessionData
  <1>8. store' \in [Sids -> SessionData \cup {None}]
    BY <1>1, <1>3, <1>7
  <1>9. Kept(tokens, tokens')
    BY <1>2 DEF Kept
  <1>10. StoreKeepsLogins'
    <2>1. d.auth # None => Holds(d.auth, s, tokens', lineage')
      BY <1>1, <1>2, <1>3 DEF Knows, Holds
    <2>2. d.state # None => <<s, d.state>> \in asked'
      BY <1>3
    <2>3. \A x \in Sids : store'[x] = IF x = s THEN d ELSE store[x]
      BY <1>1, <1>3
    <2> HIDE DEF d
    <2> QED BY <1>2, <1>5, <2>1, <2>2, <2>3 DEF IInv, StoreKeepsLogins, Holds
  <1>11. Knows(Idle, tokens', lineage, asked') /\ Idle.pc = "idle"
    BY IdleKnows
  <1>12. req' = [req EXCEPT ![r] = Idle]
    BY DEF Save, Finish
  <1> QED BY <1>2, <1>5, <1>6, <1>8, <1>9, <1>10, <1>11, <1>12, GoesOn, StepStarts

LEMMA DestroyStep ==
    ASSUME IInv, NEW r \in Requests, Destroy(r)
    PROVE  IInv' /\ ServedFresh
  <1>1. /\ req' = [req EXCEPT ![r] = Idle]
        /\ store' = [store EXCEPT ![req[r].sid] = None]
        /\ UNCHANGED <<tokens, used, alarm, expired, sent, asked, lineage>>
    BY DEF Destroy, Finish, idp
  <1>2. /\ store' \in [Sids -> SessionData \cup {None}]
        /\ \A s \in Sids : store'[s] = store[s] \/ store'[s] = None
    BY <1>1, StepStarts
  <1>3. Kept(tokens, tokens')
    BY <1>1 DEF Kept
  <1>4. StoreKeepsLogins'
    BY <1>1, <1>2, <1>3, StoreStays
  <1>5. Knows(Idle, tokens', lineage, asked') /\ Idle.pc = "idle"
    BY IdleKnows
  <1> QED BY <1>1, <1>2, <1>3, <1>4, <1>5, GoesOn, StepStarts

LEMMA ExpireStep ==
    ASSUME IInv, NEW t \in Tokens, ExpireAccess(t)
    PROVE  IInv' /\ ServedFresh
  <1>1. /\ tokens[t] # None /\ expired' = expired \cup {t}
        /\ UNCHANGED <<store, tokens, used, alarm, sent, req, asked, lineage>>
    BY DEF ExpireAccess, idp
  <1>2. TypeOK'
    BY <1>1 DEF IInv, TypeOK
  <1>3. CopiesKnow' /\ OneSessionEach' /\ StoreKeepsLogins' /\ LineageIssued' /\ LineageUnique'
    BY <1>1 DEF IInv, CopiesKnow, Knows, Holds, OneSessionEach, At, StoreKeepsLogins,
                LineageIssued, LineageUnique
  <1>4. ExpiredIssued'
    BY <1>1 DEF IInv, ExpiredIssued
  <1>5. ServedFresh
    BY <1>1 DEF ServedFresh, At
  <1> QED BY <1>2, <1>3, <1>4, <1>5 DEF IInv

-----------------------------------------------------------------------------
(* The theorems *)

LEMMA InitEstablishesIInv ==
    ASSUME Init
    PROVE  IInv
  <1>1. Idle \in Locals
    BY DEF Idle, Locals, Pcs
  <1>2. TypeOK
    BY <1>1 DEF Init, TypeOK
  <1>3. CopiesKnow
    BY IdleKnows DEF Init, CopiesKnow
  <1>4. OneSessionEach
    BY DEF Init, OneSessionEach, At, Idle
  <1>5. StoreKeepsLogins /\ LineageIssued /\ LineageUnique /\ ExpiredIssued
    BY DEF Init, StoreKeepsLogins, LineageIssued, LineageUnique, ExpiredIssued
  <1> QED BY <1>2, <1>3, <1>4, <1>5 DEF IInv

LEMMA EveryStep ==
    ASSUME IInv, [Next]_vars
    PROVE  IInv' /\ ServedFresh
  <1>1. ASSUME NEW r \in Requests, Arrive(r) PROVE IInv' /\ ServedFresh
    BY <1>1, LoginStep, CallbackStep, ProtectStep, LogoutStep DEF Arrive
  <1>2. ASSUME NEW r \in Requests, Exchange(r) \/ Refresh(r) \/ Revoke(r)
        PROVE  IInv' /\ ServedFresh
    BY <1>2, ExchangeStep, RefreshStep, RevokeStep
  <1>3. ASSUME NEW r \in Requests, Regenerate(r) \/ Serve(r) \/ Save(r) \/ Destroy(r)
        PROVE  IInv' /\ ServedFresh
    BY <1>3, RegenerateStep, ServeStep, SaveStep, DestroyStep
  <1>4. ASSUME NEW t \in Tokens, ExpireAccess(t) PROVE IInv' /\ ServedFresh
    BY <1>4, ExpireStep
  <1>5. CASE UNCHANGED vars
    <2>1. UNCHANGED <<store, tokens, used, alarm, expired, sent, req, asked, lineage>>
      BY <1>5 DEF vars, idp
    <2>2. TypeOK'
      BY <2>1 DEF IInv, TypeOK
    <2>3. CopiesKnow' /\ OneSessionEach' /\ StoreKeepsLogins' /\ LineageIssued'
          /\ LineageUnique' /\ ExpiredIssued'
      BY <2>1 DEF IInv, CopiesKnow, Knows, Holds, OneSessionEach, At, StoreKeepsLogins,
                  LineageIssued, LineageUnique, ExpiredIssued
    <2>4. ServedFresh
      BY <2>1 DEF ServedFresh, At
    <2> QED BY <2>2, <2>3, <2>4 DEF IInv
  <1> QED BY <1>1, <1>2, <1>3, <1>4, <1>5 DEF Next

\* The invariant the properties rest on holds in every reachable state.
THEOREM Invariance == Spec => []IInv
  <1>1. Init => IInv
    BY InitEstablishesIInv
  <1>2. IInv /\ [Next]_vars => IInv'
    BY EveryStep
  <1> QED BY <1>1, <1>2, PTL DEF Spec

\* Every variable ranges over what the handlers can put there.
THEOREM TypeCorrectness == Spec => []TypeOK
  <1>1. IInv => TypeOK
    BY DEF IInv
  <1> QED BY <1>1, Invariance, PTL

\* However the requests of a browser overlap and whatever old cookies it sends,
\* a session holds tokens of the one login req.session.regenerate opened it
\* for, and no two sessions share a login.
THEOREM SessionsKeepTheirLogin == Spec => []LoginsStayApart
  <1>1. IInv => LoginsStayApart
    BY DEF IInv, StoreKeepsLogins, LineageUnique, Holds, LoginsStayApart
  <1> QED BY <1>1, Invariance, PTL

\* The callback handler exchanges a code only for the session whose /auth/login
\* sent the state that came back with it.
THEOREM CodesAreSolicited == Spec => []LoginWasSolicited
  <1>1. IInv => LoginWasSolicited
    BY DEF IInv, CopiesKnow, Knows, At, LoginWasSolicited
  <1> QED BY <1>1, Invariance, PTL

\* requireAuth calls next() only with an access token that has not run out: the
\* one of the session, or one just renewed.
THEOREM ServedFreshly == Spec => ServedOnFreshToken
  <1>1. IInv /\ [Next]_vars =>
          [\A r \in Requests : ~At(r, "serve") /\ req'[r].pc = "serve" =>
             req'[r].auth \notin expired]_vars
    BY EveryStep DEF ServedFresh
  <1> QED BY <1>1, Invariance, PTL DEF Spec, ServedOnFreshToken
=============================================================================
