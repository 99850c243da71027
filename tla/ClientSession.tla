--------------------------- MODULE ClientSession ---------------------------
(***************************************************************************)
(* The SDK a client system mounts (idp-client): GET /auth/login,           *)
(* /auth/callback and /auth/logout and the requireAuth middleware, serving *)
(* the tabs of one browser.                                                *)
(*                                                                         *)
(* The SDK keeps everything in req.session.  express-session, configured   *)
(* as docs/CLIENT_SDK.md says, hands each request a copy of its session    *)
(* and writes a changed copy back as a whole when the response ends, so a  *)
(* handler works on what the session held when the request came in.  The   *)
(* handlers wait for nothing but the IdP and the session store; the calls  *)
(* to the IdP may fail before or after it has acted.                       *)
(*                                                                         *)
(* The IdP answers one call at a time here; what happens when its own      *)
(* handlers overlap is the subject of OAuthTokens.                         *)
(***************************************************************************)
EXTENDS Naturals, FiniteSets

CONSTANTS
    Sids,       \* session ids, each drawn once
    Logins,     \* login attempts; one names its state and the code it ends in
    Tokens,     \* refresh tokens, each with the access token issued with it
    Requests,
    None

Pcs == {"idle", "exchange", "regenerate", "refresh", "serve", "revoke",
        "destroy", "save"}

SessionData == [state : Logins \cup {None}, auth : Tokens \cup {None}]
TokenRows   == [family : Tokens, revoked : BOOLEAN]
Locals      == [pc : Pcs, sid : Sids \cup {None}, state : Logins \cup {None},
                auth : Tokens \cup {None}, login : Logins \cup {None},
                dirty : BOOLEAN]

ASSUME NoneAssumption ==
    None \notin Sids \cup Logins \cup Tokens \cup SessionData \cup TokenRows

VARIABLES
    store,      \* the session store of the client system
    tokens,     \* the IdP's refresh tokens for this user and system
    used,       \* the IdP: codes already exchanged
    expired,    \* tokens whose access token has run out
    sent,       \* logins whose redirect to the IdP has reached the browser
    req,        \* the copy of the session each request works on
    asked,      \* history: <<session, login it started>>
    lineage,    \* history: the family a session was created for
    alarm       \* history: the IdP has seen a code or token twice

idp  == <<tokens, used, alarm>>
vars == <<store, idp, expired, sent, req, asked, lineage>>

Idle == [pc |-> "idle", sid |-> None, state |-> None, auth |-> None,
         login |-> None, dirty |-> FALSE]

Init ==
    /\ store = [s \in Sids |-> None]
    /\ tokens = [t \in Tokens |-> None]
    /\ used = {}
    /\ expired = {}
    /\ sent = {}
    /\ req = [r \in Requests |-> Idle]
    /\ asked = {}
    /\ lineage = [s \in Sids |-> None]
    /\ alarm = FALSE

-----------------------------------------------------------------------------

At(r, pc) == req[r].pc = pc
Finish(r) == req' = [req EXCEPT ![r] = Idle]

\* A request that changed its copy saves it, any other ends.
Respond(q) == IF q.dirty THEN [q EXCEPT !.pc = "save"] ELSE Idle

FreshSids == {s \in Sids : /\ store[s] = None /\ lineage[s] = None
                           /\ \A l \in Logins : <<s, l>> \notin asked
                           /\ \A r \in Requests : req[r].sid # s}
FreshTokens == {t \in Tokens : tokens[t] = None}

\* Bound: a request that may draw an id is let in while one is left for it.
IdsLeft ==
    LET busy == Cardinality({r \in Requests : ~At(r, "idle")}) IN
      busy < Cardinality(FreshSids) /\ busy < Cardinality(FreshTokens)

\* The copy express-session gives to a request with cookie sid.
Opened(sid) ==
    IF sid # None /\ store[sid] # None
    THEN [Idle EXCEPT !.sid = sid, !.state = store[sid].state, !.auth = store[sid].auth]
    ELSE Idle

Receive(r, q) ==
    /\ At(r, "idle")
    /\ req' = [req EXCEPT ![r] = q]
    /\ UNCHANGED <<store, idp, expired, sent, asked, lineage>>

-----------------------------------------------------------------------------
(* What the SDK does when a request comes in *)

\* GET /auth/login: a new state replaces the one of an earlier attempt.
Login(r, sid, l) ==
    /\ IdsLeft
    /\ \A q \in Requests : req[q].state # l
    /\ \A s \in Sids : <<s, l>> \notin asked
    /\ Receive(r, [Opened(sid) EXCEPT !.pc = "save", !.state = l, !.login = l,
                                      !.dirty = TRUE])

\* Mutant of Callback: any state will do for a session that expects one.
CallbackAnyState(r, sid, l) ==
    /\ IdsLeft
    /\ l \in sent
    /\ LET q == [Opened(sid) EXCEPT !.state = None,
                                    !.dirty = Opened(sid).state # None] IN
         IF Opened(sid).state # None
         THEN Receive(r, [q EXCEPT !.pc = "exchange", !.login = l])
         ELSE Receive(r, Respond(q))

\* GET /auth/callback: the expected state is forgotten whether it matches or not.
Callback(r, sid, l) ==
    /\ IdsLeft
    /\ l \in sent
    /\ LET q == [Opened(sid) EXCEPT !.state = None,
                                    !.dirty = Opened(sid).state # None] IN
         IF Opened(sid).state = l
         THEN Receive(r, [q EXCEPT !.pc = "exchange", !.login = l])
         ELSE Receive(r, Respond(q))

\* requireAuth: no tokens means a redirect to the login page; a token that has
\* not run out is verified against the cached keys, which may not hold the one
\* it was signed with; failing that, it is renewed.
Protect(r, sid) ==
    LET q == Opened(sid) IN
      \/ q.auth = None /\ Receive(r, Idle)
      \/ q.auth # None /\ q.auth \notin expired /\ Receive(r, [q EXCEPT !.pc = "serve"])
      \/ q.auth # None /\ IdsLeft /\ Receive(r, [q EXCEPT !.pc = "refresh"])

\* GET /auth/logout.
Logout(r, sid) ==
    /\ Opened(sid).sid # None
    /\ Receive(r, [Opened(sid) EXCEPT
                     !.pc = IF Opened(sid).auth = None THEN "destroy" ELSE "revoke"])

-----------------------------------------------------------------------------
(* The calls to the IdP *)

\* Mutant of Issue: the row is inserted without its familyId.
IssueNoFamily(t, family) == [tokens EXCEPT ![t] = [family |-> None, revoked |-> FALSE]]

\* The IdP inserts a refresh token into the family it belongs to.
Issue(t, family) == [tokens EXCEPT ![t] = [family |-> family, revoked |-> FALSE]]

\* The UPDATEs of revoked on the rows a condition selects.
Issued == {t \in Tokens : tokens[t] # None}
WithRevoked(dead) ==
    [t \in Tokens |-> IF t \in dead \cap Issued
                      THEN [tokens[t] EXCEPT !.revoked = TRUE] ELSE tokens[t]]

\* A failed call leaves the copy as it is and answers with an error page.
ExchangeFails(r) == req' = [req EXCEPT ![r] = Respond(req[r])]

\* POST /token with the code: accepted once; a second time is an incident.
Exchange(r) ==
    /\ At(r, "exchange")
    /\ \/ ExchangeFails(r) /\ UNCHANGED idp
       \/ /\ req[r].login \in used
          /\ tokens' = WithRevoked(Tokens)
          /\ alarm' = TRUE
          /\ ExchangeFails(r)
          /\ UNCHANGED used
       \/ /\ req[r].login \notin used
          /\ used' = used \cup {req[r].login}
          /\ \E t \in FreshTokens :
               /\ tokens' = Issue(t, t)
               /\ \/ req' = [req EXCEPT ![r].pc = "regenerate", ![r].auth = t]
                  \/ ExchangeFails(r)
          /\ UNCHANGED alarm
    /\ UNCHANGED <<store, expired, sent, asked, lineage>>

\* Mutant of RenewalFails: the request goes on with the token it had.
RenewalFailsOpen(r) ==
    req' = [req EXCEPT ![r].pc = "serve"]

\* The catch of requireAuth: forget the tokens, go to /auth/login.
RenewalFails(r) ==
    req' = [req EXCEPT ![r].pc = "save", ![r].auth = None, ![r].dirty = TRUE]

\* POST /token with the refresh token: rotated, refused because the user lost
\* the access (after the old token was revoked), or seen again.  The new
\* access token is verified; a key still unknown counts as a failure.
Refresh(r) ==
    /\ At(r, "refresh")
    /\ LET old == req[r].auth IN
         \/ RenewalFails(r) /\ UNCHANGED idp
         \/ /\ tokens[old].revoked
            /\ tokens' = WithRevoked({t \in Issued : tokens[t].family = tokens[old].family})
            /\ alarm' = TRUE
            /\ RenewalFails(r)
            /\ UNCHANGED used
         \/ /\ ~tokens[old].revoked
            /\ tokens' = WithRevoked({old})
            /\ RenewalFails(r)
            /\ UNCHANGED <<used, alarm>>
         \/ /\ ~tokens[old].revoked
            /\ \E t \in FreshTokens :
                 /\ tokens' = [Issue(t, tokens[old].family) EXCEPT ![old].revoked = TRUE]
                 /\ \/ req' = [req EXCEPT ![r].pc = "serve", ![r].auth = t, ![r].dirty = TRUE]
                    \/ RenewalFails(r)
            /\ UNCHANGED <<used, alarm>>
    /\ UNCHANGED <<store, expired, sent, asked, lineage>>

\* POST /revoke, best effort.
Revoke(r) ==
    /\ At(r, "revoke")
    /\ tokens' \in {tokens, WithRevoked({req[r].auth})}
    /\ req' = [req EXCEPT ![r].pc = "destroy"]
    /\ UNCHANGED <<store, used, alarm, expired, sent, asked, lineage>>

-----------------------------------------------------------------------------
(* The session store *)

\* Mutant of Regenerate: the tokens go into the session that was there.
RegenerateNot(r) ==
    /\ At(r, "regenerate")
    /\ \E s \in Sids :
         /\ IF req[r].sid # None THEN s = req[r].sid ELSE s \in FreshSids
         /\ lineage' = [lineage EXCEPT ![s] = IF @ = None THEN req[r].auth ELSE @]
         /\ req' = [req EXCEPT ![r].pc = "save", ![r].sid = s, ![r].dirty = TRUE]
    /\ UNCHANGED <<store, idp, expired, sent, asked>>

\* req.session.regenerate, then the tokens go into the new session.
Regenerate(r) ==
    /\ At(r, "regenerate")
    /\ store' = [s \in Sids |-> IF s = req[r].sid THEN None ELSE store[s]]
    /\ \E s \in FreshSids :
         /\ lineage' = [lineage EXCEPT ![s] = req[r].auth]
         /\ req' = [req EXCEPT ![r].pc = "save", ![r].sid = s, ![r].dirty = TRUE]
    /\ UNCHANGED <<idp, expired, sent, asked>>

\* The application's own handler, after next().
Serve(r) ==
    /\ At(r, "serve")
    /\ req' = [req EXCEPT ![r] = Respond(req[r])]
    /\ UNCHANGED <<store, idp, expired, sent, asked, lineage>>

\* store.set writes the whole copy, whatever the store holds by now; then the
\* response goes out.
Save(r) ==
    /\ At(r, "save")
    /\ \E s \in Sids :
         /\ IF req[r].sid # None THEN s = req[r].sid ELSE s \in FreshSids
         /\ store' = [store EXCEPT ![s] = [state |-> req[r].state, auth |-> req[r].auth]]
         /\ asked' = IF req[r].state = None THEN asked ELSE asked \cup {<<s, req[r].state>>}
    /\ sent' = IF req[r].state = None THEN sent ELSE sent \cup {req[r].state}
    /\ Finish(r)
    /\ UNCHANGED <<idp, expired, lineage>>

Destroy(r) ==
    /\ At(r, "destroy")
    /\ store' = [store EXCEPT ![req[r].sid] = None]
    /\ Finish(r)
    /\ UNCHANGED <<idp, expired, sent, asked, lineage>>

-----------------------------------------------------------------------------

ExpireAccess(t) ==
    /\ tokens[t] # None /\ t \notin expired
    /\ expired' = expired \cup {t}
    /\ UNCHANGED <<store, idp, sent, req, asked, lineage>>

\* A tab sends the cookie of any session it has seen, or none.
Arrive(r) ==
    \E sid \in Sids \cup {None} :
      \/ \E l \in Logins : Login(r, sid, l) \/ Callback(r, sid, l)
      \/ Protect(r, sid)
      \/ Logout(r, sid)

Next ==
    \/ \E r \in Requests :
         \/ Arrive(r)
         \/ Exchange(r) \/ Refresh(r) \/ Revoke(r)
         \/ Regenerate(r) \/ Serve(r) \/ Save(r) \/ Destroy(r)
    \/ \E t \in Tokens : ExpireAccess(t)

Spec == Init /\ [][Next]_vars

-----------------------------------------------------------------------------
(* Requirements *)

\* Every variable ranges over what the handlers can put there.
TypeOK ==
    /\ store \in [Sids -> SessionData \cup {None}]
    /\ tokens \in [Tokens -> TokenRows \cup {None}]
    /\ used \in SUBSET Logins /\ sent \in SUBSET Logins
    /\ expired \in SUBSET Tokens
    /\ req \in [Requests -> Locals]
    /\ asked \in SUBSET (Sids \X Logins)
    /\ lineage \in [Sids -> Tokens \cup {None}]
    /\ alarm \in BOOLEAN

\* A session holds tokens of the login it was created for and of no other, and
\* no two sessions share a login, though copies of a session are written back
\* in any order and old cookies stay in use.
LoginsStayApart ==
    /\ \A s \in Sids : store[s] # None /\ store[s].auth # None =>
         tokens[store[s].auth].family = lineage[s]
    /\ \A s1, s2 \in Sids : lineage[s1] = lineage[s2] /\ lineage[s1] # None => s1 = s2

\* A code is exchanged only for the session that set out to get it: the state
\* in the callback is one this very session has sent to the IdP.
LoginWasSolicited ==
    \A r \in Requests : At(r, "exchange") => <<req[r].sid, req[r].login>> \in asked

\* The application sees a request only on the strength of an access token that
\* had not run out when it was let through, so a user whose tokens the IdP has
\* revoked is locked out once the last one expires.
ServedOnFreshToken ==
    [][\A r \in Requests : ~At(r, "serve") /\ req'[r].pc = "serve" =>
         req'[r].auth \notin expired]_vars

\* The IdP takes a code or token seen twice for a sign of compromise
\* (oauth.service.ts).  As long as only the SDK holds them, there is none.
NoFalseAlarm == ~alarm
=============================================================================
