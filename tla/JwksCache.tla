----------------------------- MODULE JwksCache -----------------------------
(***************************************************************************)
(* How a client system comes by the key that verifies an access token: the *)
(* key files of the IdP (scripts/generate-jwt-keys.ts), the process that   *)
(* loads them when it first needs them (src/lib/jwtKeys.ts), GET           *)
(* /.well-known/jwks.json, and the cache in front of it in the SDK         *)
(* (idp-client/src/jwks.ts), shared by all requests of the client system.  *)
(*                                                                         *)
(* A key pair is named by its kid, the fingerprint of its public half.     *)
(* What happens to a request whose token is not accepted, a renewal, is    *)
(* the subject of ClientSession.                                           *)
(***************************************************************************)
EXTENDS Naturals, FiniteSets

CONSTANTS
    Kids,       \* key pairs, each generated once
    Requests,   \* requests of the client system with a token to verify
    None

KeyPairs     == [private : Kids, public : Kids]
AccessTokens == [kid : Kids, key : Kids]
Verdicts     == {"accepted", "unknownKid", "badSignature", "fetchFailed"}

ASSUME NoneAssumption == None \notin Kids \cup AccessTokens \cup Verdicts \cup {"asked"}
ASSUME KidsAssumption == "asked" \notin Kids

VARIABLES
    files,      \* keys/private.pem and keys/public.pem
    idp,        \* the two halves the IdP process has loaded
    tokens,     \* the access tokens signed so far: kid in the header, signing key
    cache,      \* keys of the JwksCache, and whether ttlMs has not passed yet
    fetch,      \* pendingFetch: "asked", then the key in the answer
    req,        \* the token of each request and the verdict on it
    drawn,      \* history: pairs generated so far
    window      \* history: keys published since the fetch and the cache began

vars == <<files, idp, tokens, cache, fetch, req, drawn, window>>

Unloaded == [private |-> None, public |-> None]
Idle     == [token |-> None, verdict |-> None]

Init ==
    /\ \E k \in Kids : files = [private |-> k, public |-> k] /\ drawn = {k}
    /\ idp = Unloaded
    /\ tokens = {}
    /\ cache = [key |-> None, fresh |-> FALSE]
    /\ fetch = None
    /\ req = [r \in Requests |-> Idle]
    /\ window = [fetch |-> {}, cache |-> {}]

-----------------------------------------------------------------------------

\* Mutant of Load: the half that is missing is never read.
LoadNever(half, file) == half

\* A half is read from its file when it is first used, then kept.
Load(half, file) == IF half = None THEN file ELSE half

\* The key GET /.well-known/jwks.json answers with.
Published == Load(idp.public, files.public)

\* The windows of the fetch under way and of the cache, begun or continued.
Watch(f, c) == window' = [fetch |-> IF fetch' = None THEN {} ELSE f \cup {Published'},
                          cache |-> c \cup {Published'}]
WatchOn     == Watch(window.fetch, window.cache)

Waiting(r) == req[r].token # None /\ req[r].verdict = None

-----------------------------------------------------------------------------
(* The IdP *)

\* generate:keys --force writes a new pair over the old, one file after the
\* other, while the IdP is running or not.
WritePrivate(k) ==
    /\ k \notin drawn
    /\ drawn' = drawn \cup {k}
    /\ files' = [files EXCEPT !.private = k]
    /\ UNCHANGED <<idp, tokens, cache, fetch, req>>
    /\ WatchOn

WritePublic ==
    /\ files.public # files.private
    /\ files' = [files EXCEPT !.public = files.private]
    /\ UNCHANGED <<idp, tokens, cache, fetch, req, drawn>>
    /\ WatchOn

Restart ==
    /\ idp # Unloaded
    /\ idp' = Unloaded
    /\ UNCHANGED <<files, tokens, cache, fetch, req, drawn>>
    /\ WatchOn

\* signAccessToken loads what has not been loaded yet: the private key to sign
\* with, the public key to derive the kid from.
Sign ==
    /\ idp' = [private |-> Load(idp.private, files.private), public |-> Published]
    /\ tokens' = tokens \cup {[kid |-> idp'.public, key |-> idp'.private]}
    /\ UNCHANGED <<files, cache, fetch, req, drawn>>
    /\ WatchOn

\* Asked for its JWKS, by this client system or another, the IdP loads the
\* public key alone.
GetJwks ==
    /\ idp' = [idp EXCEPT !.public = Published]
    /\ fetch' \in {fetch, IF fetch = "asked" THEN Published ELSE fetch}
    /\ UNCHANGED <<files, tokens, cache, req, drawn>>
    /\ WatchOn

-----------------------------------------------------------------------------
(* The client system *)

\* verifyAccessToken, once getKey has found a key for the kid, or not.
Verdict(t, key) == CASE key # t.kid               -> "unknownKid"
                     [] key = t.kid /\ key # t.key -> "badSignature"
                     [] key = t.kid /\ key = t.key -> "accepted"

Judged(t, key) == [token |-> t, verdict |-> Verdict(t, key)]

\* Mutant of GetKey: a cached key is good for ever.
GetKeyAnyAge(r, t) ==
    /\ req[r] = Idle /\ t \in tokens
    /\ UNCHANGED <<files, idp, tokens, cache, drawn>>
    /\ IF cache.key = t.kid
       THEN req' = [req EXCEPT ![r] = Judged(t, cache.key)] /\ UNCHANGED fetch /\ WatchOn
       ELSE /\ req' = [req EXCEPT ![r] = [token |-> t, verdict |-> None]]
            /\ IF fetch = None
               THEN fetch' = "asked" /\ Watch({}, window.cache)
               ELSE UNCHANGED fetch /\ WatchOn

\* Mutant of GetKey: a cache that is fresh is not refreshed for a new kid.
GetKeyNoRefetch(r, t) ==
    /\ req[r] = Idle /\ t \in tokens
    /\ UNCHANGED <<files, idp, tokens, cache, drawn>>
    /\ IF cache.fresh
       THEN req' = [req EXCEPT ![r] = Judged(t, cache.key)] /\ UNCHANGED fetch /\ WatchOn
       ELSE /\ req' = [req EXCEPT ![r] = [token |-> t, verdict |-> None]]
            /\ IF fetch = None
               THEN fetch' = "asked" /\ Watch({}, window.cache)
               ELSE UNCHANGED fetch /\ WatchOn

\* getKey: a fresh key of that kid is used at once; otherwise the request waits
\* for the fetch under way, or starts one.
GetKey(r, t) ==
    /\ req[r] = Idle /\ t \in tokens
    /\ UNCHANGED <<files, idp, tokens, cache, drawn>>
    /\ IF cache.key = t.kid /\ cache.fresh
       THEN req' = [req EXCEPT ![r] = Judged(t, cache.key)] /\ UNCHANGED fetch /\ WatchOn
       ELSE /\ req' = [req EXCEPT ![r] = [token |-> t, verdict |-> None]]
            /\ IF fetch = None
               THEN fetch' = "asked" /\ Watch({}, window.cache)
               ELSE UNCHANGED fetch /\ WatchOn

\* Mutant of FetchDone: who does not find its kid goes on waiting.
FetchDoneForSome ==
    /\ fetch \in Kids
    /\ cache' = [key |-> fetch, fresh |-> TRUE]
    /\ fetch' = None
    /\ req' = [r \in Requests |-> IF Waiting(r) /\ req[r].token.kid = fetch
                                  THEN Judged(req[r].token, fetch) ELSE req[r]]
    /\ UNCHANGED <<files, idp, tokens, drawn>>
    /\ Watch({}, window.fetch)

\* The answer arrives: keys and lastFetchedAt are set, pendingFetch is cleared,
\* and everyone who waited looks for its kid, before anything else can run.
FetchDone ==
    /\ fetch \in Kids
    /\ cache' = [key |-> fetch, fresh |-> TRUE]
    /\ fetch' = None
    /\ req' = [r \in Requests |-> IF Waiting(r) THEN Judged(req[r].token, fetch) ELSE req[r]]
    /\ UNCHANGED <<files, idp, tokens, drawn>>
    /\ Watch({}, window.fetch)

\* The call fails, or its answer is an error or gets lost: all who waited fail.
FetchFails ==
    /\ fetch # None
    /\ fetch' = None
    /\ req' = [r \in Requests |->
                 IF Waiting(r) THEN [req[r] EXCEPT !.verdict = "fetchFailed"] ELSE req[r]]
    /\ UNCHANGED <<files, idp, tokens, cache, drawn>>
    /\ WatchOn

\* The request goes on, with next() or with a renewal.
Leave(r) ==
    /\ req[r].verdict # None
    /\ req' = [req EXCEPT ![r] = Idle]
    /\ UNCHANGED <<files, idp, tokens, cache, fetch, drawn>>
    /\ WatchOn

\* ttlMs have passed since lastFetchedAt.
Age ==
    /\ cache.fresh
    /\ cache' = [cache EXCEPT !.fresh = FALSE]
    /\ UNCHANGED <<files, idp, tokens, fetch, req, drawn>>
    /\ Watch(window.fetch, {})

-----------------------------------------------------------------------------

Rotate == WritePublic \/ \E k \in Kids : WritePrivate(k)

Next ==
    \/ Rotate \/ Restart \/ Sign \/ GetJwks
    \/ \E r \in Requests : Leave(r) \/ \E t \in AccessTokens : GetKey(r, t)
    \/ FetchDone \/ FetchFails \/ Age

Spec == Init /\ [][Next]_vars

\* A fetch that was started ends: it is answered, or Node's timeouts end it.
FairSpec == Spec /\ WF_vars(FetchDone \/ FetchFails)

-----------------------------------------------------------------------------
(* Requirements *)

\* Every variable ranges over what the IdP and the SDK can put there.
TypeOK ==
    /\ files \in KeyPairs
    /\ idp \in [private : Kids \cup {None}, public : Kids \cup {None}]
    /\ tokens \in SUBSET AccessTokens
    /\ cache \in [key : Kids \cup {None}, fresh : BOOLEAN]
    /\ fetch \in Kids \cup {"asked", None}
    /\ req \in [Requests -> [token : AccessTokens \cup {None},
                             verdict : Verdicts \cup {None}]]
    /\ drawn \in SUBSET Kids
    /\ window \in [fetch : SUBSET Kids, cache : SUBSET Kids]

\* A key the IdP has withdrawn is believed no longer than one ttl and one
\* fetch: whoever accepts a token has a key that was published since the cache
\* last ran out or since the fetch that filled it was sent, whichever is later.
KeysAgeOut ==
    [][\A r \in Requests :
         req'[r] # req[r] /\ req'[r].verdict = "accepted" =>
           req'[r].token.kid \in window'.cache]_vars

\* A kid is reported as unknown only after a fetch during which the IdP
\* published another key: a rotation reaches the client system by itself.
UnknownOnlyIfRotated ==
    [][\A r \in Requests :
         req'[r] # req[r] /\ req'[r].verdict = "unknownKid" =>
           /\ Waiting(r)
           /\ window.fetch # {req[r].token.kid}]_vars

\* Requests that wait for a common fetch are all released when it ends.
NobodyWaitsForEver == \A r \in Requests : Waiting(r) ~> ~Waiting(r)

\* The kid in a token names the key the token was signed with; by deriving it
\* from the key it cannot get out of step, say jwtKeys.ts and docs/SEGURANCA.md.
KidNamesSigningKey == \A t \in tokens : t.kid = t.key
=============================================================================
