--------------------------- MODULE JwksCacheProofs ---------------------------
(***************************************************************************)
(* What the key cache of the SDK promises, for every number of key pairs   *)
(* and of requests that share the cache.                                   *)
(*                                                                         *)
(* The two action properties compare a verdict with the keys published     *)
(* while the cache was filled or the fetch was under way, so the invariant *)
(* says how these windows relate to what the SDK holds: an answer that is  *)
(* on its way is a key of the fetch's window, a fresh cached key one of    *)
(* the cache's window, and nobody waits unless a fetch is under way.       *)
(***************************************************************************)
EXTENDS JwksCache, TLAPS

Halves  == [private : Kids \cup {None}, public : Kids \cup {None}]
Windows == [fetch : SUBSET Kids, cache : SUBSET Kids]
Reqs    == [token : AccessTokens \cup {None}, verdict : Verdicts \cup {None}]

AnswerWasPublished == fetch \in Kids => fetch \in window.fetch
CacheWasPublished  == cache.fresh => cache.key \in Kids /\ cache.key \in window.cache
WaitersHaveAFetch  == \A r \in Requests : Waiting(r) => fetch # None

IInv == TypeOK /\ AnswerWasPublished /\ CacheWasPublished /\ WaitersHaveAFetch

-----------------------------------------------------------------------------
(* The helpers *)

\* What is loaded of a half that is there, or missing, is a key.
LEMMA LoadIsKid ==
    ASSUME NEW half \in Kids \cup {None}, NEW file \in Kids
    PROVE  Load(half, file) \in Kids
  BY DEF Load

\* A half that is loaded stays what it is, whatever the file says.
LEMMA LoadKeeps ==
    ASSUME NEW half \in Kids, NEW file
    PROVE  Load(half, file) = half
  BY NoneAssumption DEF Load

\* The IdP always has a key to publish.
LEMMA PublishedIsKid ==
    ASSUME files \in KeyPairs, idp \in Halves
    PROVE  Published \in Kids
  BY LoadIsKid DEF Published, KeyPairs, Halves

\* A window grows by the key now published; the fetch's is empty without one.
LEMMA WatchGrows ==
    ASSUME files' \in KeyPairs, idp' \in Halves,
           NEW f \in SUBSET Kids, NEW c \in SUBSET Kids, Watch(f, c)
    PROVE  /\ window' \in Windows
           /\ window'.cache = c \cup {Published'}
           /\ fetch' # None => window'.fetch = f \cup {Published'}
  <1>1. Published' \in Kids
    <2>1. files'.public \in Kids /\ idp'.public \in Kids \cup {None}
      BY DEF KeyPairs, Halves
    <2>2. Published' = Load(idp'.public, files'.public)
      BY DEF Published, Load
    <2> QED BY <2>1, <2>2, LoadIsKid
  <1> QED BY <1>1 DEF Watch, Windows

\* A verdict is one of the four that can be returned; it accepts a token only
\* with the key its kid names, and finds it unknown only with another.
LEMMA JudgedByItsKey ==
    ASSUME NEW t \in AccessTokens, NEW key \in Kids
    PROVE  /\ Judged(t, key) \in Reqs
           /\ Judged(t, key).token = t
           /\ Judged(t, key).verdict # None
           /\ Judged(t, key).verdict = "accepted" => key = t.kid
           /\ Judged(t, key).verdict = "unknownKid" => key # t.kid
  <1>1. Verdict(t, key) \in Verdicts
    BY DEF Verdict, Verdicts
  <1>2. Verdict(t, key) # None
    BY <1>1, NoneAssumption
  <1>3. Verdict(t, key) = "accepted" => key = t.kid
    BY DEF Verdict
  <1>4. Verdict(t, key) = "unknownKid" => key # t.kid
    BY DEF Verdict
  <1> QED BY <1>1, <1>2, <1>3, <1>4 DEF Judged, Reqs

-----------------------------------------------------------------------------
(* The steps *)

\* What the IdP does leaves the promises of the SDK's state as they are, and a
\* key it answers with is in the window of the fetch it answers.
LEMMA IdpGoesOn ==
    ASSUME IInv, WatchOn, UNCHANGED <<cache, req>>,
           files' \in KeyPairs, idp' \in Halves,
           tokens' \in SUBSET AccessTokens, drawn' \in SUBSET Kids,
           fetch' = fetch \/ (fetch = "asked" /\ fetch' = Published')
    PROVE  IInv'
  <1> USE DEF IInv
  <1>1. window.fetch \in SUBSET Kids /\ window.cache \in SUBSET Kids
    BY DEF TypeOK
  <1>2. /\ window' \in Windows
        /\ window'.cache = window.cache \cup {Published'}
        /\ fetch' # None => window'.fetch = window.fetch \cup {Published'}
    BY <1>1, WatchGrows DEF WatchOn
  <1>3. Published' \in Kids
    BY <1>1, <1>2 DEF Windows
  <1>4. fetch' \in Kids \cup {"asked", None}
    BY <1>3 DEF TypeOK
  <1>5. TypeOK'
    BY <1>2, <1>4 DEF TypeOK, Halves, Windows
  <1>6. AnswerWasPublished'
    BY <1>2, NoneAssumption, KidsAssumption DEF AnswerWasPublished
  <1>7. CacheWasPublished'
    BY <1>2 DEF CacheWasPublished
  <1>8. WaitersHaveAFetch'
    BY <1>3, NoneAssumption DEF WaitersHaveAFetch, Waiting
  <1> QED BY <1>5, <1>6, <1>7, <1>8

LEMMA RotateStep ==
    ASSUME IInv, Rotate
    PROVE  IInv'
  <1>1. /\ files \in KeyPairs /\ idp \in Halves /\ drawn \in SUBSET Kids
        /\ tokens \in SUBSET AccessTokens
    BY DEF IInv, TypeOK, Halves
  <1>2. CASE WritePublic
    <2>1. files' \in KeyPairs
      BY <1>1, <1>2 DEF WritePublic, KeyPairs
    <2> QED BY <1>1, <1>2, <2>1, IdpGoesOn DEF WritePublic
  <1>3. ASSUME NEW k \in Kids, WritePrivate(k) PROVE IInv'
    <2>1. files' \in KeyPairs /\ drawn' \in SUBSET Kids
      BY <1>1, <1>3 DEF WritePrivate, KeyPairs
    <2> QED BY <1>1, <1>3, <2>1, IdpGoesOn DEF WritePrivate
  <1> QED BY <1>2, <1>3 DEF Rotate

LEMMA RestartStep ==
    ASSUME IInv, Restart
    PROVE  IInv'
  <1>1. /\ files \in KeyPairs /\ drawn \in SUBSET Kids
        /\ tokens \in SUBSET AccessTokens
    BY DEF IInv, TypeOK
  <1>2. idp' \in Halves
    BY DEF Restart, Unloaded, Halves
  <1> QED BY <1>1, <1>2, IdpGoesOn DEF Restart

LEMMA SignStep ==
    ASSUME IInv, Sign
    PROVE  IInv'
  <1>1. /\ files \in KeyPairs /\ idp \in Halves /\ drawn \in SUBSET Kids
        /\ tokens \in SUBSET AccessTokens
    BY DEF IInv, TypeOK, Halves
  <1>2. Published \in Kids
    BY <1>1, PublishedIsKid
  <1>3. Load(idp.private, files.private) \in Kids
    BY <1>1, LoadIsKid DEF Halves, KeyPairs
  <1>4. idp' = [private |-> Load(idp.private, files.private), public |-> Published]
    BY DEF Sign
  <1>5. idp' \in Halves /\ idp'.public \in Kids /\ idp'.private \in Kids
    BY <1>2, <1>3, <1>4 DEF Halves
  <1>6. tokens' \in SUBSET AccessTokens
    BY <1>1, <1>5 DEF Sign, AccessTokens
  <1> QED BY <1>1, <1>5, <1>6, IdpGoesOn DEF Sign

LEMMA GetJwksStep ==
    ASSUME IInv, GetJwks
    PROVE  IInv'
  <1>1. /\ files \in KeyPairs /\ idp \in Halves /\ drawn \in SUBSET Kids
        /\ tokens \in SUBSET AccessTokens
    BY DEF IInv, TypeOK, Halves
  <1>2. Published \in Kids
    BY <1>1, PublishedIsKid
  <1>3. idp' = [idp EXCEPT !.public = Published]
    BY DEF GetJwks
  <1>4. idp' \in Halves /\ idp'.public = Published
    BY <1>1, <1>2, <1>3 DEF Halves
  <1>5. Published' = Load(idp'.public, files'.public)
    BY DEF Published, Load
  <1>6. Published' = Published
    BY <1>2, <1>4, <1>5, LoadKeeps
  <1>7. fetch' = fetch \/ (fetch = "asked" /\ fetch' = Published')
    BY <1>6 DEF GetJwks
  <1> QED BY <1>1, <1>4, <1>7, IdpGoesOn DEF GetJwks

\* What is typed of the SDK and unchanged of the IdP makes a typed state.
LEMMA SdkTypes ==
    ASSUME IInv, UNCHANGED <<files, idp, tokens, drawn>>,
           cache' \in [key : Kids \cup {None}, fresh : BOOLEAN],
           fetch' \in Kids \cup {"asked", None},
           req' \in [Requests -> Reqs],
           window' \in Windows
    PROVE  TypeOK'
  BY DEF IInv, TypeOK, Reqs, Windows

\* The IdP's state and the windows, as the steps of the SDK find them.
LEMMA SdkStarts ==
    ASSUME IInv, UNCHANGED <<files, idp>>
    PROVE  /\ files' \in KeyPairs /\ idp' \in Halves
           /\ window.fetch \in SUBSET Kids /\ window.cache \in SUBSET Kids
           /\ req \in [Requests -> Reqs]
           /\ cache \in [key : Kids \cup {None}, fresh : BOOLEAN]
           /\ fetch \in Kids \cup {"asked", None}
  BY DEF IInv, TypeOK, Halves, Reqs

LEMMA GetKeyStep ==
    ASSUME IInv, NEW r \in Requests, NEW t \in AccessTokens, GetKey(r, t)
    PROVE  /\ IInv'
           /\ \A q \in Requests : req'[q] # req[q] =>
                /\ req'[q].verdict = "accepted" => req'[q].token.kid \in window'.cache
                /\ req'[q].verdict # "unknownKid"
  <1>1. /\ files' \in KeyPairs /\ idp' \in Halves
        /\ window.fetch \in SUBSET Kids /\ window.cache \in SUBSET Kids
        /\ req \in [Requests -> Reqs]
        /\ cache \in [key : Kids \cup {None}, fresh : BOOLEAN]
        /\ fetch \in Kids \cup {"asked", None}
    BY SdkStarts DEF GetKey
  <1>2. UNCHANGED <<files, idp, tokens, cache, drawn>>
    BY DEF GetKey
  <1>3. AnswerWasPublished /\ CacheWasPublished /\ WaitersHaveAFetch
    BY DEF IInv
  <1>4. CASE cache.key = t.kid /\ cache.fresh
    <2>1. /\ req' = [req EXCEPT ![r] = Judged(t, cache.key)]
          /\ fetch' = fetch /\ WatchOn
      BY <1>4 DEF GetKey
    <2>2. cache.key \in Kids /\ cache.key \in window.cache
      BY <1>3, <1>4 DEF CacheWasPublished
    <2>3. /\ Judged(t, cache.key) \in Reqs
          /\ Judged(t, cache.key).token = t
          /\ Judged(t, cache.key).verdict # None
          /\ Judged(t, cache.key).verdict # "unknownKid"
      BY <1>4, <2>2, JudgedByItsKey
    <2>4. /\ window' \in Windows
          /\ window'.cache = window.cache \cup {Published'}
          /\ fetch' # None => window'.fetch = window.fetch \cup {Published'}
      BY <1>1, <2>1, WatchGrows DEF WatchOn
    <2>5. req' \in [Requests -> Reqs]
      BY <1>1, <2>1, <2>3
    <2>6. TypeOK'
      BY <1>1, <1>2, <2>1, <2>4, <2>5, SdkTypes
    <2>7. AnswerWasPublished' /\ CacheWasPublished'
      BY <1>2, <1>3, <2>1, <2>4, NoneAssumption DEF AnswerWasPublished, CacheWasPublished
    <2>8. WaitersHaveAFetch'
      BY <1>1, <1>3, <2>1, <2>3 DEF WaitersHaveAFetch, Waiting
    <2>9. \A q \in Requests : req'[q] # req[q] => req'[q] = Judged(t, cache.key)
      BY <1>1, <2>1
    <2>10. t.kid \in window'.cache
      BY <1>4, <2>2, <2>4
    <2> QED BY <2>3, <2>6, <2>7, <2>8, <2>9, <2>10 DEF IInv
  <1>5. CASE ~(cache.key = t.kid /\ cache.fresh)
    <2> DEFINE w == [token |-> t, verdict |-> None]
    <2>1. req' = [req EXCEPT ![r] = w]
      BY <1>5 DEF GetKey
    <2>2. \/ fetch = None /\ fetch' = "asked" /\ Watch({}, window.cache)
          \/ fetch # None /\ fetch' = fetch /\ Watch(window.fetch, window.cache)
      BY <1>5 DEF GetKey, WatchOn
    <2>3. /\ window' \in Windows
          /\ window'.cache = window.cache \cup {Published'}
          /\ fetch' \in Kids => window'.fetch = window.fetch \cup {Published'}
      <3>1. {} \in SUBSET Kids
        OBVIOUS
      <3>2. CASE fetch = None /\ fetch' = "asked" /\ Watch({}, window.cache)
        BY <1>1, <3>1, <3>2, WatchGrows, KidsAssumption
      <3>3. CASE fetch # None /\ fetch' = fetch /\ Watch(window.fetch, window.cache)
        BY <1>1, <3>3, WatchGrows, NoneAssumption
      <3> QED BY <2>2, <3>2, <3>3
    <2>4. fetch' \in Kids \cup {"asked", None} /\ fetch' # None
      BY <1>1, <2>2, NoneAssumption
    <2>5. w \in Reqs
      BY DEF Reqs
    <2>6. req' \in [Requests -> Reqs]
      BY <1>1, <2>1, <2>5
    <2>7. TypeOK'
      BY <1>1, <1>2, <2>3, <2>4, <2>6, SdkTypes
    <2>8. AnswerWasPublished' /\ CacheWasPublished'
      BY <1>2, <1>3, <2>2, <2>3, KidsAssumption DEF AnswerWasPublished, CacheWasPublished
    <2>9. WaitersHaveAFetch'
      BY <2>4 DEF WaitersHaveAFetch
    <2>10. \A q \in Requests : req'[q] # req[q] => req'[q].verdict = None
      BY <1>1, <2>1
    <2>11. None \notin Verdicts
      BY NoneAssumption
    <2> QED BY <2>7, <2>8, <2>9, <2>10, <2>11 DEF IInv, Verdicts
  <1> QED BY <1>4, <1>5

LEMMA FetchDoneStep ==
    ASSUME IInv, FetchDone
    PROVE  /\ IInv'
           /\ \A q \in Requests : req'[q] # req[q] =>
                /\ req'[q].verdict = "accepted" => req'[q].token.kid \in window'.cache
                /\ req'[q].verdict = "unknownKid" =>
                     Waiting(q) /\ window.fetch # {req[q].token.kid}
  <1>1. /\ files' \in KeyPairs /\ idp' \in Halves
        /\ window.fetch \in SUBSET Kids /\ window.cache \in SUBSET Kids
        /\ req \in [Requests -> Reqs]
        /\ cache \in [key : Kids \cup {None}, fresh : BOOLEAN]
        /\ fetch \in Kids \cup {"asked", None}
    BY SdkStarts DEF FetchDone
  <1>2. /\ UNCHANGED <<files, idp, tokens, drawn>>
        /\ fetch \in Kids /\ fetch' = None
        /\ cache' = [key |-> fetch, fresh |-> TRUE]
        /\ req' = [r \in Requests |->
                     IF Waiting(r) THEN Judged(req[r].token, fetch) ELSE req[r]]
        /\ Watch({}, window.fetch)
    BY DEF FetchDone
  <1>3. fetch \in window.fetch
    BY <1>2 DEF IInv, AnswerWasPublished
  <1>4. /\ window' \in Windows
        /\ window'.cache = window.fetch \cup {Published'}
    BY <1>1, <1>2, WatchGrows
  <1>5. ASSUME NEW q \in Requests, Waiting(q)
        PROVE  /\ req'[q] \in Reqs /\ req'[q].verdict # None
               /\ req'[q].token = req[q].token
               /\ req'[q].verdict = "accepted" => fetch = req[q].token.kid
               /\ req'[q].verdict = "unknownKid" => fetch # req[q].token.kid
    <2>1. req[q].token \in AccessTokens
      BY <1>1, <1>5 DEF Reqs, Waiting
    <2>2. req'[q] = Judged(req[q].token, fetch)
      BY <1>2, <1>5
    <2> QED BY <1>2, <2>1, <2>2, JudgedByItsKey
  <1>6. \A q \in Requests : ~Waiting(q) => req'[q] = req[q]
    BY <1>2
  <1>7. req' \in [Requests -> Reqs]
    BY <1>1, <1>2, <1>5, <1>6
  <1>8. cache' \in [key : Kids \cup {None}, fresh : BOOLEAN]
    BY <1>2
  <1>9. TypeOK'
    BY <1>2, <1>4, <1>7, <1>8, SdkTypes
  <1>10. AnswerWasPublished' /\ CacheWasPublished'
    BY <1>2, <1>3, <1>4, NoneAssumption DEF AnswerWasPublished, CacheWasPublished
  <1>11. \A q \in Requests : ~(req'[q].token # None /\ req'[q].verdict = None)
    BY <1>5, <1>6 DEF Waiting
  <1>12. WaitersHaveAFetch'
    BY <1>11 DEF WaitersHaveAFetch, Waiting
  <1>13. ASSUME NEW q \in Requests, req'[q] # req[q]
         PROVE  /\ req'[q].verdict = "accepted" => req'[q].token.kid \in window'.cache
                /\ req'[q].verdict = "unknownKid" =>
                      Waiting(q) /\ window.fetch # {req[q].token.kid}
    BY <1>3, <1>4, <1>5, <1>6, <1>13
  <1> QED BY <1>9, <1>10, <1>12, <1>13 DEF IInv

LEMMA FetchFailsStep ==
    ASSUME IInv, FetchFails
    PROVE  /\ IInv'
           /\ \A q \in Requests : req'[q] # req[q] => req'[q].verdict = "fetchFailed"
  <1>1. /\ files' \in KeyPairs /\ idp' \in Halves
        /\ window.fetch \in SUBSET Kids /\ window.cache \in SUBSET Kids
        /\ req \in [Requests -> Reqs]
        /\ cache \in [key : Kids \cup {None}, fresh : BOOLEAN]
    BY SdkStarts DEF FetchFails
  <1>2. /\ UNCHANGED <<files, idp, tokens, cache, drawn>> /\ fetch' = None
        /\ req' = [r \in Requests |->
             IF Waiting(r) THEN [req[r] EXCEPT !.verdict = "fetchFailed"] ELSE req[r]]
    BY DEF FetchFails
  <1>3. /\ window' \in Windows
        /\ window'.cache = window.cache \cup {Published'}
    BY <1>1, WatchGrows DEF FetchFails, WatchOn
  <1>4. "fetchFailed" \in Verdicts /\ "fetchFailed" # None
    BY NoneAssumption DEF Verdicts
  <1>5. \A q \in Requests : IF Waiting(q) THEN /\ req'[q] \in Reqs
                                               /\ req'[q].verdict = "fetchFailed"
                                          ELSE req'[q] = req[q]
    BY <1>1, <1>2, <1>4 DEF Reqs
  <1>6. req' \in [Requests -> Reqs]
    BY <1>1, <1>2, <1>5
  <1>7. TypeOK'
    BY <1>1, <1>2, <1>3, <1>6, SdkTypes
  <1>8. AnswerWasPublished' /\ CacheWasPublished'
    BY <1>2, <1>3, NoneAssumption DEF IInv, AnswerWasPublished, CacheWasPublished
  <1>9. \A q \in Requests : ~(req'[q].token # None /\ req'[q].verdict = None)
    BY <1>4, <1>5 DEF Waiting
  <1>10. WaitersHaveAFetch'
    BY <1>9 DEF WaitersHaveAFetch, Waiting
  <1> QED BY <1>5, <1>7, <1>8, <1>10 DEF IInv

LEMMA LeaveStep ==
    ASSUME IInv, NEW r \in Requests, Leave(r)
    PROVE  /\ IInv'
           /\ \A q \in Requests : req'[q] # req[q] => req'[q].verdict = None
  <1>1. /\ files' \in KeyPairs /\ idp' \in Halves
        /\ window.fetch \in SUBSET Kids /\ window.cache \in SUBSET Kids
        /\ req \in [Requests -> Reqs]
        /\ cache \in [key : Kids \cup {None}, fresh : BOOLEAN]
        /\ fetch \in Kids \cup {"asked", None}
    BY SdkStarts DEF Leave
  <1>2. /\ UNCHANGED <<files, idp, tokens, cache, fetch, drawn>>
        /\ req' = [req EXCEPT ![r] = Idle]
    BY DEF Leave
  <1>3. /\ window' \in Windows
        /\ window'.cache = window.cache \cup {Published'}
        /\ fetch' # None => window'.fetch = window.fetch \cup {Published'}
    BY <1>1, WatchGrows DEF Leave, WatchOn
  <1>4. Idle \in Reqs /\ Idle.token = None /\ Idle.verdict = None
    BY DEF Idle, Reqs
  <1>5. req' \in [Requests -> Reqs]
    BY <1>1, <1>2, <1>4
  <1>6. \A q \in Requests : req'[q] # req[q] => req'[q] = Idle
    BY <1>1, <1>2
  <1>7. TypeOK'
    BY <1>1, <1>2, <1>3, <1>5, SdkTypes
  <1>8. AnswerWasPublished' /\ CacheWasPublished'
    BY <1>2, <1>3, NoneAssumption DEF IInv, AnswerWasPublished, CacheWasPublished
  <1>9. WaitersHaveAFetch'
    BY <1>1, <1>2, <1>4, <1>6 DEF IInv, WaitersHaveAFetch, Waiting
  <1> QED BY <1>4, <1>6, <1>7, <1>8, <1>9 DEF IInv

LEMMA AgeStep ==
    ASSUME IInv, Age
    PROVE  IInv'
  <1>1. /\ files' \in KeyPairs /\ idp' \in Halves
        /\ window.fetch \in SUBSET Kids
        /\ req \in [Requests -> Reqs]
        /\ cache \in [key : Kids \cup {None}, fresh : BOOLEAN]
        /\ fetch \in Kids \cup {"asked", None}
    BY SdkStarts DEF Age
  <1>2. /\ UNCHANGED <<files, idp, tokens, fetch, req, drawn>>
        /\ cache' = [cache EXCEPT !.fresh = FALSE]
    BY DEF Age
  <1>3. /\ window' \in Windows
        /\ fetch' # None => window'.fetch = window.fetch \cup {Published'}
    <2>1. {} \in SUBSET Kids
      OBVIOUS
    <2> QED BY <1>1, <2>1, WatchGrows DEF Age
  <1>4. cache' \in [key : Kids \cup {None}, fresh : BOOLEAN] /\ ~cache'.fresh
    BY <1>1, <1>2
  <1>5. TypeOK'
    BY <1>1, <1>2, <1>3, <1>4, SdkTypes
  <1>6. AnswerWasPublished' /\ CacheWasPublished'
    BY <1>2, <1>3, <1>4, NoneAssumption DEF IInv, AnswerWasPublished, CacheWasPublished
  <1>7. WaitersHaveAFetch'
    BY <1>2 DEF IInv, WaitersHaveAFetch, Waiting
  <1> QED BY <1>5, <1>6, <1>7 DEF IInv

-----------------------------------------------------------------------------
(* The theorems *)

LEMMA InitEstablishesIInv ==
    ASSUME Init
    PROVE  IInv
  <1>1. TypeOK
    BY DEF Init, TypeOK, KeyPairs, Unloaded, Idle
  <1>2. AnswerWasPublished /\ CacheWasPublished /\ WaitersHaveAFetch
    BY NoneAssumption DEF Init, Idle, AnswerWasPublished, CacheWasPublished,
                          WaitersHaveAFetch, Waiting
  <1> QED BY <1>1, <1>2 DEF IInv

\* What a step promises about the verdicts it returns.
VerdictsJustified ==
    \A r \in Requests : req'[r] # req[r] =>
      /\ req'[r].verdict = "accepted" => req'[r].token.kid \in window'.cache
      /\ req'[r].verdict = "unknownKid" =>
           Waiting(r) /\ window.fetch # {req[r].token.kid}

LEMMA EveryStep ==
    ASSUME IInv, [Next]_vars
    PROVE  IInv' /\ VerdictsJustified
  <1> USE DEF VerdictsJustified
  <1>1. CASE Rotate
    BY <1>1, RotateStep DEF Rotate, WritePublic, WritePrivate
  <1>2. CASE Restart
    BY <1>2, RestartStep DEF Restart
  <1>3. CASE Sign
    BY <1>3, SignStep DEF Sign
  <1>4. CASE GetJwks
    BY <1>4, GetJwksStep DEF GetJwks
  <1>5. ASSUME NEW r \in Requests, Leave(r) PROVE IInv' /\ VerdictsJustified
    BY <1>5, LeaveStep, NoneAssumption DEF Verdicts
  <1>6. ASSUME NEW r \in Requests, NEW t \in AccessTokens, GetKey(r, t)
        PROVE  IInv' /\ VerdictsJustified
    BY <1>6, GetKeyStep
  <1>7. CASE FetchDone
    BY <1>7, FetchDoneStep
  <1>8. CASE FetchFails
    BY <1>8, FetchFailsStep
  <1>9. CASE Age
    BY <1>9, AgeStep DEF Age
  <1>10. CASE UNCHANGED vars
    BY <1>10 DEF vars, IInv, TypeOK, AnswerWasPublished, CacheWasPublished,
                 WaitersHaveAFetch, Waiting
  <1> QED BY <1>1, <1>2, <1>3, <1>4, <1>5, <1>6, <1>7, <1>8, <1>9, <1>10 DEF Next

\* The invariant the properties rest on holds in every reachable state.
THEOREM Invariance == Spec => []IInv
  <1>1. Init => IInv
    BY InitEstablishesIInv
  <1>2. IInv /\ [Next]_vars => IInv'
    BY EveryStep
  <1> QED BY <1>1, <1>2, PTL DEF Spec

\* Every variable ranges over what the IdP and the SDK can put there.
THEOREM TypeCorrectness == Spec => []TypeOK
  <1>1. IInv => TypeOK
    BY DEF IInv
  <1> QED BY <1>1, Invariance, PTL

\* getKey never leaves a request waiting for a fetch that has ended: whoever
\* waits has a pendingFetch, and its end is what releases him.
THEOREM NobodyWaitsForNothing == Spec => []WaitersHaveAFetch
  <1>1. IInv => WaitersHaveAFetch
    BY DEF IInv
  <1> QED BY <1>1, Invariance, PTL

\* A token is accepted only with a key published since the cache last ran out
\* or since the fetch that filled it was sent: ttlMs bounds how long jwks.ts
\* believes a key the IdP has withdrawn.
THEOREM WithdrawnKeysAgeOut == Spec => KeysAgeOut
  <1>1. IInv /\ [Next]_vars =>
          [\A r \in Requests :
             req'[r] # req[r] /\ req'[r].verdict = "accepted" =>
               req'[r].token.kid \in window'.cache]_vars
    BY EveryStep DEF VerdictsJustified
  <1> QED BY <1>1, Invariance, PTL DEF Spec, KeysAgeOut

\* getKey reports an unknown kid only after a fetch that had the chance to see
\* another key: a rotation reaches the client system by itself.
THEOREM UnknownKidMeansRotation == Spec => UnknownOnlyIfRotated
  <1>1. IInv /\ [Next]_vars =>
          [\A r \in Requests :
             req'[r] # req[r] /\ req'[r].verdict = "unknownKid" =>
               /\ Waiting(r)
               /\ window.fetch # {req[r].token.kid}]_vars
    BY EveryStep DEF VerdictsJustified
  <1> QED BY <1>1, Invariance, PTL DEF Spec, UnknownOnlyIfRotated
=============================================================================
