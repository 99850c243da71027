# Verification of the central login service (Centralizador de login)

TLA+ modules, TLC configurations and machine-checked proofs for the identity
provider (IdP) in this repository and for the SDK its client systems use. Every
definition is written from the source; `PROJECT.json` gives, for each definition,
the file and lines it stands for. Paths below are relative to the repository.

## 1. The system

Employees log in once at the IdP and enter the company's internal systems
through OAuth2 (authorization code, no PKCE, confidential clients). The IdP is
an Express application over PostgreSQL (Prisma); client systems mount
`idp-client`; two React applications are the administration panel and the login
pages.

| Component | State it keeps | Operations | Hard behaviour |
|---|---|---|---|
| OAuth core (`src/services/oauth.service.ts`) | `authorization_codes`, `refresh_tokens`, audit rows | `authorize`, `exchangeToken` (two grants), `revokeToken` | every handler is a chain of separate `await`ed statements without a transaction: checks are stale when acted on, requests overlap, a crash leaves a prefix |
| Grants and roles (`userSystemAccess.service.ts`, `role.service.ts`) | `user_system_access`, `roles`, audit rows | grant, revoke, change role (a transaction), create and delete role | check-then-insert against a partial unique index; a transaction at READ COMMITTED; lock waits |
| IdP session (`auth.service.ts`, `auth.controller.ts`, `session.middleware.ts`, `lib/sessionStore.ts`) | `sessions`, `users` | login, logout, `/session/end`, password change; load, touch, set, destroy and prune of sessions | requests of one browser overlap; expiry, touch and destroy race; users change under a session |
| Client SDK (`idp-client/src/middleware`) | `req.session` of the client system | `/auth/login`, `/auth/callback`, `/auth/logout`, `requireAuth` | each request works on its own copy of the session and writes it back whole; calls to the IdP fail before or after acting |
| Keys (`lib/jwtKeys.ts`, `token.service.ts`, `idp-client/src/jwks.ts`, `verifyToken.ts`) | key files, the halves loaded by the process, the SDK's key cache and its shared fetch | rotate, sign, publish, look up | lazy loading while files change, stale cache, one fetch answering many requests |
| Users, systems (`user.service.ts`, `system.service.ts`) | `users`, `systems` | create, (de)activate, reset, update, new secret | they change what other handlers have already read |
| Login rate limit (`rateLimit.middleware.ts`) | a counter per IP | count, give back on success, start a window | attempts overlap each other and the end of a window |
| Audit queries (`auditLog.service.ts`, `auditLog.repository.ts`) | the log, append-only | list with filters and pages | rows and total come from two queries while the log grows |
| Panel (`admin-frontend`): pages Usuarios, Acessos, Sistemas, Auditoria, with `AuthContext` and `ProtectedRoute` | React state of the mounted page, one modal on top of another | search, turn pages, filter, create, change, confirm, show a secret once | requests overlap; handlers keep the state of the render they were created in; answers overtake each other or get lost |
| Login pages (`login-ui`) | the page, its form, `return_to` in its address | log in, change the password, menu, log out, error page | handlers of a page that is gone still navigate; the session changes meanwhile |
| DTOs, validation, routes, errors, Swagger | none | – | none: stateless |

How they meet: `login-ui` talks to the session routes; `/authorize` reads the
session, the user and the grant and issues a code; the SDK exchanges it at
`/token` with its client secret; every refresh re-reads user and grant; the
administrator's writes reach all of these only through the tables. The SDK
verifies access tokens with the key it fetches from `/.well-known/jwks.json`.

### What makes each part correct

* **OAuth core.** A code or token goes only to somebody who was active and
  entitled while the handler ran; a code is redeemed by the client and with the
  URI it was issued for; every token leads back to one used code of its own user
  and client; codes and tokens are exchanged once; reuse and logout kill a lineage
  for good; what is delivered has been audited; every handler ends.
* **Grants.** One active access per user and system; its role belongs to the
  system; a role change is atomic; the audit trail tells no lies; no deadlock.
* **IdP session.** A session stays with the person it was created for, ends for
  good, is prolonged only if it was found alive; every session has its
  LOGIN_SUCCESS row; nothing is done for somebody who was not active.
* **Client session.** Logins of one browser do not mix; a code is exchanged only
  by the session that asked for it; nothing is served on an expired token; the
  SDK itself never looks like a compromise to the IdP.
* **Panel.** A page at rest shows what the tables hold for the query, user or system it
  names; no button stays blocked; a secret that is in force was shown, under
  the right name; what was typed is searched for.
* **Login pages.** Who came from `/authorize` gets back there through both forms, and
  nobody else is sent there. **Rate limit.** No window answers more wrong passwords
  than the limit, but for attempts it took over from the window before.
* **Keys.** A withdrawn key is believed no longer than one TTL and one fetch; a
  new key is found; waiting requests are released; a token's kid names its key.

## 2. Modules

| Module | Models | State and actions |
|---|---|---|
| `OAuthTokens` | the OAuth handlers | one action per repository call with the code up to the next `await`; `req[r]` are the handler's locals across awaits; `Abort` is an exception or a crash at any of them; `Tick` passes `expiresAt`; `Administer` is what the other services commit |
| `OAuthRequirements` | – | every property of the OAuth core, and the mapping to the ledger |
| `TokenLedger` | the abstract specification | a book that only grows: codes are issued then used, tokens are issued for something already spent, revoked stays revoked |
| `AccessGrants` | grants, role changes, roles | one action per statement; row lock, index wait, rollback and the atomic COMMIT of `changeRole` are explicit |
| `IdpSession` | login sessions of the IdP | one action per statement; express-session's load before and save or touch after a handler are part of every request |
| `ClientSession` | the SDK in a client system | a request takes a copy of the session, works on it, and saves all of it if it changed it; the IdP answers one call at a time |
| `JwksCache` | keys from the files to the verification | the two files and the two loaded halves separately; `pendingFetch` shared by all requests; a fetch is read by the server at one moment and arrives at another |
| `PageCalls` | what all pages share | the mounted component's state (`view`), the requests in flight in the order they were sent (`calls`), the tables (`server`); helpers for answers that overtake or get lost |
| `UsersPage`, `AccessPage`, `SystemsPage`, `AuditPage` | the four pages of the panel, and the services behind them | one action per event handler, per request served, and per answer with the code that waited for it and the effects of the new state |
| `PanelAuth` | `AuthContext`, `ProtectedRoute`, Entrar, TrocarSenha | the last answer of `/me` against the session it is about, which changes elsewhere |
| `LoginUi` | the pages of `login-ui` | navigation (handlers go on) and page loads (handlers end), one action per handler and answer |
| `LoginLimiter` | `loginRateLimiter` | an attempt is counted when it comes and given back with its answer; windows end in between |
| `WebApps` | one browser tab | which page is mounted; composes the seven modules above |
| `MC*` | – | symmetry and bounds for TLC |
| `OAuthTokensProofs`, `TokenLedgerProofs`, `AccessGrantsProofs`, `IdpSessionProofs`, `ClientSessionProofs`, `JwksCacheProofs`, `PagesProofs`, `WebAppsProofs` | – | proofs (section 5) |

`OAuthRequirements` composes `OAuthTokens` with `TokenLedger`
(`Ledger == INSTANCE TokenLedger WITH codes <- LedgerCodes, ...`): the mapping drops
expiry and redirect URIs of the rows. The components meet where the code lets them
meet, in the tables: what `AccessGrants` commits is `SetGrant` of `OAuthTokens`,
and what `IdpSession` writes to `users` is `SetUserActive` and `SetMustChange`;
`OnlyRevocationEndsAccess` is what entitles `SetGrant` to show a role change as
one step. `ClientSession` uses the IdP one call at a time and says what happens
between two calls; overlapping calls inside the IdP are `OAuthTokens`.

`WebApps` instantiates each page module (`SearchTab == INSTANCE UsersPage WITH ...`)
over the same four variables, since a tab shows one page at a time: `OpenPage` is the
outlet of `ProtectedRoute` and mounts a page on any tables it may find, `LeavePage`
unmounts it. Two pages are there twice, with different constants: Usuarios once for
searching and paging and once for creating and resetting, Sistemas once with two slugs
and once with two versions of a system's fields.

Names: actions are named for the call they stand for, pcs for the action that comes
next. Variables marked *history* record the past for a property and are read by no
guard. Definitions called *Mutant of X* are plausible bugs of X; `PROJECT.json`
pairs each with the property that catches it.

## 3. Runs

| Run | Instance | What it shows |
|---|---|---|
| `OAuthRaces` | 1 user, 1 system, 2 roles, 1 code, 2 tokens, 2 requests, administrators at any time | stale locals never lead to an issue without entitlement; nothing is delivered before its audit row |
| `OAuthClients` | 2 systems, 2 URIs, 1 code, 2 tokens, 2 requests | lineages stay with user and client; codes and tokens are redeemed only if found unspent, codes only as issued; what a handler learnt stays true; the tables implement `TokenLedger` |
| `OAuthSerial` | 2 codes, 3 tokens, 1 request, fair | with requests one at a time, crashes included: single use of codes and tokens, dead lineages stay dead; every handler answers or dies |
| `OAuthBurnRace` | 1 code, 3 tokens, 2 requests | *violation*, section 6: a refresh token presented again during its rotation |
| `GrantRaces` | 1 user, 2 systems, 2 roles, 3 accesses, 2 requests | all promises about grants, absence of lock cycles |
| `GrantLostRevocation` | 1 system, 2 accesses, 2 requests | *violation*, section 6 |
| `IdpSession` | an administrator and an employee, 2 passwords, 2 sessions, 2 requests | all promises about sessions |
| `ClientSession` | 4 sessions, 2 logins, 3 tokens, 2 requests | all promises about the SDK but one |
| `ClientReuse` | same | *violation*, section 6 |
| `JwksCache` | 2 key pairs, 2 requests, fair fetches | all promises about keys but one |
| `JwksKidSplit` | 2 key pairs, 1 request | *violation*, section 6 |
| `WebApps` | per page: 2 or 3 requests in flight, 2 users, 1 or 2 systems, 2 audit entries, 2 secrets; login limit 2, 4 hits, 3 attempts in flight | pages at rest show the tables, flags end with their calls, secrets are shown under the right name and no other, the way back is kept, the limit holds, what is typed is searched |

**Bounds.** Ids are drawn from finite sets and never reused, as `randomBytes` and
cuids are not. `CodesLeft`, `TokensLeft`, `AccessesLeft`, `LoginsLeft` and `IdsLeft`
let a request in only while an id is left for it, so no handler ever stops for want of
one: a stuck state would be a deadlock of the code, and deadlock is checked in every
run. `SetUpFirst` (OAuth runs about lineages; `SetUpFirstInOrder` contains it) lets administrators prepare any tables
and then leave them alone; `OAuthRaces` and the proofs do without it. Two requests
are enough for every race of section 6, since each check-then-act window is between
two handlers; two codes or three tokens give a rotation, its reuse and a survivor.
Four client sessions are two anonymous tabs and the session each login ends in.
In `WebApps` two requests in flight are what it takes for one answer to overtake
another, for a refetch to run beside a list, or for two secrets to be on their way; with
two rows, pages of one and two rows, and a term that finds one of them, every button
of `PaginationComponent` and a page past the end occur. The limiter needs an attempt
left over from a window beside two of the new one. These bounds are constants of `WebApps`
(`LoginLimit`, `LoginHits`, `AuthRequests`, `PageRequests`), so that the proofs can do without them.

**Symmetry** is used where only safety is checked and no action names a value:
ids, passwords and requests everywhere, roles, URIs and systems in the OAuth runs.
`IdpSession` does not permute users, one of them is an administrator.
`OAuthSerial` and `JwksCache` check liveness and use none; `OAuthSerial` hands out its
ids in a fixed order instead (`SetUpFirstInOrder`). `WebApps` has actions that name
values. `ImplementsLedger` is checked under symmetry, as it is a safety property.

**Fairness.** `OAuthTokens!Fairness` is weak fairness of `Proceed(r)`: Node resumes
every settled promise and a Prisma call settles (it answers, or its pool and
connection timeouts reject it). Requests need not arrive, and a handler may die
instead, so `EveryRequestEnds` speaks of handlers already started. `JwksCache` is
weakly fair to the end of a fetch: it is answered or Node's `fetch` times out. `WebApps`
is weakly fair to `SearchFires`, the end of a `setTimeout` in the browser, which a key
press may cancel; nothing is assumed of answers. No other module assumes fairness.

## 4. How the code is abstracted

* A row keeps the columns some guard or property reads; time is the flag `expired`,
  which an action sets at any moment. A hash and its secret are one value.
* Reads, checks and early returns up to the next `await` are one action. Statements are
  atomic, as PostgreSQL makes a single statement; `revokeFamily` and
  `revokeAllActiveForUserAndSystem` are one UPDATE each.
* `issueTokenPair` inserts before the audit row is written; both steps are separate,
  and a crash between them leaves a token without a row. `AuditedBeforeDelivered`
  says that such a token never reaches the client.
* In `AccessGrants` the writes of an open transaction are invisible until
  `ChangeCommit`; `RowFree` and `KeyFree` are the waits of an UPDATE for a row lock
  and of an INSERT for an index entry.
* express-session is modelled from its documented contract as `src/app.ts` configures
  it (`resave` and `saveUninitialized` off, `rolling` on): load, then handler, then
  `set` if the session was changed, otherwise `touch`. `touch` in
  `lib/sessionStore.ts` is an UPDATE, `set` an upsert. The same holds for the
  client system, with the options of `docs/CLIENT_SDK.md` and the default MemoryStore;
  there a crash takes all sessions with it, so `ClientSession` has no crash.
* In the page modules a handler of the IdP is one action: its own races are the matter of
  `AccessGrants`, `OAuthTokens` and `IdpSession`. The one exception is the audit listing,
  whose two queries are two actions; for the rows and the total of Usuarios, which are
  read the same way, they are one, because nothing else writes users while the page is
  open. Changes by other administrators are not modelled while a page is open: no page
  asks without being told to, so it could only show what it last saw.
* `calm` is a history flag that goes down when chance decides what is on display (an
  answer overtook an older one of its kind, one was lost, or the display was changed under
  a write that refetches with its own older query) and up again with a fresh
  request that nothing else is beside. `RestShowsTruth` speaks of pages that are calm.
* Modals cover the page, so only the top one is clicked; moving behind it with the
  keyboard is left out. Leaving a page stands for everything that unmounts it, `Sair`
  included; the next visit starts from any tables, so it does not matter what its
  requests still do at the IdP.
* Requests refused before they touch anything (validation, wrong client secret, unknown
  client) are left out: they change nothing.

## 5. Proofs

Checked by TLAPS for any sets of users, systems, roles, keys, sessions, codes, tokens and
accesses, any number of requests and any limit on logins, from the named assumptions on
constants only: `None` is not one of the ids, rows or verdicts; codes and tokens are
disjoint; the words used in windows are not ids (`NoneAssumption`, `DisjointAssumption`,
`LedgerNoneAssumption`, `KidsAssumption`); an administrator is a user (`UsersAssumption`);
for `IdpSession` that the requests and session ids of a run are finite in number
(`FiniteAssumption`); the login limit is a natural number (`LimitAssumption`). TLC evaluates
each of them in some run.

| Theorem | States | Argument |
|---|---|---|
| `OAuthTokensProofs!TypeCorrectness`, `KnowledgeTheorem` | `TypeOK`, `LocalsStayTrue` | the two together are inductive (`IInv`). `LocalsStayTrue` is the strengthening: it says of every pc which facts read earlier still hold. It survives other handlers because no step removes a row, changes its owner or family, or un-spends it (`StepKeepsRows`) |
| `OAuthTokensProofs!EntitlementTheorem` | `NoIssueWithoutEntitlement` | `AllAware`: at each pc, the checks passed so far are in the handler's window, and windows only grow |
| `OAuthTokensProofs!AuditTheorem` | `AuditedBeforeDelivered` | the only steps that deliver are those that audit, and audit rows stay |
| `OAuthTokensProofs!RedemptionTheorem` | `RedeemedAsIssued` | `AllFresh`: `FindCode` and `FindToken` open the handler's window on an item they saw unspent, and windows only grow; `AllRedeem`: what `FindCode` compared is kept with the code until the insert; a handler works on one code from end to end |
| `OAuthTokensProofs!RefinementTheorem` | `ImplementsLedger` | every action maps to one step of the book or to none, under `IInv` |
| `OAuthTokensProofs!LineageTheorem` | `LineageRooted` | inherited from the book through the refinement |
| `OAuthTokensProofs!LineageInvariance`, `CodeSingleUseTheorem`, `TokenSingleUseTheorem`, `BurnedTheorem`, `LoggedOutTheorem` | `CodeSingleUse`, `TokenSingleUse`, `BurnedLineageStaysDead`, `LoggedOutLineageStaysDead`, of behaviours with `OneRequestPerLineage` | see below |
| `TokenLedgerProofs!LedgerSound`, `LedgerMonotone` | parents are spent first, families lead to a used code of the same owner; nothing comes back | rows are only added to, so only the inserted token needs a look |
| `AccessGrantsProofs!TypeCorrectness`, `OneActiveTheorem`, `RolesTheorem`, `AuditTrailTheorem` | `TypeOK`, `OneActiveAccess`, `RoleOfItsSystem`, `AuditTellsTheTruth` | `IInv` adds `Knows` (what a handler's locals mean) and `CommitReady`: a transaction that is about to commit still owns its pair, because the index makes every other insert for it wait |
| `AccessGrantsProofs!ChangeIsAtomic` | `OnlyRevocationEndsAccess` | follows from the same invariant, step by step |
| `AccessGrantsProofs!LocksTheorem` | `SomebodyNeedNotWait`, the first half of `NoLockCycle` | see below |
| `IdpSessionProofs!TypeCorrectness`, `SessionTheorem` | `TypeOK`, `SessionKeepsItsUser` | `IInv` says what a request knows of its session at each pc (`Knows`), that a row belongs to its owner, and that two logins never draw one id. It is inductive because `owner` is written once: nobody else can take from a request what it knows (`KnowledgeKept`) |
| `IdpSessionProofs!EndedTheorem` | `EndedStaysEnded` | every step but `Save` only takes rows away or changes their age (`SessionsShrink`), and `Save` writes under an id that had no owner |
| `IdpSessionProofs!ExpiryTheorem` | `ExpiryIsFinal` | a request keeps the session of its cookie only if its `get` finds it alive (`KeepsSid`, part of every `GoesOn` lemma), and only `Touch` prolongs |
| `IdpSessionProofs!GroundsTheorem` | `ServedOnTrueGrounds` | inductive together with `IInv`: a window only grows while the request knows its user, and the two actions that check a row put what they checked into it |
| `IdpSessionProofs!LoginAuditTheorem` | `EverySessionIsAudited` | the sessions a user ever had and the recorded logins still to be saved are together no more than the audit rows: `AuditLogin` adds one to both sides, `Save` moves one over |
| `ClientSessionProofs!TypeCorrectness`, `SessionsKeepTheirLogin` | `TypeOK`, `LoginsStayApart` | `LoginsStayApart` is about the store, but any request may save its copy over it at its end. `CopiesKnow` says of every copy what the property says of the store (it holds tokens of the login its session was opened for); `OneSessionEach` and `LineageUnique` that a login in the hands of a callback has no session yet, so that `regenerate` opens the first |
| `ClientSessionProofs!CodesAreSolicited` | `LoginWasSolicited` | part of `CopiesKnow`: a state in a copy is one its session has sent, as `asked` only grows |
| `ClientSessionProofs!ServedFreshly` | `ServedOnFreshToken` | what expires is issued (`ExpiredIssued`), so a token just drawn is fresh |
| `JwksCacheProofs!TypeCorrectness`, `NobodyWaitsForNothing` | `TypeOK`, `WaitersHaveAFetch` | a request waits only while `pendingFetch` is set; its end releases all of them in one step, which is what the liveness `NobodyWaitsForEver` rests on |
| `JwksCacheProofs!WithdrawnKeysAgeOut` | `KeysAgeOut` | the answer under way was published since its fetch was sent (`AnswerWasPublished`), what is cached and fresh was published in the cache's window (`CacheWasPublished`) |
| `JwksCacheProofs!UnknownKidMeansRotation` | `UnknownOnlyIfRotated` | of the same invariant: the answer is in the fetch's window and is not the kid |
| `WebAppsProofs!WrongAttemptsTheorem` | `WrongAttemptsBounded` | wrong answers and attempts let through are together no more than the limit, nor than the count, but for those taken over from the last window (`LimiterInv`): the count is what lets the next one in |
| `WebAppsProofs!WayBackTheorem` | `ReturnsToWhereItStarted` | every request in flight carries the way back of the login in progress, those of the menu only when there is none (`Sent`); it is also sent by the page on display unless its page is gone (`live`), so a stale answer cannot take the user anywhere else |
| `WebAppsProofs!FlagsTheorem` | `FlagsEndWithTheirCalls`, if `NoneIsNoValue` | `PagesInv`, see below |
| `WebAppsProofs!SecretsTheorem` | `SecretsReachTheAdmin`, if `NoneIsNoValue` | a secret that was drawn is in an answer under way of a request that still has its modal, or has been on display under its owner's name, or was lost (`PagesProofs!SecretsOk`, `UsersSecretsOk`). No other owner: every secret drawn is new, so one in an answer or once on display is nobody else's (`Claim`); part of `PagesInv` |
| `WebAppsProofs!RestTheorem` | `RestShowsTruth`, if `NoneIsNoValue` | what is on display is right or will be put right by a request under way (`Truth`), see below |

TokenLedger's theorems carry their assumption (`ConstantsDistinct`);
`OAuthTokensProofs` discharges it for the mapped constants. The request bounds (`MaxCalls`
and the like) are parameters of the models, and no proof assumes anything of them.

**Single use and dead lineages.** These four promises are false of the code as it stands when
two requests present codes or tokens of one lineage at once (`OAuthBurnRace`). The theorems
say that this is the only way to break them: of every behaviour in which no two requests
about one lineage overlap (`OneRequestPerLineage`), however many others run, wherever
handlers die and whatever administrators do, all four hold. `OAuthSerial` checks the same
with one request at a time, which is a special case. The hypothesis is one on clients; no
code of the IdP sees to it, and the SDK does not either (`ClientReuse`). The invariant,
`LineageInv`, says that a lineage is a chain: each token comes from something spent of its
lineage (`Descends`), nothing has two successors (`UsedOnce`) and only one token is not
revoked (`OneUsable`). `AllAlone` says what a handler has read or revoked and may rely on,
because nobody else touches its lineage; `AllBuried` that a recorded incident or logout
leaves a lineage dead with no handler on its way to an insert.

**Locks.** A request of `AccessGrants` waits for a row another transaction has updated or
for an index entry another has inserted (`Waits`). `changeRole` updates its row first and inserts
after it, everyone else holds nothing while waiting. A request that waits for an index
entry waits for a transaction that inserted it, which only has its COMMIT ahead of it
and never waits; one that waits for a row waits for its owner, which either need not wait or waits
for an index entry. So somebody need not wait, for any number of requests. The strengthening is
`OneLockPerRow`: a row has been updated by one open transaction at most. That whoever
need not wait can take a step is about ENABLED and stays with TLC (`NoLockCycle`).

**Flags of the pages.** A flag (`loading`, `saving`, `busyAccessId`, ...) that outlives the
request it stands for leaves a page with a button that never comes back. `PagesInv` says,
page by page, that a raised flag has its request in `calls`. Every handler is one of few
moves on `calls`: one is sent (`OneIsSent`), answered (`AnAnswer`), leaves (`OneIsGone`), or
leaves and the list is asked for again (`OneForAnother`); each leaves the others as they
are (`Survive`), so only flags tied to the one that leaves need a look. Two pages need more:
* *Acessos* marks the row at work by `busyAccessId`, one id for all rows, which the answer to
  any row's request resets. A row asked for keeps its request until then; that the id is
  one of a row at all takes `RowsOk`, for the rows on display and those in answers under way.
* *Sistemas* has a modal that can be closed and opened for another system while requests of
  the first are under way; `live` says which of them may still touch the modal on
  display. A confirmed request (new secret, role removal) resets its flag only through
  the confirmation it came from. So `ModalCall` adds that a live request has a modal,
  `Backed` that a confirmed one is live and its confirmation still on top of the modal, with
  both buttons disabled, and `OneConfirmed` that there is one of them at most.

No bound on requests is used; the run `WebApps` checks `FlagsEndWithTheirCalls` with two or
three under way. Flags of the login pages are part of `WebAppsProofs!SignInInv`.

**What pages show at rest.** `RestShowsTruth` is about pages with nothing under way, so it is not
inductive: an invariant has to say of every request under way what its answer will do to
the display. `PagesProofs!Truth(L, F, dirty, shown)` says it, for one kind of thing
displayed, of the positions `L` of the requests that bring it and of those, `F`, that bring what
the tables hold now for what the page asks for now. One of three holds:
* a write is through (`dirty`), and its handler will ask again when it gets the answer;
* the newest of `L` is in `F`: it is unanswered, or was answered with what is there now;
* there is none, and what is displayed is right (`shown`).

It holds while the page is `calm`, and with nothing under way only the last case is left.
What a step does to it depends only on how it moves `calls`: lemmas such as
`TruthGone` and `TruthAsked` of `PagesProofs` settle that once for all pages. Per page:
* *Sistemas*: as above for the table, and once more for the roles in an open modal, whose requests are
  `live`. What is in flight or on display names systems that exist (`NamesOk`).
* *Usuarios*: a write under way carries the query on display, with which its handler will ask again.
  What a search term finds (`Found`) is any set of users (`TermsFindUsers`).
* *Acessos*: a write under way was sent for the user selected (`OfTheUser`), otherwise its handler
  would ask again for somebody else's accesses.
* *Auditoria*: the log grows without the page's doing, so the truth is a set: the rows and the
  totals of all moments since the query was put (`RowsSeen`, `TotalsSeen`). Entries
  only come on, so what a past moment shows does not change (`SeenStays` and its neighbours).
* *The panel* itself, which shows who is logged in: logins, changes of password and
  logouts under way were sent after every question still open (`WritesAreLast`). What such a
  write makes stale, it puts right itself: the first two ask again, the third is newer.

**The hypothesis.** `FlagsTheorem`, `SecretsTheorem` and `RestTheorem` assume `NoneIsNoValue`: the value
that stands for "nothing there" is not a number, nor one of the panel's accounts, nor a record with
the fields of a modal or an answer, so that for instance `modal # None` can be read off the fields.
It is true of the `null` of the code. It is a hypothesis and no assumption of a module because TLC has
no `DOMAIN` of a model value to evaluate.

**Model-checked only.**
* Liveness (`EveryRequestEnds`, `NobodyWaitsForEver`, `TypedTermIsSearched`) and the
  ENABLED half of `NoLockCycle`: out of the prover's reach.
* `TypeOK` of `WebApps`: the sets that view, requests and tables of each page range over. The
  proofs above carry the fields they need with them (`AccessFields`, `PanelFields`, `UsersShape`, ...).

## 6. Where code and documents disagree

* **A burned family can survive** (`OAuthBurnRace`). `exchangeRefreshToken` checks
  `revokedAt`, revokes by id and inserts the successor in separate statements. A token
  presented again after its rotation has revoked it and before the successor is
  inserted makes `revokeFamily` revoke what is there and record ACCESS_REVOKED; the
  rotation then inserts a live token of the family. "Revoga a linhagem INTEIRA"
  (`oauth.service.ts:178`) fails. `exchangeAuthorizationCode` has the same gap: when a code
  is presented again between `markUsed` (`oauth.service.ts:133`) and the insert, the
  tokens present are revoked and the first exchange then inserts a live one. That is the
  shorter way to break `BurnedLineageStaysDead`; the run checks
  `BurnedFamilyStaysDead`, which only the rotation breaks. In both functions two
  requests that look before either has spent the code or token succeed together;
  `RedeemedAsIssued` says that later ones cannot.
* **A revocation can be lost** (`GrantLostRevocation`). `changeRole` reads the access,
  then updates it by id. A revocation that commits in between is followed by a new active
  access, though the comment promises null for a revoked one
  (`userSystemAccess.repository.ts:52`).
* **The SDK triggers reuse detection** (`ClientReuse`). Two requests of one browser
  hold copies of one session and present the same code or refresh token. The IdP
  takes the second for a stolen copy and revokes the lineage: the user is logged out.
* **The kid can name another key** (`JwksKidSplit`). The halves of the pair are read
  at first use, one by one. A rotation in between (a JWKS request has loaded the public
  key, nothing has been signed yet; or `generate:keys` is between its two writes) leaves
  the process signing with one key under the other's kid until it restarts, although
  `jwtKeys.ts:34-36` and `docs/SEGURANCA.md:29` rule that out.

Seen while reading, with no run of their own: a used code that has expired is answered as
expired and raises no incident (`oauth.service.ts:107` before `:111`, against
`prisma/schema.prisma:157-158`); of two overlapping role changes of one access the second
meets the unique index and is answered with status 500; `changePassword` may overwrite a
reset that came after `requireAuth` read the user; a request joining a JWKS fetch that was
answered before a rotation is told the kid is unknown and renews its token needlessly;
`logout.ts:27` builds the `/session/end` redirect from `idpUrl`, where
`docs/CLIENT_SDK.md:60` says `authorizeUrl`.

In the browser applications, while reading: an older answer to a list request that comes
last stays on display under the newer query (`Usuarios.jsx:34`, `Auditoria.jsx:60`), and in
Acessos the accesses of the user chosen before, if the fetch for the new one fails or
comes first (`Acessos.jsx:87`); a handler refetches with the query it was created with;
two secrets that arrive together are shown one over the other (`Usuarios.jsx:100`);
`Sair` in TrocarSenha clears the user but leaves the page where it is; a handler of a
page that is gone still navigates, as when the menu's `/me` fails after a new login
(`Home.jsx:33`); the modal of a system saves the fields of the row it was opened
with, over whatever was saved since (`SystemDetailModal.jsx:56`); the selects of
Acessos and Auditoria offer the first hundred users only; an attempt given back after
its window ended lowers the count of the next (`rateLimit.middleware.ts:11`).

## 7. Not modelled, and why

* DTO validation, error bodies, redaction, Swagger, routing, static pages: stateless.
* Cryptography: hashes, signatures and random ids are taken to do their job.
* In the browser applications: wording, formatting, the clipboard, expanded rows, the
  sidebar, the fields of a form one by one, and the password carried from the login form
  to the next.
* `Abort` inside the handlers the page modules call: their request is lost as a whole.
* Seed, Docker, CI: run outside the program's life.

## 8. Plan

Done, in order of importance: `OAuthTokens` with `TokenLedger` and their proofs;
`AccessGrants` and its proofs; `IdpSession` and its proofs; `ClientSession`; `JwksCache`; the panel,
the login pages and the rate limit, composed in `WebApps`; the proofs for `ClientSession`
and `JwksCache`; the lineage promises of the OAuth core; the rate limit and the way back; the
flags of all pages, the secrets they show and what they show at rest.

Left: `TypeOK` of `WebApps` as a theorem, page by page on top of `PagesInv`; the proofs of *Acessos*,
*Auditoria* and the panel for any constants, as `PagesProofs` has them for the other two pages.
