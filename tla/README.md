# A verification project for fosite

fosite is a Go library for OAuth 2.0 and OpenID Connect providers.  An
application embeds it: the library checks requests, issues and revokes tokens
and keeps what it has issued in a store that the application supplies.  The
repository comes with one store, `MemoryStore`.

This directory holds TLA+ models of the library, the TLC runs that check them
on small instances, and TLAPS proofs of the properties for every instance.

## 1. The system

### Parts

| part | source | state it keeps | operations |
|---|---|---|---|
| token store | `storage/memory.go` | codes, access tokens, refresh tokens, request-ID indexes | create, get, invalidate, delete, revoke, rotate |
| session stores | `storage/memory.go` | PKCE, OpenID Connect, PAR, device sessions, used JWT IDs | create, get, delete, mark used |
| authorize endpoint | `authorize_*.go`, `handler/oauth2/flow_authorize_code_auth.go`, `flow_authorize_implicit.go`, `handler/openid/flow_*` | none | check a request, then let every handler add to the response and to the store |
| token endpoint | `access_*.go`, `handler/oauth2/flow_*.go`, `handler/pkce`, `handler/rfc7523`, `handler/rfc8628` | none | `NewAccessRequest` (phase 1: `HandleTokenEndpointRequest`), then `NewAccessResponse` (phase 2: `PopulateTokenEndpointResponse`) |
| revocation endpoint | `revoke_handler.go`, `handler/oauth2/revocation.go` | none | revoke by a presented token |
| device endpoint | `device_*.go`, `handler/rfc8628/auth_handler.go` | none | issue a device code and a user code |
| PAR endpoint | `pushed_authorize_*.go`, `handler/par` | none | store a request under a one-time URI |
| introspection | `introspect*.go`, `handler/oauth2/introspector*.go` | none | is a token active |
| client authentication | `client_authentication*.go` | JWKS cache | secret, or a signed assertion with a one-time ID |
| requests and sessions | `request.go`, `session.go`, `handler/openid/strategy_jwt.go` | expiry times, claims | written by one handler, read by later ones; the store keeps the pointer |
| token strategies | `token/hmac`, `token/jwt`, `handler/oauth2/strategy_*` | current and rotated secrets, signing key | generate, validate, decode |
| composition | `compose`, `fosite.go`, `config_default.go` | the handler lists, settings | which handlers run, in which order |
| pure functions | `scope_strategy.go`, `audience_strategy.go`, `authorize_helper.go`, `arguments.go`, `errors.go` | none | matching, wrapping, status codes |

### How the parts interact

Every HTTP call is a goroutine of the application.  It runs an endpoint
function, which runs the registered handlers one after the other; handlers of
different calls share nothing but the store.  Each store method holds
the mutexes of the maps it uses, so a method is atomic (`StoreLocks` shows it), and
nothing larger is: between any two methods of one call, methods of other calls
run.  `MemoryStore` has no transactions.  `MaybeBeginTx`, `MaybeCommitTx` and
`MaybeRollbackTx` (`storage/transactional.go`) do nothing with it.

Between the two phases of the token endpoint the application runs: it may add
to the session and may grant scopes.

### What is hard

* *Interleaving.*  A call reads a code or a token in phase 1 and acts on it in
  phase 2.  Two calls that present the same code, or the same refresh token,
  both pass the read before either writes.
* *Indirection.*  Revocation and rotation do not go by the token that was
  presented but by the request ID, over an index that remembers one access
  token and one refresh token for each ID.
* *Replay.*  A code or a refresh token presented again must take the whole
  grant down, at any later time, after any number of rotations.
* *Partial failure.*  A call can stop between two writes; with a transactional
  store it rolls back.
* *Shared sessions.*  A stored request keeps the pointer to its session.  The
  authorize request, the stored code and every call that redeems it write expiry
  times and claims into one object.
* *Change under way.*  The operator rotates secrets and keys and changes the
  registration of clients while calls are running.
* *Locks.*  Some store methods take two mutexes, one calls another with its own
  lock held, and a waiting writer keeps readers out.
* *One-time values.*  JWT IDs, PAR URIs, device codes and user codes are read,
  checked, then marked or deleted.

### What makes each part correct

* Code exchange: a code is redeemed once, only by the client it was issued to,
  and only for what was granted; a replay ends the grant.
* Refresh: rotation leaves one live pair; a used token is dead; a reuse ends
  the grant; scopes and client never change from the authorization on.
* Revocation: the presented token and its relatives are dead when the call
  returns, and nothing else is touched.
* PKCE and OpenID Connect sessions: a code issued with a challenge is never
  redeemed without its verifier; an ID token belongs to the code's request.
* Device flow: tokens only after the user's approval, with what was approved,
  once.  A user code should lead to the device that shows it, which is up to the
  store (section 7).
* Authorize endpoint: an answer has every part that was asked for, everything the
  token endpoint will look for is stored, and it goes to a registered redirect
  URI; no code without the PKCE challenge that is demanded.
* PAR: a request URI is used once, by the client it was pushed for, and what was
  pushed is not overruled by what the browser adds.
* Assertions: a JWT ID is accepted once.
* Introspection: active only if the token was good at one moment of the call,
  inactive only if it was not; never an expiry later than what was issued.
* ID tokens: hashes belong to the response, every token of a grant tells of one
  authentication, and none is expired when it is issued.
* JWT access tokens: accepted only if signed and unexpired, and read back as granted.
* Direct grants and client authentication: a call acts for a client only with the
  proof its registration asks for, gets only what is registered, and leaves
  nothing behind when it is refused.
* Store: methods are atomic, no two goroutines meet in a map, none waits forever.
* Scope strategies: agreement with what they are documented to mean.

## 2. Plan

| step | module | subject | state |
|---|---|---|---|
| A | `TokenStore` | the token tables of `MemoryStore` | done |
| B | `TokenLifecycle` | exchange, refresh, reuse, replay, revocation over A; proofs | done |
| D | `CodeExchange` | the dispatch over all token endpoint handlers: code, PKCE and OpenID Connect sessions; proofs | done |
| E | `DeviceFlow` | device and user codes, polling, approval, over B; proofs | done |
| F | `ClientAssertions` | client assertions and JWT bearer grants: keys and their cache, expiry, JWT IDs, with a clock; proofs | done |
| G | `AuthorizeEndpoint` | the authorize endpoint with its six handlers, and the pushed requests; proofs | done |
| H | `StoreLocks`, `AtomicStore` | the mutexes inside `MemoryStore`, and that A's atomic methods are what they implement; proofs | done |
| J | `TokenValidity` | B with a clock: shared sessions, lifespans, secret rotation, introspection; proofs | done |
| I | `JwtTokens`, `IdTokens` | claims, signing and validation of JWTs; prompt rules and ID tokens; proofs | done |
| K | `TokenEndpoint` with `ErrorValues`, `ClientAuthentication`, `ScopeMatching`, `Composition` | direct grants and revocation as endpoints; proofs | done |
| L | `TransactionalExchange` | store failures and rollback with a transactional store | not started |
| N | `RedirectMatching`, `AudienceMatching` | string side of URI comparison | not started |

An abstract grant above B was planned as step C and given up: what it would say
(pending, live, ended, and never back) is what `TokensOnlyAge`, `CodeRedeemedOnce`
and `EndedGrantStaysDead` say, which are proved.

The modules build on one another as follows: `TokenLifecycle`, `StoreLocks` and
`AtomicStore` extend `TokenStore`; `CodeExchange`, `DeviceFlow` and `TokenValidity`
extend `TokenLifecycle`; `IdTokens` extends `JwtTokens`; `TokenEndpoint` extends the
four modules beside it.  `ClientAssertions` and `AuthorizeEndpoint` stand alone.

The theorems about a module `M` are in `MProofs`, but for `CodeExchange` and
`TokenValidity`: theirs are in `ExchangeAndValidityProofs`, which builds on
`TokenLifecycleProofs`, whose lemmas hold of every step of the modules that extend
`TokenLifecycle`.

No proof of a safety or action property of a run is open; section 14 says what is
left to TLC.

## 3. `TokenStore`

One operator for each method of `MemoryStore` on the token tables, and the
tables as variables:

| variable | field |
|---|---|
| `authorizeCodes` | `AuthorizeCodes` |
| `accessTokens`, `accessTokenRequestIDs` | `AccessTokens`, `AccessTokenRequestIDs` |
| `refreshTokens`, `refreshTokenRequestIDs` | `RefreshTokens`, `RefreshTokenRequestIDs` |

Signatures are model values: a code has the name of its authorize request, a
token the name of the call that generated it.  That tokens never collide is
the only thing assumed about the cryptography.  A stored request keeps its ID,
client and granted scopes; the session, the requested scopes and the form are
left out (the response type of the form stays, for the hybrid flow).

## 4. `TokenLifecycle`

Actions are store methods with the code between them up to the next method:

| actions | code |
|---|---|
| `Authorize` | authorize endpoint, code flow and hybrid flow (`code token`) |
| `ExchangeGet`, `ReplayRevokeAccess`, `ReplayRevokeRefresh` | `flow_authorize_code_token.go`, phase 1 |
| `ExchangePopulate`, `ExchangeInvalidate`, `ExchangeCreateAccess`, `ExchangeCreateRefresh` | phase 2 |
| `RefreshGet`, `ReuseDelete`, `ReuseRevokeRefresh`, `ReuseRevokeAccess` | `flow_refresh.go`, phase 1 and reuse handling |
| `RotateRevokeRefresh`, `RotateRevokeAccess`, `RefreshCreateAccess`, `RefreshCreateRefresh` | phase 2; `RotateRefreshToken` is two store methods and so two actions |
| `RevokeGetRefresh`, `RevokeGetAccess`, `RevokeRefresh`, `RevokeAccess` | `revocation.go` |
| `Drop` | a call that ends between its two phases (`access_request_handler.go:98`) |

`pc[k]` is where call `k` stands.  A call that is refused before it writes is
a stuttering step.  Two variables are history: `raced` collects the requests
for which two calls ever overlapped, `ended` those whose tokens a call has
finished revoking.

The model assumes that the application grants no further scopes between the
two phases.  Expiry is left out here
(`TokenValidity` adds it); an expired token is one more refusal.

### Runs

| run | instance | checks |
|---|---|---|
| `token_lifecycle` | 2 requests, 3 calls, 2 clients, 147,715 states | all properties below that are not marked |

Three calls for one request are an exchange, a rotation and a reuse, a replay or a
revocation, in a row and in every overlap; two requests are what it takes to
touch a grant that is not one's own.  Four calls for two requests and five for
one were explored as well and give the same results.  Calls are a bounded
supply, so the runs end in states without a successor and set
`CHECK_DEADLOCK FALSE`; no action of a handler waits for another call.  Symmetry
is over the calls.

`DetectionEndsGrant` needs fairness and is checked with the whole pipeline, in
section 6.

### Properties

For every interleaving (`*`: proved only, as the run has nothing to add):

* `TokensBoundToGrant`: a stored token has the client and exactly the scopes of
  its authorization.
* `TokensConsumeCode`: a request with a token from the token endpoint has no
  redeemable code.
* `RefreshTokensEligible`*: refresh tokens only for clients and grants that may
  have them.
* `TokensOnlyAge`: a consumed code is never redeemable again.  A token that its
  response has stored stays as it is until it is deleted (a refresh token may be made
  inactive first, and is never active again), and a deleted one never comes
  back: no second create and no write-back of a revocation that has read it
  before revives it.  An active refresh token is never deleted.
* `IdleGrantUntouched`*: a step changes tokens only of requests a call is
  working for.

For requests that no two calls ever overlapped on (`raced`): `CodeRedeemedOnce`,
`RotationReplaces`, `PresentedTokenDead`, `EndedGrantStaysDead`, and under
fairness `DetectionEndsGrant`.  With overlapping calls they do not hold, and
that is what the code does: phase 1 reads, phase 2 writes, and neither is
conditional on what the other call has done.

### Where documentation and code part

No run is spent on the following; each shows when the property or the situation is
added to a run.

* `ReplayRevokesAllTokens` (in the module).  `flow_authorize_code_token.go:40` says a
  replayed code revokes all tokens of the request.  A hybrid request has two live
  access tokens after the exchange and the index of `MemoryStore` knows one, so the
  front-channel token survives (1 request, 4 calls).
* `revoke_handler.go:29` ("cannot be used again after the revocation"): likewise for
  the front-channel token of an exchanged hybrid request.
* `flow_refresh.go:56` ("All related tokens have been revoked"): after two overlapping
  refreshes two refresh tokens are active and the index knows one.

## 5. Proofs about `TokenLifecycle`

All theorems are of the form `Spec => []P` or `Spec => P` and hold for any
sets of requests, calls, clients and scopes, any client registration and any
refresh scopes, under the assumptions `TokenStore` and `TokenLifecycle` name:
`None` is not a token, a request or a session, requests and calls have different
names, and registrations are well-typed.

| module | theorem | property |
|---|---|---|
| `TokenLifecycleProofs` | `TypeCorrect` | `TypeOK` |
| | `TokensAreBound` | `TokensBoundToGrant` |
| | `TokensImplyConsumedCode` | `TokensConsumeCode` |
| | `RefreshTokensAreEligible` | `RefreshTokensEligible` |
| | `CodeIsRedeemedOnce` | `CodeRedeemedOnce` |
| | `RotationAlwaysReplaces` | `RotationReplaces` |
| | `PresentedTokensDie` | `PresentedTokenDead` |
| | `EndedGrantsStayDead` | `EndedGrantStaysDead` |
| | `TokensAge` | `TokensOnlyAge` |
| | `DeletedAccessTokensStayAway` | its consequence over whole runs: a token that was in the table and is gone is never there again |
| | `DeletedRefreshTokensStayAway` | the same for refresh tokens |
| | `IdleGrantsUntouched` | `IdleGrantUntouched` |

None of the properties is inductive alone.

* `GrantInv` adds to the three grant properties what a call carries between its
  phases: the request a running call holds is the one of the code, and its code
  is consumed from `code_create_at` on.
* `SerialInv` holds for requests outside `raced`.  It says that at most one
  call is in flight, which tokens are live at each step of that call, and that
  the indexes lead to them.  `FreshInv` says that a call that has not stored
  its token owns no table entry, so a create never overwrites.
* `IndexInv` says that an index entry leads to a token of its own request or
  to none.  Without it, revoking by request ID could touch another request.

The three safety invariants are proved inductive one action at a time, and
TLC found nothing against them on the instances above before they were proved.

`DetectionEndsGrant` is a liveness property under fairness and is checked by
TLC only.

## 6. `CodeExchange`

`NewAccessRequest` calls `HandleTokenEndpointRequest` of every handler that
feels responsible, and `NewAccessResponse` calls `PopulateTokenEndpointResponse`
of every handler; an error other than `ErrUnknownRequest` ends the call.  With the
order of `compose/compose.go`, a call with a code runs

1. the code handler, phase 1 (`Exchange`; a replay goes straight to `Core`),
2. PKCE, phase 1: read the session (`PKCEGet`), then delete it and verify
   (`PKCEVerify`),
3. the code handler, phase 2 (`Core`, which is the `Continue` of
   `TokenLifecycle`),
4. OpenID Connect, phase 2: read the session and look at it (`IDTokenGet`), then
   delete it and issue the ID token (`IDTokenIssue`).  What is wrong with the
   session itself (`flow_explicit_token.go:30` to `50`) ends the call before the
   delete and leaves the session behind; a failure of `IssueExplicitIDToken` comes
   after it.

A refresh runs the refresh handler and then `IDTokenRefresh`.  The module
EXTENDS `TokenLifecycle`; `stage[k]` is the handler a call is in, and while that
is a handler of `TokenLifecycle`, `pc[k]` is the place in it.  A refusal by PKCE
is the step `Drop` of `TokenLifecycle`: for the code handler the call just
ends.

`pkceSessions` and `idSessions` are the tables `PKCES` and `IDSessions`.  A
challenge is a pair of a transformation and a verifier, so that "the hash of `v`"
and "`v` itself" are different values; `Malformed` are the verifiers that fail
the format checks.  `issuable` says whether `GenerateIDToken` will accept the
nonce, prompt and `max_age` the authorize request came with.  `asked` and
`refused` are history.

| run | instance | checks |
|---|---|---|
| `code_exchange` | 1 code, 3 calls of any kind, PKCE enforced, a good and a malformed verifier, weak fairness, 192,379 states | all properties below that are not marked |
| `code_exchange_challenge` | 1 code, 2 calls, PKCE not enforced | `ChallengeIsVerified` is violated |

Three calls show every pair of overlapping exchanges together with a third that
comes after both, and an exchange, a refresh and a reuse.  A challenge may be
that of either verifier, so a well-formed verifier can be the right one or a
wrong one.  PKCE sessions of different codes never meet, so one code is enough;
that the token tables keep two codes apart is `IdleGrantUntouched`.  The theorems
below cover any number of codes, calls and verifiers.

Fairness is weak fairness of the running calls' next steps: a handler is
straight-line code over store methods that return.  Nothing makes a client
call.  There is no symmetry, as the run has liveness properties.

* `VerifierProven`: where PKCE is enforced for the client, a call that consumes a
  code has shown the verifier of the challenge.
* `SessionsFollowCode` (proved only): a consumed code has no PKCE session, and a redeemable code
  granted `openid` still has its OpenID Connect session.
* `RefusedNeverRedeemed`: PKCE deletes its session before it verifies, so where it
  is enforced a code is worth nothing after one wrong verifier, unless two calls
  overlapped (then both may have read the session).
* `IDTokenBound`: an ID token goes out only with stored tokens, for `openid` grants,
  and with the client and the scopes of the authorization.
* `DetectionEndsGrant` of `TokenLifecycle`: once a replay or a reuse is detected for
  a code-flow request that nobody races for, all its tokens are eventually dead
  (under fairness).

Finding, `ChallengeIsVerified`.  `pkce/handler.go:128` says the method bound to
the code must be used to verify the verifier.  After a call with a wrong
verifier the PKCE session is gone and the code still active; a call without a
verifier is then treated like one for a code that never had a challenge, and
succeeds unless PKCE is enforced.

### Proofs

`ExchangeAndValidityProofs` shows `ExSpec => Spec` (`ExchangeImplementsLifecycle`): every
step of the pipeline is a step of `TokenLifecycle` or leaves its variables alone,
so all theorems of section 5 hold for the pipeline.  On top of that:

| theorem | property |
|---|---|
| `ExTypeCorrect` | `ExTypeOK` |
| `VerifiersAreProven` | `VerifierProven` |
| `SessionsFollowTheCode` | `SessionsFollowCode` |
| `IDTokensAreBound` | `IDTokenBound` |
| `RefusedCodesStayUnredeemed` | `RefusedNeverRedeemed` |

The inductive invariant `ExInv` says what a call may rely on at each stage
(`StageOf`): what it has read is what the authorize request asked for, and once
PKCE has let it pass, the PKCE session is gone and, where enforced, the verifier
matches.  It uses `GrantInv` for the code of a running call.  `RefusedInv`, for
the last theorem, also needs `SerialInv`: no other call can be past PKCE when a
call is refused, unless the two overlapped.

## 7. `DeviceFlow`

The device grant over the tables and the refresh and revocation handlers of
`TokenLifecycle`.  A device request is an element of `AuthReqs`, which is its
request ID and its device code as well; user codes are a set of their own, as
they are short and two devices may draw the same one.

| actions | code |
|---|---|
| `DeviceAuthorize` | one turn of the loop of `handler/rfc8628/auth_handler.go` that draws a user code and stores the request, at most `MaxAttempts` of them |
| `UserDecides` | the login application: it looks up the user code, accepts (with scopes) or rejects, and may create the OpenID Connect session |
| `Expire` | the lifespan of both codes ends |
| `Poll`, `DeviceReplayAccess`, `DeviceReplayRefresh` | phase 1 of `handler/rfc8628/token_handler.go`, and `revokeTokens` after a replay |
| `DevicePopulate`, `DeviceInvalidate`, `DeviceCreateAccess`, `DeviceCreateRefresh` | phase 2 |
| `DeviceIDTokenGet`, `DeviceIDTokenIssue` | `handler/openid/flow_device_token.go` |
| `BeginOther`, `Core` | the same call is a refresh or a revocation, of `TokenLifecycle` |

`stage[k]` is the step of the device handlers a call is in, and `pc[k]` that of
the others.  `MemoryStore` keeps device requests by pointer, so the application
decides on the same record that a poll reads: `devices` is one table.

The store is a parameter.  With `ContractStore = FALSE` it is `MemoryStore`, which
overwrites the entry of a user code in use and deletes an invalidated device
code.  With `TRUE` it is any store that remembers invalidated device codes, as the
comments of `handler/rfc8628/storage.go:24` and `32` ask, and that may or may not refuse
a user code in use.  `storage.go` says nothing of that refusal; only the loop of
`auth_handler.go:59`, which reacts to `ErrExistingUserCodeSignature`, is ready for it.
The difference is one conjunct in each of `DeviceAuthorize` and
`InvalidateDeviceCodeSession`.

The application is outside the repository.  Its state change is what
`integration/authorize_device_grant_request_test.go:153` to `157` does: it sets the state
of the stored request and may store an OpenID Connect session for it; granting scopes
is the application's as well.  The test finds the request by the signature of the
device code, which it has at hand; a user only has the user code, so the model goes
by the entry that `MemoryStore` keeps for it.  That the application decides once, and
only before the codes expire, is assumed.

### Runs and properties

| run | instance | checks |
|---|---|---|
| `device_flow` | contract store, 2 devices, 2 user codes, 2 calls, 604,109 states | all properties below that are not marked |
| `device_replay` | contract store, 1 device, 2 calls | `DeviceReplayRevokesTokens` is violated |

Two devices are what a collision of user codes takes; with the contract store the
second device may take the entry over or be refused one, two or three times, and
find a free code in between.  Two calls
are two overlapping polls, a poll and a replay, or a poll and a refresh or
revocation of its tokens.  The contract store is the harder one for the handlers,
as a replay and a refused user code are branches of their own there; one device and
three calls with `MemoryStore` were explored as well, and the theorems below cover
both stores.  The runs stop when the calls are used up (`CHECK_DEADLOCK FALSE`).

* `DeviceTokensApproved`: every stored token, refreshed ones included, has client
  and scopes of a request that the user accepted.  State, scopes and client are
  read in different phases while the user may be deciding.
* `TokensConsumeDeviceCode` (proved only): as long as a device code can be redeemed there is no
  token for it; the order of invalidation and creation makes this survive a
  call that stops anywhere.
* `DeviceCodeRedeemedOnce`: unless two polls for it overlapped, a device code is
  redeemed once, also with a store that forgets it.
* `DeviceIDTokenBound` (proved only): an ID token follows stored tokens and says what they say.

### Finding, and where documentation and code part

`DeviceReplayRevokesTokens`: also with a store that remembers, the handler revokes by
`requester.GetID()` before it has adopted the ID of the stored request.  That is a
fresh ID, and no token has it.

Not given a run of their own:

* `ConsentReachesItsDevice`: what the user of one device decides is about the request of
  that device.  `auth_handler.go:59` says its retries are there "because we need to ensure
  uniqueness of user codes".  `MemoryStore` overwrites the entry of a user code in use
  (`memory.go:538`) and never returns `ErrExistingUserCodeSignature`, so the loop has
  nothing to react to, and the user of the first device decides about the request of
  the second.  It shows with `ContractStore = FALSE`, 2 devices, 1 user code and 1 call.
  No theorem is about this property: it holds for a store that refuses every user
  code in use, and the repository has none.
* `IssuedDeviceDropsSession` with `MemoryStore`.  The OpenID Connect session is stored
  under the signature of the device code and deleted under the code itself.
* `storage.go:32` asks that an invalidated device code stays known as invalid, and
  `MemoryStore` deletes it instead: that is one difference between the two
  stores, and why the finding on replays needs the contract store to show.

### Proofs

`DeviceFlowProofs` proves the four safety properties and the type invariant for
any sets, any client registration and either store.

| theorem | property |
|---|---|
| `DeviceTypeCorrect` | `DeviceTypeOK` |
| `DeviceTokensAreApproved` | `DeviceTokensApproved` |
| `TokensConsumedDeviceCode` | `TokensConsumeDeviceCode` |
| `DeviceIDTokensAreBound` | `DeviceIDTokenBound` |
| `DeviceCodeIsRedeemedOnce` | `DeviceCodeRedeemedOnce` |

`DeviceInv` joins to the types that all tokens, and all requests that a call
of the other handlers carries, come from accepted requests (`TokensGranted`), that
a decided request is a stored one (`DeviceOf`), and what a call may rely on at
each stage (`StageOf`, `IDTokenOf`).  The step lemmas rest on two facts about a
device request: once accepted it never changes its client and scopes, and a
device code that was invalidated never comes back (`DeviceKept`).  For the steps
of refresh and revocation the lemmas of `TokenLifecycleProofs` are reused.
`SoloInv`, for `DeviceCodeIsRedeemedOnce`, says that a call past phase 1 is alone
with its device code unless the code is in `overlapped`.

## 8. `ClientAssertions`

A client may authenticate with a JWT that it signs (`private_key_jwt`), and a
JWT of a trusted issuer may be a grant of its own (RFC 7523).  Both go through
the same table of used JWT IDs.

| actions | code |
|---|---|
| `Present` | `DefaultClientAuthenticationStrategy` up to the keys; the grant handler up to the claims |
| `Resolve`, `Fetch`, `Store` | `findClientPublicJWK`, `findPublicKey` and the JWKS fetcher: cached set, HTTP answer, write to the cache; a second fetch if the set has no key to try; the signature |
| `Verify` | the claims that are compared with the clock; for a grant also the audience |
| `Lookup` | `ClientAssertionJWTValid`, `IsJWTUsed` |
| `Mark` | `SetClientAssertionJWT`, `MarkJWTUsedForTime`; the audience of a client assertion, which is checked when the ID is already used up |
| `Tick`, `Rotate`, `Evict` | the clock, a client that changes its keys, the cache library |

A key set is a list, and `Search` is `findPublicKey`: of the keys with the key ID
that the assertion names, or of all keys if it names none, it takes the first.  The
parser then checks the signature with that key and tries no other.  So a set that
has some candidate ends the search, also if the candidate is the wrong key, and only
a set without one is fetched again.  The lists hold keys for signatures of the
right type; what `findPublicKey` filters out before is left out.

Every step reads the clock anew.  The clock advances in half seconds because
`exp` is in whole seconds, some comparisons cut the clock down to seconds, and
others do not.  With `IDOptional` (`GrantTypeJWTBearerIDOptional`) a grant without a
JWT ID is accepted and marks nothing.  Clients whose keys are registered with them
(not by location), `iat` and `nbf` are left out.

| run | instance | checks |
|---|---|---|
| `client_assertions` | 2 calls, 2 clients, 2 keys, 2 key IDs, 3 key sets, 4 assertions with one JWT ID or none, 4 moments, 462,553 states | the properties below |

Two calls are what a race for an ID or for a cache entry takes.  The clock runs
from before the expiry to past the second of the expiry.  The wrong audience
and a second client, which does not name its key, are one assertion, a grant and a
grant without an ID one each.  The key sets are the right key with another one behind
it, the other one alone, and the other one under the key ID of the right one.

* `UsedUntilExpiry`: an ID, where there is one, is accepted again only after the
  assertion that used it has expired, in whatever order calls look IDs up and mark
  them.
* `KeyOfIssuer` (proved only): a client is authenticated by a key that it has published itself,
  however fetches, evictions and late answers mix in the cache.
* `PublishedKeyFound`: a call is refused for want of its key only if the key was
  not published all the time, and for a wrong signature only if the client has at
  some time published another key that the assertion may mean (`Ambiguous`): one with
  the same key ID, or any if the assertion names none.  The second half is where the
  cache does lock a client out: a stale key under a reused ID, or any stale key for an
  assertion without one, is a candidate, so the set is not fetched again until the
  cache evicts it.  And of two published keys an assertion without a key ID is only
  tried with the first.  No document says otherwise, so this is no finding.

`ExpiredNotReplayed`, which no run checks, does not hold.  `client_manager.go:19` says that an expired ID
may be forgotten because the assertion cannot be replayed.  The store goes by
the full clock and `MapClaims.Valid` by whole seconds: between the first moment
of the second `exp` and its end the ID is forgotten and the assertion still
valid.

`ClientAssertionsProofs` proves the properties and the types (`AssertionsTypeCorrect`,
`IDsAreUsedUntilExpiry`, `KeysAreTheIssuers`, `PublishedKeysAreFound`) for any sets
and bounds.  `JTIInv` adds to `UsedUntilExpiry` that the ID of an accepted
assertion, if it has one, is in the table with its expiry as long as it has not
expired.  `KeyInv` says that every set in the cache or on its way was published by the
client of its location, that a call for whose assertion a set on its way offers nothing
is in `withheld`, and that a call past its keys has found one its client published.

## 9. `AuthorizeEndpoint`

An authorization begins with the form of a browser, which either is the whole
request or names one that the client has pushed before.

| actions | code |
|---|---|
| `Push` | `NewPushedAuthorizeRequest` and the PAR handler: the checks, and `CreatePARSession` |
| `Direct` | `NewAuthorizeRequest` for a form without a `request_uri` of a pushed request |
| `GetPAR`, `DeletePAR` | `authorizeRequestFromPAR`: the read with the merge, and the delete with the comparison of the clients |
| `Consent` | the application, which grants some of the scopes or refuses |
| `Explicit`, `Implicit`, `OIDCExplicit`, `OIDCImplicit`, `Hybrid`, `PKCE` | the handlers, in the order of `compose.go` |
| `Finish` | the end of `NewAuthorizeResponse`, and the answer |

`stage[k]` is where call `k` is; `asked`, `req`, `granted`, `resp` and `outcome` are
its form, its `AuthorizeRequest`, its grant, its response and what is written to the
browser.  `codes`, `accessTokens`, `idSessions` and `pkceSessions` are what a call
has stored.  What one call stores is keyed by random values that no other call
knows, so these tables are indexed by the call, and the writes of one handler are
one step: nobody could observe the moment between them.  A failure between them
is a branch of the step that leaves the first write behind.  The calls meet in
`parSessions` only, where the read and the delete are two steps.

The checks of a form are operators.  `Accepted` says that
`newAuthorizeRequest` accepts it, `NewRequest` is the request it makes of it, and
`ErrorRedirect` says where the error of another form goes.  A request object is
`valid` or not and may replace the scopes and the redirect URI, the two claims
that the checks after it read in an order that matters; that it may replace any
other parameter is abstracted into the forms.  `fine` stands for the checks that
only look at their own parameter (state, prompt, resource, registration).
`Match` compares redirect URIs as wholes; loopback URIs, where the port may differ,
are left out, and so are custom response modes.  `ValidatePrompt`
and the making of an ID token may refuse at will, as they depend on the session
that the application made.  Errors of the store are left out.  The registration
of a client does not change: a call works with the client it has read.  `Push`
takes the client of the form for the one that has authenticated; the code
compares the two only where the authentication method reads the form.

| run | instance | checks |
|---|---|---|
| `authorize_endpoint` | 2 calls, 2 clients, 1 request_uri, 4 pushed forms, 30 forms, with and without enforcement of pushed requests, 237,430 states | the properties below |

Two calls are what a race for a request_uri takes; calls share nothing else.  A
request_uri is random and used once, so that a second one would be a second
copy of the run.  The forms are one of each kind that a check or a handler tells
apart: every response type, each way to be refused, and with a request_uri the
form of either client with each redirect URI or none.  PKCE is enforced for
public clients, of which there is one; the theorems hold for every setting.  The
run ends when the calls are done (`CHECK_DEADLOCK FALSE`).  Symmetry is over the
calls.

* `PushedUsedOnce`: two calls work on one pushed request only if the second has read
  it before the first had deleted it.  A call that is refused because its client
  is another one has used it up as well.
* `PushedGoverns` (proved only): client, response types, mode, redirect URI and scopes of an
  answer are the pushed ones, whatever form presented them; where pushed requests
  are enforced every answer is one to a pushed request.
* `AnswerComplete`: a response that goes out has all parts that were asked for, and
  the stores have the code, the access token, the OpenID Connect session and
  the PKCE session that belong to it, and no others.
* `CodeDemandsProof`: the PKCE handler runs after the code is stored and in four
  flows; no code goes out without the challenge that is demanded.
* `AnswerReachesClient`: answers and errors go to a redirect URI that is registered
  for the client of the request, a token never goes into a query, and the
  redirect URI in a stored code is where the code went, unless a pushed request
  left that parameter to the browser.

`EnforcedIsPushed`, which no run checks, does not hold.  `config_default.go:577` says that where pushed requests
are enforced, a client cannot pass parameters at the authorize endpoint.  `Merge`
writes the pushed parameters over the browser's form, so what the pushed form does
not have (redirect_uri where the client has just one, nonce, code_challenge) is
taken from the browser.

`AuthorizeEndpointProofs` proves the properties for any sets of calls, clients
and forms, any registrations and any setting of the configuration.

| theorem | property |
|---|---|
| `TypesKept` | `AuthorizeTypeOK` |
| `UsedOnce` | `PushedUsedOnce` |
| `Governs` | `PushedGoverns` |
| `Complete` | `AnswerComplete` |
| `Proofs` | `CodeDemandsProof` |
| `Reaches` | `AnswerReachesClient` |

The inductive invariant `IInv` has a part about the table and its calls, and one
about a single call.  `TableOK` and `LinkOK` say that the table holds requests that
were validated, that the request of a call is the merge of its form with a pushed
one, and that the pushed one is gone once the call has left `par_delete`.
`WorkOK(k, s)` is the contract between the handlers: what is in the response, and
with it in the stores, when handler `s` is reached, for each kind of response type
(`Issued`, `HasIDSession`).  `Frame` says that a step of one call keeps both for
every other; `Failing` and `Passing` reduce the step of a handler to `WorkOK` for
the next one.

## 10. `AtomicStore` and `StoreLocks`

Every module above takes it for granted that a store method is one step.
`AtomicStore` says what that means: at some moment between its call and its
return a method changes the tables all at once, and what it returns is what it
found at that moment.  `StoreLocks` is the inside of `storage/memory.go`: each
method as the sequence of its lock requests, its accesses to the maps and its
deferred unlocks, and goroutines that interleave at every one of them.

| in the model | code |
|---|---|
| `Readers`, `Writers`, `Programs` | the methods: one map under its mutex, or the listed steps; the mutex has the name of the map |
| `Announce`, `Acquire`, `Release` | `Lock` and `Unlock` of `sync.RWMutex`: a writer that waits keeps new readers out, and `Unlock` lets in the readers that came meanwhile |
| `Enter`, `Admitted`, `Leave` | `RLock`, with and without waiting, and `RUnlock` |
| `PutAccess` ... `DeactivateRefresh` | one access to a map of the token tables |
| `Touch` | an access to any other map, of which only its place matters |
| `Call`, `Proceed` | the handler that calls, and the return |

`RevokeAccessToken` calls `DeleteAccessTokenSession` while it holds the readers'
lock of the index; `RotateRefreshToken` calls two methods and is two methods for
the refinement as well.

`Atomic` is the refinement mapping: a `Create` takes effect with its first write,
and while it is on its way to the second its request ID counts as indexed.  The
run checks `Atomic!AtomicSpec` as a property.

| run | instance | checks |
|---|---|---|
| `store_locks` | 3 goroutines that call forever: one creates, one rotates and deletes, one creates, reads and changes a client; 1 request, 164,813 states | deadlock, and the properties below |

Three goroutines are a holder, a waiting writer and a reader that the writer keeps
out.  The methods left out of the instance take one mutex each, as those in it do.
A reversed lock order in one method shows as a deadlock, which this run does not
switch off.

* `NoConcurrentMapAccess`: no two goroutines are about to use one map, one of them
  writing; Go aborts the process when that happens.
* `StoreIsAtomic`: the refinement.
* `EveryCallReturns`: no method waits forever.

Fairness: weak for every step, as the Go scheduler runs what can run; strong for
`Announce`, as `sync.Mutex` (which orders the writers inside an `RWMutex`) hands
over to the longest waiter once it has starved for a millisecond.

`SetTokenLifespans` (`memory.go:205`) writes a field of a client while it holds the
readers' lock.  That is no access to a map and not a matter of any of the three
properties; two such calls at once are a data race.

### Proofs

`StoreLocksProofs` proves for every set of goroutines, requests and `UsedMethods`:

| theorem | states |
|---|---|
| `LocksTypesKept` | `LocksTypeOK`: types, a writer is alone, who waits asks for that mutex |
| `MapsAreNotShared` | `NoConcurrentMapAccess` |
| `MethodsAreAtomic` | `StoreIsAtomic`: `LocksSpec` implements `AtomicSpec` |

What makes them true is the order of the operations in each method, which is
data here.  `Regular` says it of the rest of a method: no operation comes twice, a
lock is followed by its unlock, a map access has the unlock of its mutex behind it
and the lock no more, the second write of a `Create` comes right after the first, and
so on; `Complete` says how a method begins.  `ProgramRegular` goes through the methods
once, `TailRegular` shows that a step keeps `Regular`, and nothing after that looks at
a method again.  The inductive invariant `LocksInv` is

* `LocksTypes` and `RegularInv` (every goroutine has a regular rest);
* `MutexInv`: a writer is alone, who is kept out is not in and waits for just this
  mutex;
* `HoldInv`: who has an unlock left, and no longer its lock, holds the mutex.  This
  is what ties the text of a method to the state of the mutexes;
* `FoundInv`: the signature `RevokeAccessToken` has found is still the one in the
  index when it deletes the token.  `HoldInv` keeps it, for the index is held for
  reading.

For the refinement, `OneIndexes` shows that at most one goroutine is between the
two writes of a `Create` and that nobody reads the index then, so the mapping has
two cases (`AccessMapped`, `RefreshMapped`).  There is one lemma for each access:
`PutAccessSteps` to `DeactivateSteps` map it to a method of `AtomicStore`,
`ReturnSteps` maps the last unlock to `Take`, and `WaitStutters`, `CallStutters` and
`IndexStutters` show that the rest leaves the abstract state alone.

## 11. `TokenValidity`

`TokenLifecycle` with time.  Every step is a step of `TokenLifecycle` together with
its effect on the sessions, or leaves those variables alone.

| added | code |
|---|---|
| `expiresAt`, `minted` | `session.go`, `SetExpiresAt`: an object for each session, and which object a token is stored with; a refresh works on a clone, everything else on the pointer |
| `Round`, `GetEffectiveLifespan`, `TokenEndpointExpiries` | `Round(time.Second)`, `config_default.go`, `client_with_custom_token_lifespans.go` |
| `global`, `rotated`, `RotateSecret`, `RetireSecret` | the secrets of `token/hmac/hmacsha.go`, which the operator changes |
| `Inspect`, `LookUp`, `CheckExpiry`, `CheckAccessExpiry`, `ReadGlobalSecret`, `ReadRotatedSecrets`, `WriteIntrospectionResponse` | introspection: the endpoint, the bearer token that authorizes it, the token hint and its second try, and each read by itself |
| `Tick` | the clock, in half seconds |

`wasValid` and `wasInvalid` remember whether the token under inspection was good,
or was not, at some moment since the look at it began; `extended` are tokens whose
session has got a later expiry since they were stored.

| run | instance | checks |
|---|---|---|
| `token_validity` | 1 hybrid or code request, 2 calls, 1 inspection, 2 secrets, a clock of 4 half seconds, 1,405,433 states | the properties below |

Two calls are an exchange and a refresh, two exchanges, or either and a
revocation.  Two secrets are one rotation and one retirement.  Half a second is what
rounding can lose or add, and the lifespans of the instance are as short as
rounding lets them be told apart, so that each kind of token expires within the
run.  Rotation of a refresh token is with and without the clone's new expiry (the
client of the run has a negative lifespan, which keeps the old one).  The clock
starts at 3, so that no lifespan of the instance leads back to the zero time, which
`ZeroTimeAssumption` says of every instance.

* `ActiveWasValid`: "active" is said of a token that was stored, unexpired, signed with
  a configured secret and of the scopes asked for at one moment of the call,
  although the four are read one after the other.
* `InactiveWasInvalid`: "inactive" only of a token that was not.  A secret that moves
  from current to rotated between the two reads is found, because the current one
  is read first.
* `IssuedNotExtended`: sharing a session never extends a live token of the token
  endpoint, unless two calls overlapped.
* `ExpiresWithinLifespan`: a stored token expires within the lifespan that client and
  configuration set, whatever the call took.

`AccessTokenLifespanKept`, which no run checks, does not hold.  The exchange of a code
writes its expiry into the session that the front-channel access token of a hybrid
request is stored with, so that token lives longer than
`AccessTokenLifespan` says (`config_default.go`).

### Proofs

| theorem of `ExchangeAndValidityProofs` | property |
|---|---|
| `ValidityTypes` | `ValidityTypeOK` |
| `ActiveTokensWereValid` | `ActiveWasValid` |
| `InactiveTokensWereInvalid` | `InactiveWasInvalid` |
| `IssuedTokensNotExtended` | `IssuedNotExtended` |
| `TokensExpireWithinLifespan` | `ExpiresWithinLifespan` |

They hold for any number of requests, calls, secrets and introspections, any length
of a second in clock ticks and any lifespans.  Two assumptions are about time.  In the
code the zero `time.Time` means "no expiry" and lies two thousand years back; here it
is 0, so the clock starts at some `StartTime` from which no configured lifespan, which
may be negative, leads back to 0 (`ZeroTimeAssumption`).  Without it an expiry could be
computed that means "never".

The inductive invariant `ValidityInv` (theorem `ValidityInvariant`) consists of the
invariants of `TokenLifecycle` (`AllInv`), which its steps preserve by the lemmas of
`TokenLifecycleProofs`, and of

* `MintedInv`: a token is minted exactly when its call has passed the step that stores
  it, with the session that the code belongs to or, in a refresh, with the clone;
* `PhasesInv`: a call that stores tokens has generated them under a secret, and an
  exchange has set the expiry times first;
* `ExpiryInv`: the times in a session are within the longest lifespan of the client of
  its grant, and are only missing as long as no exchange has set them, or for a refresh
  token whose lifespan is negative.  A clone inherits this from the session of the
  token it was made from;
* `IssuedNotExtended` itself: only an exchange writes into a session that is shared, and
  by `SerialInv` the tokens of a request are dead or not yet there when one does, if
  no two calls overlapped;
* `LooksInv`: what an introspection knows at each step.  It has seen its token good (or
  the token was extended) unless one of the checks that are still to come is going to
  fail: an expired token stays expired, a secret that has gone from the configuration
  does not come back, and one that is no longer current is among the rotated ones, which
  are read last.  When it goes to the second table, its token was not in the first.

## 12. `JwtTokens` and `IdTokens`

`JwtTokens` is `token/jwt` as operators: how the claims of a session become the
claims of a token (a list or a joined string for the scope, a value with its Go
type for each claim), signing with each kind of key, the checks of
`ParseWithClaims` in their order, and the way back to a request.  `IdTokens` runs
them: the authorize endpoint, the exchange in the steps between which
another call can run, refresh calls, a clock and a signer that gets another key.

| actions | code |
|---|---|
| `Authorize` | `ValidatePrompt`, the implicit and the hybrid handler with their ID tokens |
| `Present`, `Generated`, `Store` | reading the code; the JWT access token; storing it |
| `Lookup`, `Bind`, `Issue` | the OpenID Connect session; `at_hash`; `GenerateIDToken` |
| `Refresh` | `flow_refresh_token.go` on a clone of the session |
| `Tick`, `RotateKey` | clock and signer |

| run | instance | checks |
|---|---|---|
| `id_tokens` | 1 request of 32 kinds, 3 calls, 2 keys, 3 seconds, 613,902 states | the properties below |
| `audience_read_back` | the same | `AudienceReadBack` is violated |

Three calls are two exchanges of one code and a refresh, or an exchange and two
refreshes in a row.  The kinds are one for each check: every response type, nonce
none, short or good, each prompt, `max_age` against each order of the two times,
and an `id_token_hint` that is fine, of another subject, or without one.  `Leeway` is 0:
the code allows `auth_time` to be five seconds ahead, and the clock of the run is
shorter.

* `IdTokenMatchesResponse`: `at_hash` and `c_hash` are those of the same response, none
  is left over from an earlier one in the shared session.
* `SameAuthentication`: subject, time and nonce are the same in every ID token of a
  grant.
* `IdTokenValidWhenIssued`: not expired when issued, and the user was there when the
  request asked for it.
* `CodeLostOnlyFor`: the complete list of reasons for which an exchange fails after the
  code is used up and the tokens are stored.
* `AcceptedWasSigned`: the stateless validator takes what the signer has signed and what
  has not expired, and no token altered in header, claims or signature.
* `ReadBackAsGranted`: it reads out of a token what was granted when it was issued.

The tokens are functions on the requests and calls that have one: `accessTokens` of
those that issued a JWT access token, `idTokens` of the responses with an ID token.
`Issued` adds one.

Finding, `AudienceReadBack`.  `introspector_jwt.go:65` says the requested audience is set
to the granted one.  `FromMap` has no case for the list that JSON makes of `aud`
(it has one for `scp`), so the request made from a token has no audience.

### Proofs

| theorem of `IdTokensProofs` | property |
|---|---|
| `IdTypes` | `IdTypeOK` |
| `IdTokenHashes` | `IdTokenMatchesResponse` |
| `OneAuthentication` | `SameAuthentication` |
| `IdTokensValid` | `IdTokenValidWhenIssued` |
| `CodeLost` | `CodeLostOnlyFor` |
| `OnlySigned` | `AcceptedWasSigned` |
| `ReadBack` | `ReadBackAsGranted` |

They hold for any authorize requests and calls, any forms and allowed prompts, any
lifespans, leeway and bound of the clock, and any sequence of key pairs.  The
assumptions say that requests and calls have different names that are not the empty
string, that no form or call is the absent value, that no key pair stands for "no
signature", that times are natural numbers, that the default lifespan of an ID token is
positive (it is an hour) and that response types are `code`, `token` and `id_token`.

None of the properties is inductive: each speaks of tokens that are out, and what a
token says was decided by a session that other handlers had written into.  The
inductive invariant `Invariant` (theorem `IdInvariant`) follows the claims through it:

* `RequestsInv`: a form that was answered was accepted (`Accepted`: `max_age`, prompt and
  the length of the nonce fit), and its session is about it (`Fits`): the subject, the
  request time, the time of authentication if the application gave one.  Nothing a
  later call writes changes that.
* `CallsInv`: the order of an exchange, and that the clone of a refresh call fits the
  form as well.
* `AccessTokensInv`, `IdTokensInv`: what a reader gets out of each token.  They rest on
  lemmas about the maps of claims: what `IDTokenToMap` and `JWTToMap` put into the map,
  JSON keeps and a reader finds (`IDTokenReads`, `AccessTokenReads`), and what
  `GenerateIDToken` leaves of the claims and why it fails (`Generates`).
* `BoundInv`, `HashesInv`: `at_hash` in the session is that of the call between `Bind` and
  `Issue`, if no other call exchanges the code.
* `AuthenticationInv`, `ClonesInv`: the first response fixes time and nonce in the
  session, and a clone takes them along.  For a refresh of an exchange that gave no ID
  token they would not be fixed; `TakenInv` and `DoneInv` say that an exchange without a
  rival that is done has given one, because the OpenID Connect session is gone only when
  a call has taken it.
* `ExpiryInv`, `LostInv`: where an expiry in the session comes from: of an ID token that
  was given, or of an exchange that failed for another reason of the list.  So an
  exchange that fails for an expired session has one of the other causes behind it.

TLC checked every conjunct of `Invariant` on the instance of `id_tokens` before it was
proved.  A step is taken apart once, into what it does to the session it writes
(`AuthorizedWith`, `IssuedWith`, `RefreshedWith`, or `Quiet` for steps that answer
nobody; lemma `StepIs`), and the lemma for each conjunct goes by those four.

## 13. `TokenEndpoint`

The grants that need no earlier request (client credentials, password, signed
assertion) and the revocation of their tokens, as calls of an endpoint: who calls,
which handlers run, what each refuses, and the status that is answered.

| module | code |
|---|---|
| `ErrorValues` | `errors.go`: an error is the chain it wraps; `errors.Is`, `ErrorToRFC6749Error`, status codes |
| `ClientAuthentication` | `client_authentication.go`: header, form or assertion, the registered method, current and rotated secrets |
| `ScopeMatching` | `scope_strategy.go`, `arguments.go`; a scope is the sequence of its parts |
| `Composition` | `compose`, `fosite.go`: the handler lists that a list of factories makes |
| `TokenEndpoint` | `access_request_handler.go`, `access_response_writer.go`, `revoke_handler.go`, `flow_client_credentials.go`, `flow_resource_owner.go`, `rfc7523/handler.go`, `revocation.go` |

`Authenticate`, `NotFound`, `RefuseRequest`, `HandleTokenEndpointRequest` and
`MarkJWTUsedForTime` are phase 1, `GrantScopes` is the application, and
`RefuseResponse`, `IssueAccessToken` and `CreateRefreshTokenSession` are phase 2.
`AuthenticateRevocation`, `DiscoverToken`, `RevokeRefreshToken` and
`RevokeAccessToken` are the other endpoint.  `Register` is the operator, who changes or
removes a client at any time: a call keeps the client it has read.  Store
methods may fail, `MaxFaults` times.

| run | instance | checks |
|---|---|---|
| `token_endpoint` | 3 calls, 2 clients with two or three registrations, 2 configurations, 10 forms, 1 JWT ID, 1 fault, 1,050,042 states | the properties below |

Three calls are two that issue and one that revokes, or one that issues and two
revocations.  The forms mix each way of authentication with clients
registered for it and for another one.  The composition names two factories
twice and two that answer for no grant of the run, and the two configurations
differ in the scope strategy, in whether assertions go without a client, and in
whether they need a JWT ID (`GrantTypeJWTBearerIDOptional`); one form has none.

* `ClientProvedItself`: a call acts for a client only with a proof the client it read is
  registered for; for no client only where the configuration allows it.
* `WithinRegistration`: what is stored is within what the client, or the key, was
  registered for, by the documented meaning of the strategy (`Meaning`, which is
  not the code's loop).
* `IssuedOnce`: one access token for a call, one call for an assertion with a JWT ID.
* `RefusedIssuesNothing`: a call that is refused leaves no access token behind, unless the
  write of its refresh token failed.
* `RevokedByItsClient`: access tokens disappear, and refresh tokens are deactivated, only
  by a revocation of their client; the
  refresh token never outlives the access token unless its own write failed.

`AcknowledgedIsRevoked`, which no run checks, does not hold.  `revoke_handler.go:79`
says 200 means that the token has been revoked or was invalid.  The handler also
answers 200 when the store has failed
(`revoke_handler.go:118`), and a retry with the refresh token finds it inactive
and answers 200 again, while the access token lives.

Two more things a reader of the code may stumble over.  Where `CanSkipClientAuth` is
set for the assertion grant, a failed client authentication becomes an anonymous
request, its grant types are not checked (`rfc7523/handler.go` checks them "if client
is authenticated"), and as no client owns the token, none can revoke it.  The
audience checks of the client credentials and password handlers see an empty list:
nothing sets a requested audience at the token endpoint.

### Proofs

| theorem of `TokenEndpointProofs` | property |
|---|---|
| `EndpointTypes` | `EndpointTypeOK` |
| `TokenEndpointClientProvedItself` | `ClientProvedItself` |
| `StoredWithinRegistration` | `WithinRegistration` |
| `AssertionIssuesOnce` | `IssuedOnce` |
| `RefusedStoresNothing` | `RefusedIssuesNothing` |
| `RevocationByOwner` | `RevokedByItsClient` |

They hold for any clients and registrations, any composition, any scopes, keys and
passwords, and any number of calls and of failing writes.  The assumptions say that
clients, requests and answers are not the absent value, that a scope has at least one
part, and that the constants are well-typed.

The inductive invariant `EndpointInv` (theorem `EndpointInvariant`) says of each call
what has been found out in each stage, until the check of the last stage is needed:
the client of the request has proved itself with the credentials of its form, the
grant of the handler whose turn it is is the one of the form, the scopes granted are
registered for the client as it was read, and what is stored is what was issued.  Of
two calls it says that they have not marked the same JWT ID, and of tokens that they
are in the table, a refresh token active, until a revocation by their client.

A list of handlers is kept as the positions of their factories.  Which handler is next
is then the least of a set of numbers, which the provers can reason about; a
list built by a fold, and what a fold keeps, is induction over data and is not.
Likewise `WithinRegistration` compares the loop of each scope strategy with its
meaning for scopes of every length.

## 14. What is proved and what is only checked

| modules | proved | checked only |
|---|---|---|
| `TokenStore`, `TokenLifecycle` | types and all safety and action properties | `DetectionEndsGrant` (fairness) |
| `CodeExchange`, `DeviceFlow`, `ClientAssertions`, `AuthorizeEndpoint` | types and all safety properties | none |
| `StoreLocks`, `AtomicStore` | types, `NoConcurrentMapAccess`, `StoreIsAtomic` | `EveryCallReturns` (fairness), deadlock |
| `TokenValidity`, `TokenEndpoint` | types, all safety and action properties | none |
| `IdTokens`, `JwtTokens` | types and all safety properties | none |

The type invariants of the proved modules are theorems and, but for
`ValidityTypeOK` and `IdTypeOK`, in no run.  Liveness stays with TLC, as do the three
counterexamples of the findings: `DetectionEndsGrant` and `EveryCallReturns` need fairness, hence
`ENABLED`, and deadlock is about `ENABLED` too, which the prover does not reason about.

## 15. Not modelled

* Network, HTTP parsing, wording of errors, translations: no state.
* Cryptography: tokens are unforgeable and unique, bcrypt is equality.
* Stores other than `MemoryStore`, but for the contract store of `DeviceFlow`: the
  interfaces of `handler/*/storage.go` allow transactional ones; step L of the
  plan.
* The string side of URI comparison (redirect URIs of loopback hosts, audience
  strategies), resource indicators, `Sanitize`: step N of the plan, or no state.
* Getters of the configuration such as `GetScopeStrategy` (`config_default.go:395`) fill
  in a default without a lock.  Two first calls at once write the same value.
* `handler/verifiable`: adds a random nonce to a response.
* Generated mocks under `internal/` and the clients under `integration/`.
