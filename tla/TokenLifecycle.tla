--------------------------- MODULE TokenLifecycle ---------------------------
(***************************************************************************)
(* The life of the tokens of an authorization: the code is redeemed        *)
(* (handler/oauth2/flow_authorize_code_token.go), refresh tokens are       *)
(* rotated (flow_refresh.go), tokens are revoked (revocation.go), and a    *)
(* code or a refresh token presented a second time takes everything down.  *)
(*                                                                         *)
(* HTTP calls run concurrently and share nothing but the store.  A call is *)
(* a sequence of store methods, so the calls interleave between any two of *)
(* them.  The store is MemoryStore, which has no transactions: the Maybe-  *)
(* BeginTx/CommitTx/RollbackTx around the writes do nothing.               *)
(*                                                                         *)
(* A call that its handler refuses before the first write changes nothing: *)
(* it is a stuttering step, and the refusals are the guards of the first   *)
(* action of the call.                                                     *)
(***************************************************************************)
EXTENDS TokenStore

CONSTANTS
    ClientScopes,       \* [Clients -> SUBSET Scopes], registered scopes
    ClientGrantTypes,   \* [Clients -> SUBSET GrantTypes], registered grants
    RefreshTokenScopes  \* Config.GetRefreshTokenScopes, {} to require none

GrantTypes == {"authorization_code", "refresh_token", "implicit", "device_code"}

ASSUME ClientAssumption ==
    /\ ClientScopes \in [Clients -> SUBSET Scopes]
    /\ ClientGrantTypes \in [Clients -> SUBSET GrantTypes]
    /\ RefreshTokenScopes \subseteq Scopes

VARIABLES
    pc,         \* the next store method of each call, or how it ended
    reqs,       \* the request each call works for, None before it starts
    presented,  \* the token a refresh or revocation call was given
    raced,      \* history: requests for which two calls overlapped in time
    ended       \* history: requests whose tokens a call has finished revoking

callVars == <<pc, reqs, presented>>
vars == <<storeVars, callVars, raced, ended>>

Token == [kind : {"access", "refresh"}, sig : AccessSignatures]

ASSUME NoTokenAssumption == None \notin Token

Running == {"code_populate", "code_invalidate", "code_create_at",
            "code_create_rt", "replay_at", "replay_rt",
            "refresh_rotate_rt", "refresh_rotate_at", "refresh_create_at",
            "refresh_create_rt", "reuse_delete", "reuse_rt", "reuse_at",
            "revoke_rt", "revoke_at"}

Returned == {"exchanged", "replayed", "refreshed", "reused", "revoked",
             "failed"}

TypeOK ==
    /\ StoreTypeOK
    /\ pc \in [Calls -> {"idle"} \union Running \union Returned]
    /\ reqs \in [Calls -> Requester \union {None}]
    /\ presented \in [Calls -> Token \union {None}]
    /\ raced \subseteq AuthReqs
    /\ ended \subseteq AuthReqs

Init ==
    /\ StoreInit
    /\ pc = [k \in Calls |-> "idle"]
    /\ reqs = [k \in Calls |-> None]
    /\ presented = [k \in Calls |-> None]
    /\ raced = {}
    /\ ended = {}

-----------------------------------------------------------------------------

\* Call k is running for request a.
InFlight(k, a) == pc[k] \in Running /\ reqs[k].id = a

Goto(k, step) == pc' = [pc EXCEPT ![k] = step]

\* Call k has read req from the store and goes on to step.  Requests with two
\* calls in flight are remembered in raced.
Start(k, req, step) ==
    /\ pc[k] = "idle"
    /\ Goto(k, step)
    /\ reqs' = [reqs EXCEPT ![k] = req]
    /\ raced' = IF \E j \in Calls : InFlight(j, req.id)
                THEN raced \union {req.id} ELSE raced

\* GetRefreshTokenScopes is empty or one of them was granted.
HasRefreshScope(scopes) ==
    RefreshTokenScopes = {} \/ RefreshTokenScopes \intersect scopes # {}

-----------------------------------------------------------------------------
(* Authorize endpoint.                                                     *)

\* The code flow and the hybrid flow.  Nobody holds the code before the
\* response is written, so the two writes of the hybrid flow are one step.
\* What is granted is up to the application, not to the library.
Authorize(a, c, granted, type) ==
    /\ authorizeCodes[a] = None
    /\ LET req == [id |-> a, client |-> c, scopes |-> granted] IN
       /\ CreateAuthorizeCodeSession(a, req, type)
       /\ \/ /\ type = "code"
             /\ UNCHANGED accessVars
          \/ /\ type = "code token"
             /\ {"authorization_code", "implicit"} \subseteq ClientGrantTypes[c]
             /\ CreateAccessTokenSession(a, req)
    /\ UNCHANGED <<refreshVars, callVars, raced, ended>>

-----------------------------------------------------------------------------
(* Token endpoint, grant_type=authorization_code.                          *)

\* Mutant: the client of the code is not compared.
ExchangeGetAnyClient(k, a, c) ==
    /\ "authorization_code" \in ClientGrantTypes[c]
    /\ \/ /\ GetAuthorizeCodeError(a) = "ErrInvalidatedAuthorizeCode"
          /\ Start(k, authorizeCodes[a].req, "replay_at")
       \/ /\ GetAuthorizeCodeError(a) = "nil"
          /\ Start(k, [id |-> a, client |-> c, scopes |-> {}], "code_populate")
    /\ UNCHANGED <<storeVars, presented, ended>>

\* HandleTokenEndpointRequest: look the code up, and either start the
\* exchange or, if the code was used before, the revocation.
ExchangeGet(k, a, c) ==
    /\ "authorization_code" \in ClientGrantTypes[c]
    /\ \/ /\ GetAuthorizeCodeError(a) = "ErrInvalidatedAuthorizeCode"
          /\ Start(k, authorizeCodes[a].req, "replay_at")
       \/ /\ GetAuthorizeCodeError(a) = "nil"
          /\ authorizeCodes[a].req.client = c
          /\ Start(k, [id |-> a, client |-> c, scopes |-> {}], "code_populate")
    /\ UNCHANGED <<storeVars, presented, ended>>

\* If an authorize code is used twice: the access token goes first.
ReplayRevokeAccess(k) ==
    /\ pc[k] = "replay_at"
    /\ RevokeAccessToken(reqs[k].id)
    /\ Goto(k, "replay_rt")
    /\ UNCHANGED <<authorizeCodes, refreshVars, reqs, presented, raced, ended>>

\* Mutant: the refresh token is left alone.
ReplayKeepsRefresh(k) ==
    /\ pc[k] = "replay_rt"
    /\ Goto(k, "replayed")
    /\ ended' = ended \union {reqs[k].id}
    /\ UNCHANGED <<storeVars, reqs, presented, raced>>

\* An error of RevokeRefreshToken goes into the hint and nowhere else.
ReplayRevokeRefresh(k) ==
    /\ pc[k] = "replay_rt"
    /\ RevokeRefreshToken(reqs[k].id)
    /\ Goto(k, "replayed")
    /\ ended' = ended \union {reqs[k].id}
    /\ UNCHANGED <<authorizeCodes, accessVars, reqs, presented, raced>>

\* PopulateTokenEndpointResponse reads the code again: any error, also that
\* of a code used in the meantime, is a server_error that revokes nothing.
ExchangePopulate(k) ==
    /\ pc[k] = "code_populate"
    /\ \/ /\ GetAuthorizeCodeError(reqs[k].id) # "nil"
          /\ Goto(k, "failed")
          /\ UNCHANGED reqs
       \/ /\ GetAuthorizeCodeError(reqs[k].id) = "nil"
          /\ reqs' = [reqs EXCEPT ![k].scopes =
                        authorizeCodes[reqs[k].id].req.scopes]
          /\ Goto(k, "code_invalidate")
    /\ UNCHANGED <<storeVars, presented, raced, ended>>

\* Mutant: the code stays active.
ExchangeKeepsCode(k) ==
    /\ pc[k] = "code_invalidate"
    /\ Goto(k, "code_create_at")
    /\ UNCHANGED <<storeVars, reqs, presented, raced, ended>>

ExchangeInvalidate(k) ==
    /\ pc[k] = "code_invalidate"
    /\ InvalidateAuthorizeCodeSession(reqs[k].id)
    /\ Goto(k, "code_create_at")
    /\ UNCHANGED <<accessVars, refreshVars, reqs, presented, raced, ended>>

\* canIssueRefreshToken is decided on the authorize request.
CanIssueRefreshToken(req) ==
    /\ HasRefreshScope(req.scopes)
    /\ "refresh_token" \in ClientGrantTypes[req.client]

ExchangeCreateAccess(k) ==
    /\ pc[k] = "code_create_at"
    /\ CreateAccessTokenSession(k, reqs[k])
    /\ Goto(k, IF CanIssueRefreshToken(authorizeCodes[reqs[k].id].req)
               THEN "code_create_rt" ELSE "exchanged")
    /\ UNCHANGED <<authorizeCodes, refreshVars, reqs, presented, raced, ended>>

ExchangeCreateRefresh(k) ==
    /\ pc[k] = "code_create_rt"
    /\ CreateRefreshTokenSession(k, reqs[k])
    /\ Goto(k, "exchanged")
    /\ UNCHANGED <<authorizeCodes, accessVars, reqs, presented, raced, ended>>

-----------------------------------------------------------------------------
(* Token endpoint, between the two phases.                                 *)

\* NewAccessRequest runs the handlers one after the other: a handler behind
\* this one refuses the call, or the application does not go on with it.
Drop(k) ==
    /\ pc[k] \in {"code_populate", "refresh_rotate_rt"}
    /\ Goto(k, "failed")
    /\ UNCHANGED <<storeVars, reqs, presented, raced, ended>>

-----------------------------------------------------------------------------
(* Token endpoint, grant_type=refresh_token.                               *)

\* HandleTokenEndpointRequest: start the rotation or, if the token is
\* inactive, the reuse handling.
RefreshGet(k, t, c) ==
    /\ "refresh_token" \in ClientGrantTypes[c]
    /\ \/ /\ GetRefreshTokenError(t) = "ErrInactiveToken"
          /\ Start(k, refreshTokens[t].req, "reuse_delete")
       \/ /\ GetRefreshTokenError(t) = "nil"
          /\ HasRefreshScope(refreshTokens[t].req.scopes)
          /\ refreshTokens[t].req.client = c
          /\ refreshTokens[t].req.scopes \subseteq ClientScopes[c]
          /\ Start(k, [id |-> refreshTokens[t].req.id, client |-> c,
                       scopes |-> refreshTokens[t].req.scopes],
                   "refresh_rotate_rt")
    /\ presented' = [presented EXCEPT ![k] = [kind |-> "refresh", sig |-> t]]
    /\ UNCHANGED <<storeVars, ended>>

\* RotateRefreshToken, first half.  The signature it is given is not used:
\* the refresh token that goes is the one the index leads to.
RotateRevokeRefresh(k) ==
    /\ pc[k] = "refresh_rotate_rt"
    /\ RevokeRefreshToken(reqs[k].id)
    /\ Goto(k, IF RevokeRefreshTokenFails(reqs[k].id)
               THEN "failed" ELSE "refresh_rotate_at")
    /\ UNCHANGED <<authorizeCodes, accessVars, reqs, presented, raced, ended>>

\* RotateRefreshToken, second half.
RotateRevokeAccess(k) ==
    /\ pc[k] = "refresh_rotate_at"
    /\ RevokeAccessToken(reqs[k].id)
    /\ Goto(k, "refresh_create_at")
    /\ UNCHANGED <<authorizeCodes, refreshVars, reqs, presented, raced, ended>>

RefreshCreateAccess(k) ==
    /\ pc[k] = "refresh_create_at"
    /\ CreateAccessTokenSession(k, reqs[k])
    /\ Goto(k, "refresh_create_rt")
    /\ UNCHANGED <<authorizeCodes, refreshVars, reqs, presented, raced, ended>>

RefreshCreateRefresh(k) ==
    /\ pc[k] = "refresh_create_rt"
    /\ CreateRefreshTokenSession(k, reqs[k])
    /\ Goto(k, "refreshed")
    /\ UNCHANGED <<authorizeCodes, accessVars, reqs, presented, raced, ended>>

\* handleRefreshTokenReuse: the presented token, then the refresh token and
\* the access token the request ID leads to; ErrNotFound is tolerated.
ReuseDelete(k) ==
    /\ pc[k] = "reuse_delete"
    /\ DeleteRefreshTokenSession(presented[k].sig)
    /\ Goto(k, "reuse_rt")
    /\ UNCHANGED <<authorizeCodes, accessVars, reqs, presented, raced, ended>>

ReuseRevokeRefresh(k) ==
    /\ pc[k] = "reuse_rt"
    /\ RevokeRefreshToken(reqs[k].id)
    /\ Goto(k, "reuse_at")
    /\ UNCHANGED <<authorizeCodes, accessVars, reqs, presented, raced, ended>>

ReuseRevokeAccess(k) ==
    /\ pc[k] = "reuse_at"
    /\ RevokeAccessToken(reqs[k].id)
    /\ Goto(k, "reused")
    /\ ended' = ended \union {reqs[k].id}
    /\ UNCHANGED <<authorizeCodes, refreshVars, reqs, presented, raced>>

-----------------------------------------------------------------------------
(* Revocation endpoint.  The hint only orders two lookups in two different *)
(* tables, so whichever comes first the token is found in its own table or *)
(* not at all; an inactive refresh token counts as not found, and then the *)
(* call returns success without a write.                                   *)

RevokeGetRefresh(k, t, c) ==
    /\ GetRefreshTokenError(t) = "nil"
    /\ refreshTokens[t].req.client = c
    /\ Start(k, refreshTokens[t].req, "revoke_rt")
    /\ presented' = [presented EXCEPT ![k] = [kind |-> "refresh", sig |-> t]]
    /\ UNCHANGED <<storeVars, ended>>

RevokeGetAccess(k, s, c) ==
    /\ accessTokens[s] # None
    /\ accessTokens[s].client = c
    /\ Start(k, accessTokens[s], "revoke_rt")
    /\ presented' = [presented EXCEPT ![k] = [kind |-> "access", sig |-> s]]
    /\ UNCHANGED <<storeVars, ended>>

\* ErrNotFound does not stop the revocation of the access token.
RevokeRefresh(k) ==
    /\ pc[k] = "revoke_rt"
    /\ RevokeRefreshToken(reqs[k].id)
    /\ Goto(k, "revoke_at")
    /\ UNCHANGED <<authorizeCodes, accessVars, reqs, presented, raced, ended>>

RevokeAccess(k) ==
    /\ pc[k] = "revoke_at"
    /\ RevokeAccessToken(reqs[k].id)
    /\ Goto(k, "revoked")
    /\ ended' = ended \union {reqs[k].id}
    /\ UNCHANGED <<authorizeCodes, refreshVars, reqs, presented, raced>>

-----------------------------------------------------------------------------

\* A step of a running call.
Continue(k) ==
    \/ ReplayRevokeAccess(k)   \/ ReplayRevokeRefresh(k)
    \/ ExchangePopulate(k)     \/ ExchangeInvalidate(k)
    \/ ExchangeCreateAccess(k) \/ ExchangeCreateRefresh(k)
    \/ RotateRevokeRefresh(k)  \/ RotateRevokeAccess(k)
    \/ RefreshCreateAccess(k)  \/ RefreshCreateRefresh(k)
    \/ ReuseDelete(k) \/ ReuseRevokeRefresh(k) \/ ReuseRevokeAccess(k)
    \/ RevokeRefresh(k) \/ RevokeAccess(k)
    \/ Drop(k)

\* The first step of a call; any client may present any code or token.
Begin(k, c) ==
    \/ \E a \in AuthReqs : ExchangeGet(k, a, c)
    \/ \E t \in Calls : RefreshGet(k, t, c) \/ RevokeGetRefresh(k, t, c)
    \/ \E s \in AccessSignatures : RevokeGetAccess(k, s, c)

Next ==
    \/ \E a \in AuthReqs, c \in Clients, g \in SUBSET Scopes,
          type \in ResponseTypes : Authorize(a, c, g, type)
    \/ \E k \in Calls, c \in Clients : Begin(k, c)
    \/ \E k \in Calls : Continue(k)

Spec == Init /\ [][Next]_vars

-----------------------------------------------------------------------------
(* Properties.                                                             *)

LiveAccess(s, a) == accessTokens[s] # None /\ accessTokens[s].id = a

ActiveRefresh(t, a) ==
    /\ refreshTokens[t] # None
    /\ refreshTokens[t].active
    /\ refreshTokens[t].req.id = a

NoLiveToken(a) ==
    /\ \A s \in AccessSignatures : ~LiveAccess(s, a)
    /\ \A t \in Calls : ~ActiveRefresh(t, a)

\* The request was made in the code flow, without a front-channel token.
CodeFlow(a) == authorizeCodes[a] # None /\ authorizeCodes[a].responseType = "code"

\* A token carries what the user granted to the client of the authorize
\* request: whatever mixture of clients and calls redeems, rotates and
\* revokes, no stored token belongs to another client or has other scopes
\* than its authorization (the client comparisons in flow_authorize_code_token
\* and flow_refresh, and the scopes both copy).
BoundTo(req) ==
    /\ authorizeCodes[req.id] # None
    /\ req.client = authorizeCodes[req.id].req.client
    /\ req.scopes = authorizeCodes[req.id].req.scopes

TokensBoundToGrant ==
    /\ \A s \in AccessSignatures : accessTokens[s] # None => BoundTo(accessTokens[s])
    /\ \A t \in Calls : refreshTokens[t] # None => BoundTo(refreshTokens[t].req)

\* As long as a code can still be redeemed, the token endpoint has issued
\* nothing for it: the code is invalidated before the first token is stored.
TokensConsumeCode ==
    /\ \A s \in Calls : accessTokens[s] # None =>
          ~authorizeCodes[accessTokens[s].id].active
    /\ \A t \in Calls : refreshTokens[t] # None =>
          ~authorizeCodes[refreshTokens[t].req.id].active

\* A refresh token exists only for a client that may use it and a grant that
\* asked for it, however many rotations lie between the code and the token.
RefreshTokensEligible ==
    \A t \in Calls : refreshTokens[t] # None =>
        /\ RefreshTokenScopes # {} =>
              RefreshTokenScopes \intersect refreshTokens[t].req.scopes # {}
        /\ "refresh_token" \in ClientGrantTypes[refreshTokens[t].req.client]

\* Unless two calls for the request overlapped, its code is redeemed once.
CodeRedeemedOnce ==
    \A j, k \in Calls :
        /\ pc[j] = "exchanged" /\ pc[k] = "exchanged"
        /\ reqs[j].id = reqs[k].id /\ reqs[j].id \notin raced
        => j = k

\* Unless two calls for the request overlapped, rotation replaces: there is
\* never a second active refresh token, nor a second live access token from
\* the token endpoint.
RotationReplaces ==
    \A a \in AuthReqs \ raced :
        /\ \A t, u \in Calls :
              ActiveRefresh(t, a) /\ ActiveRefresh(u, a) => t = u
        /\ \A s, u \in Calls :
              LiveAccess(s, a) /\ LiveAccess(u, a) => s = u

\* Unless two calls for the request overlapped, a refresh token that was used
\* to refresh, or was revoked, is dead, and so is a revoked access token of
\* the code flow.
PresentedTokenDead ==
    \A k \in Calls :
        /\ pc[k] \in {"refreshed", "reused", "revoked"}
        /\ reqs[k].id \notin raced
        => IF presented[k].kind = "refresh"
           THEN ~ActiveRefresh(presented[k].sig, reqs[k].id)
           ELSE CodeFlow(reqs[k].id) =>
                    ~LiveAccess(presented[k].sig, reqs[k].id)

\* Unless two calls for the request overlapped, a replayed code, a reused
\* refresh token or a revocation ends the grant of a code flow for good: no
\* token of it is live then, and none is issued later.
EndedGrantStaysDead ==
    \A a \in ended \ raced : CodeFlow(a) => NoLiveToken(a)

\* The response that carries an access token, or a refresh token, has stored
\* it: the authorize endpoint, or the call that the token is named after.
AccessTokenIssued(s) ==
    IF s \in AuthReqs THEN authorizeCodes[s] # None
    ELSE pc[s] \in {"code_create_rt", "refresh_create_rt"} \union Returned

RefreshTokenIssued(t) == pc[t] \in Returned

\* Codes and tokens only age, whatever calls race.  A consumed code is never
\* redeemable again.  A token is in the store only once its response has
\* stored it, and from then on it stays as it was stored until it is deleted,
\* after which it never comes back: neither a second create nor the write-back
\* of a revocation that read it before revives it.  A refresh token that was
\* made inactive is never active again, and handleRefreshTokenReuse, the only
\* one to delete refresh tokens, deletes none that is active.
CodeConsumedForGood ==
    \A a \in AuthReqs :
        (authorizeCodes[a] # None /\ ~authorizeCodes[a].active)
            => authorizeCodes'[a] = authorizeCodes[a]

AccessTokensAge ==
    \A s \in AccessSignatures :
        IF AccessTokenIssued(s)
        THEN AccessTokenIssued(s)' /\ accessTokens'[s] \in {accessTokens[s], None}
        ELSE accessTokens[s] = None

RefreshTokensAge ==
    \A t \in Calls :
        IF RefreshTokenIssued(t)
        THEN /\ RefreshTokenIssued(t)'
             /\ \/ refreshTokens'[t] = refreshTokens[t]
                \/ /\ refreshTokens[t] # None
                   /\ IF refreshTokens[t].active
                      THEN refreshTokens'[t] = [refreshTokens[t] EXCEPT !.active = FALSE]
                      ELSE refreshTokens'[t] = None
        ELSE refreshTokens[t] = None

TokensOnlyAge ==
    [][CodeConsumedForGood /\ AccessTokensAge /\ RefreshTokensAge]_vars

\* A call touches the tokens of the request it works for and no others: while
\* no call is in flight for a request, its tokens stay as they are (the two
\* request ID indexes never lead to a token of another request).
IdleGrantUntouched ==
    [][\A a \in AuthReqs :
         (authorizeCodes[a] # None /\ \A k \in Calls : ~InFlight(k, a))
            => /\ \A s \in AccessSignatures :
                     LiveAccess(s, a) => accessTokens'[s] = accessTokens[s]
               /\ \A t \in Calls :
                     ActiveRefresh(t, a) => refreshTokens'[t] = refreshTokens[t]
      ]_vars

\* Once a replay or a reuse is detected for a code-flow request that no two
\* calls race for, all its tokens are eventually dead.  (Checked over the
\* pipeline of CodeExchange, with the fairness stated there.)
DetectionEndsGrant ==
    \A k \in Calls, a \in AuthReqs :
        (/\ pc[k] \in {"replay_at", "reuse_delete"}
         /\ InFlight(k, a)
         /\ CodeFlow(a))
            ~> (a \in raced \/ NoLiveToken(a))

-----------------------------------------------------------------------------
(* What the documentation says and the code does not do (README, findings).*)

\* flow_authorize_code_token.go: "If an authorize code is used twice, we
\* revoke all refresh and access tokens associated with this request."
ReplayRevokesAllTokens ==
    \A k \in Calls :
        pc[k] = "replayed" /\ reqs[k].id \notin raced => NoLiveToken(reqs[k].id)
=============================================================================
