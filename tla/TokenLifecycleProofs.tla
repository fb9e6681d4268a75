------------------------ MODULE TokenLifecycleProofs ------------------------
(***************************************************************************)
(* Proofs about TokenLifecycle, for every set of requests, calls, clients  *)
(* and scopes, every registration of the clients and every configuration   *)
(* of the refresh token scopes.                                            *)
(***************************************************************************)
EXTENDS TokenLifecycle, TLAPS

-----------------------------------------------------------------------------
(* What the store methods do to the types of the tables.                   *)

\* RevokeAccessToken keeps the access token table well-typed.
LEMMA RevokeAccessTokenType ==
    ASSUME StoreTypeOK, NEW id \in AuthReqs, RevokeAccessToken(id)
    PROVE  /\ accessTokens' \in [AccessSignatures -> Requester \union {None}]
           /\ accessTokenRequestIDs' \in [AuthReqs -> AccessSignatures \union {None}]
BY DEF StoreTypeOK, RevokeAccessToken

\* CreateAccessTokenSession keeps the access token table well-typed.
LEMMA CreateAccessTokenType ==
    ASSUME StoreTypeOK, NEW s \in AccessSignatures, NEW req \in Requester,
           CreateAccessTokenSession(s, req)
    PROVE  /\ accessTokens' \in [AccessSignatures -> Requester \union {None}]
           /\ accessTokenRequestIDs' \in [AuthReqs -> AccessSignatures \union {None}]
BY DEF StoreTypeOK, CreateAccessTokenSession, Requester

\* RevokeRefreshToken keeps the refresh token table well-typed.
LEMMA RevokeRefreshTokenType ==
    ASSUME StoreTypeOK, NEW id \in AuthReqs, RevokeRefreshToken(id)
    PROVE  /\ refreshTokens' \in [Calls -> RefreshSession \union {None}]
           /\ refreshTokenRequestIDs' \in [AuthReqs -> Calls \union {None}]
BY DEF StoreTypeOK, RevokeRefreshToken, RevokeRefreshTokenFails, RefreshSession

\* CreateRefreshTokenSession keeps the refresh token table well-typed.
LEMMA CreateRefreshTokenType ==
    ASSUME StoreTypeOK, NEW t \in Calls, NEW req \in Requester,
           CreateRefreshTokenSession(t, req)
    PROVE  /\ refreshTokens' \in [Calls -> RefreshSession \union {None}]
           /\ refreshTokenRequestIDs' \in [AuthReqs -> Calls \union {None}]
BY DEF StoreTypeOK, CreateRefreshTokenSession, RefreshSession, Requester

-----------------------------------------------------------------------------
(* Type correctness.                                                       *)

\* Starting a call keeps the call variables well-typed.
LEMMA StartType ==
    ASSUME TypeOK, NEW k \in Calls, NEW req \in Requester, NEW step \in Running,
           Start(k, req, step)
    PROVE  /\ pc' \in [Calls -> {"idle"} \union Running \union Returned]
           /\ reqs' \in [Calls -> Requester \union {None}]
           /\ raced' \subseteq AuthReqs
BY DEF TypeOK, Start, Goto, Requester

\* A running call works for a request, and a rotation or reuse was given a
\* refresh token: what the handlers rely on when they use what they read.
CallsOK ==
    \A k \in Calls :
        /\ pc[k] # "idle" => reqs[k] \in Requester
        /\ pc[k] \in {"refresh_rotate_rt", "refresh_rotate_at",
                      "refresh_create_at", "refresh_create_rt", "refreshed",
                      "reuse_delete", "reuse_rt", "reuse_at", "reused"}
              => presented[k] \in Token /\ presented[k].kind = "refresh"
                                       /\ presented[k].sig \in Calls

TypeInv == TypeOK /\ CallsOK

\* The initial state is well-typed.
LEMMA TypeInit == Init => TypeInv
BY DEF Init, StoreInit, TypeInv, TypeOK, StoreTypeOK, CallsOK

\* Issuing a code preserves the types.
LEMMA AuthorizeType ==
    ASSUME TypeInv, NEW a \in AuthReqs, NEW c \in Clients,
           NEW g \in SUBSET Scopes, NEW type \in ResponseTypes,
           Authorize(a, c, g, type)
    PROVE  TypeInv'
<1> DEFINE req == [id |-> a, client |-> c, scopes |-> g]
<1>1. req \in Requester
  BY DEF Requester
<1>2. authorizeCodes' \in [AuthReqs -> CodeSession \union {None}]
  BY <1>1 DEF Authorize, CreateAuthorizeCodeSession, CodeSession, TypeInv,
              TypeOK, StoreTypeOK
<1>3. /\ accessTokens' \in [AccessSignatures -> Requester \union {None}]
      /\ accessTokenRequestIDs' \in [AuthReqs -> AccessSignatures \union {None}]
  <2>1. CASE UNCHANGED accessVars
    BY <2>1 DEF accessVars, TypeInv, TypeOK, StoreTypeOK
  <2>2. CASE CreateAccessTokenSession(a, req)
    BY <1>1, <2>2, CreateAccessTokenType DEF AccessSignatures, TypeInv, TypeOK
  <2> QED
    BY <2>1, <2>2 DEF Authorize
<1>4. UNCHANGED <<refreshVars, callVars, raced, ended>>
  BY DEF Authorize
<1> QED
  BY <1>2, <1>3, <1>4 DEF refreshVars, callVars, TypeInv, TypeOK, StoreTypeOK,
                          CallsOK

\* The first step of a call preserves the types.
LEMMA BeginType ==
    ASSUME TypeInv, NEW k \in Calls, NEW c \in Clients, Begin(k, c)
    PROVE  TypeInv'
<1> USE DEF TypeInv
<1>1. ASSUME NEW a \in AuthReqs, ExchangeGet(k, a, c)
      PROVE  TypeInv'
  <2>1. PICK req \in Requester, step \in Running \ {"refresh_rotate_rt", "reuse_delete",
              "refresh_rotate_at", "refresh_create_at", "refresh_create_rt",
              "reuse_rt", "reuse_at"} : Start(k, req, step)
    <3>1. [id |-> a, client |-> c, scopes |-> {}] \in Requester
      BY DEF Requester
    <3>2. authorizeCodes[a] # None => authorizeCodes[a].req \in Requester
      BY DEF TypeOK, StoreTypeOK, CodeSession
    <3> QED
      BY <1>1, <3>1, <3>2 DEF ExchangeGet, GetAuthorizeCodeError, Running
  <2>2. UNCHANGED <<storeVars, presented, ended>>
    BY <1>1 DEF ExchangeGet
  <2>3. CallsOK'
    BY <2>1, <2>2 DEF CallsOK, Start, Goto, TypeOK, Running
  <2> QED
    BY <2>1, <2>2, <2>3, StartType DEF storeVars, accessVars, refreshVars,
                                       TypeOK, StoreTypeOK
<1>2. ASSUME NEW t \in Calls, RefreshGet(k, t, c) \/ RevokeGetRefresh(k, t, c)
      PROVE  TypeInv'
  <2>1. PICK req \in Requester, step \in Running : Start(k, req, step)
    <3>1. refreshTokens[t] # None => refreshTokens[t].req \in Requester
      BY DEF TypeOK, StoreTypeOK, RefreshSession
    <3>2. refreshTokens[t] # None =>
            [id |-> refreshTokens[t].req.id, client |-> c,
             scopes |-> refreshTokens[t].req.scopes] \in Requester
      BY <3>1 DEF Requester
    <3> QED
      BY <1>2, <3>1, <3>2 DEF RefreshGet, RevokeGetRefresh,
                              GetRefreshTokenError, Running
  <2>2. /\ presented' = [presented EXCEPT ![k] = [kind |-> "refresh", sig |-> t]]
        /\ UNCHANGED <<storeVars, ended>>
    BY <1>2 DEF RefreshGet, RevokeGetRefresh
  <2>3. [kind |-> "refresh", sig |-> t] \in Token
    BY DEF Token, AccessSignatures
  <2>4. CallsOK'
    BY <2>1, <2>2, <2>3 DEF CallsOK, Start, Goto, TypeOK
  <2> QED
    BY <2>1, <2>2, <2>3, <2>4, StartType DEF storeVars, accessVars, refreshVars,
                                             TypeOK, StoreTypeOK
<1>3. ASSUME NEW s \in AccessSignatures, RevokeGetAccess(k, s, c)
      PROVE  TypeInv'
  <2>1. accessTokens[s] \in Requester /\ Start(k, accessTokens[s], "revoke_rt")
    BY <1>3 DEF RevokeGetAccess, TypeOK, StoreTypeOK
  <2>2. /\ presented' = [presented EXCEPT ![k] = [kind |-> "access", sig |-> s]]
        /\ UNCHANGED <<storeVars, ended>>
    BY <1>3 DEF RevokeGetAccess
  <2>3. [kind |-> "access", sig |-> s] \in Token
    BY DEF Token
  <2>4. CallsOK'
    BY <2>1, <2>2, <2>3 DEF CallsOK, Start, Goto, TypeOK
  <2>5. "revoke_rt" \in Running
    BY DEF Running
  <2> QED
    BY <2>1, <2>2, <2>3, <2>4, <2>5, StartType
       DEF storeVars, accessVars, refreshVars, TypeOK, StoreTypeOK
<1> QED
  BY <1>1, <1>2, <1>3 DEF Begin

\* The later steps of a call preserve the types.
LEMMA ContinueType ==
    ASSUME TypeInv, NEW k \in Calls, Continue(k)
    PROVE  TypeInv'
<1> USE DEF TypeInv, Goto, Running, Returned
<1>0. TypeOK /\ StoreTypeOK /\ CallsOK
  BY DEF TypeOK
<1>1. pc[k] # "idle"
  BY DEF Continue, ReplayRevokeAccess, ReplayRevokeRefresh, ExchangePopulate, Drop,
         ExchangeInvalidate, ExchangeCreateAccess, ExchangeCreateRefresh,
         RotateRevokeRefresh, RotateRevokeAccess, RefreshCreateAccess,
         RefreshCreateRefresh, ReuseDelete, ReuseRevokeRefresh,
         ReuseRevokeAccess, RevokeRefresh, RevokeAccess
<1>2. reqs[k] \in Requester /\ reqs[k].id \in AuthReqs /\ k \in AccessSignatures
  BY <1>0, <1>1 DEF CallsOK, Requester, AccessSignatures
<1>3. ASSUME RevokeAccessToken(reqs[k].id),
             UNCHANGED <<authorizeCodes, refreshVars, reqs, presented, raced>>,
             ended' \in {ended, ended \union {reqs[k].id}},
             \/ pc[k] = "replay_at" /\ Goto(k, "replay_rt")
             \/ pc[k] = "refresh_rotate_at" /\ Goto(k, "refresh_create_at")
             \/ pc[k] = "reuse_at" /\ Goto(k, "reused")
             \/ pc[k] = "revoke_at" /\ Goto(k, "revoked")
      PROVE  TypeInv'
  BY <1>0, <1>2, <1>3, RevokeAccessTokenType
     DEF TypeOK, StoreTypeOK, CallsOK, refreshVars
<1>4. ASSUME RevokeRefreshToken(reqs[k].id),
             UNCHANGED <<authorizeCodes, accessVars, reqs, presented, raced>>,
             ended' \in {ended, ended \union {reqs[k].id}},
             \/ pc[k] = "replay_rt" /\ Goto(k, "replayed")
             \/ pc[k] = "refresh_rotate_rt" /\ Goto(k, "failed")
             \/ pc[k] = "refresh_rotate_rt" /\ Goto(k, "refresh_rotate_at")
             \/ pc[k] = "reuse_rt" /\ Goto(k, "reuse_at")
             \/ pc[k] = "revoke_rt" /\ Goto(k, "revoke_at")
      PROVE  TypeInv'
  BY <1>0, <1>2, <1>4, RevokeRefreshTokenType
     DEF TypeOK, StoreTypeOK, CallsOK, accessVars
<1>5. ASSUME CreateAccessTokenSession(k, reqs[k]),
             UNCHANGED <<authorizeCodes, refreshVars, reqs, presented, raced, ended>>,
             \/ pc[k] = "code_create_at" /\ Goto(k, "code_create_rt")
             \/ pc[k] = "code_create_at" /\ Goto(k, "exchanged")
             \/ pc[k] = "refresh_create_at" /\ Goto(k, "refresh_create_rt")
      PROVE  TypeInv'
  BY <1>0, <1>2, <1>5, CreateAccessTokenType
     DEF TypeOK, StoreTypeOK, CallsOK, refreshVars
<1>6. ASSUME CreateRefreshTokenSession(k, reqs[k]),
             UNCHANGED <<authorizeCodes, accessVars, reqs, presented, raced, ended>>,
             \/ pc[k] = "code_create_rt" /\ Goto(k, "exchanged")
             \/ pc[k] = "refresh_create_rt" /\ Goto(k, "refreshed")
      PROVE  TypeInv'
  BY <1>0, <1>2, <1>6, CreateRefreshTokenType
     DEF TypeOK, StoreTypeOK, CallsOK, accessVars
<1>7. CASE ExchangePopulate(k)
  <2>1. reqs' \in [Calls -> Requester \union {None}]
    <3>1. GetAuthorizeCodeError(reqs[k].id) = "nil" =>
             authorizeCodes[reqs[k].id].req.scopes \in SUBSET Scopes
      BY <1>0, <1>2 DEF GetAuthorizeCodeError, StoreTypeOK, CodeSession, Requester
    <3> QED
      BY <1>0, <1>2, <1>7, <3>1 DEF ExchangePopulate, TypeOK, Requester
  <2>2. reqs'[k] \in Requester
    BY <1>0, <1>2, <1>7, <2>1, NoneAssumption
       DEF ExchangePopulate, TypeOK, Requester, GetAuthorizeCodeError,
           StoreTypeOK, CodeSession
  <2> QED
    BY <1>0, <1>7, <2>1, <2>2
       DEF ExchangePopulate, TypeOK, StoreTypeOK, CallsOK, storeVars, accessVars,
           refreshVars
<1>8. CASE ExchangeInvalidate(k)
  <2>1. authorizeCodes[reqs[k].id] \in CodeSession
    BY <1>0, <1>2, <1>8 DEF ExchangeInvalidate, InvalidateAuthorizeCodeSession,
                            StoreTypeOK
  <2>2. [authorizeCodes[reqs[k].id] EXCEPT !.active = FALSE] \in CodeSession
    BY <2>1 DEF CodeSession
  <2>3. authorizeCodes' \in [AuthReqs -> CodeSession \union {None}]
    BY <1>0, <1>2, <1>8, <2>2
       DEF ExchangeInvalidate, InvalidateAuthorizeCodeSession, StoreTypeOK
  <2> QED
    BY <1>0, <1>2, <1>8, <2>3 DEF ExchangeInvalidate, TypeOK, StoreTypeOK,
                                  CallsOK, accessVars, refreshVars
<1>9. CASE ReuseDelete(k)
  BY <1>0, <1>2, <1>9
     DEF ReuseDelete, DeleteRefreshTokenSession, TypeOK, StoreTypeOK, CallsOK,
         accessVars
<1>10. CASE ReplayRevokeAccess(k) \/ RotateRevokeAccess(k)
              \/ ReuseRevokeAccess(k) \/ RevokeAccess(k)
  BY <1>3, <1>10 DEF ReplayRevokeAccess, RotateRevokeAccess, ReuseRevokeAccess,
                     RevokeAccess
<1>11. CASE ReplayRevokeRefresh(k) \/ RotateRevokeRefresh(k)
              \/ ReuseRevokeRefresh(k) \/ RevokeRefresh(k)
  BY <1>4, <1>11 DEF ReplayRevokeRefresh, RotateRevokeRefresh,
                     ReuseRevokeRefresh, RevokeRefresh
<1>12. CASE ExchangeCreateAccess(k) \/ RefreshCreateAccess(k)
  BY <1>5, <1>12 DEF ExchangeCreateAccess, RefreshCreateAccess
<1>13. CASE ExchangeCreateRefresh(k) \/ RefreshCreateRefresh(k)
  BY <1>6, <1>13 DEF ExchangeCreateRefresh, RefreshCreateRefresh
<1>14. CASE Drop(k)
  BY <1>0, <1>14 DEF Drop, TypeOK, StoreTypeOK, CallsOK, storeVars, accessVars,
                     refreshVars
<1> QED
  BY <1>7, <1>8, <1>9, <1>10, <1>11, <1>12, <1>13, <1>14 DEF Continue

\* Every step preserves the types.
LEMMA TypeStep == TypeInv /\ [Next]_vars => TypeInv'
<1> SUFFICES ASSUME TypeInv, [Next]_vars PROVE TypeInv'
  OBVIOUS
<1>1. CASE UNCHANGED vars
  BY <1>1 DEF vars, storeVars, accessVars, refreshVars, callVars, TypeInv,
              TypeOK, StoreTypeOK, CallsOK
<1>2. CASE Next
  BY <1>2, AuthorizeType, BeginType, ContinueType DEF Next
<1> QED
  BY <1>1, <1>2

\* The tables and the calls are well-typed in every reachable state.
THEOREM TypeCorrect == Spec => []TypeOK
<1>1. TypeInv => TypeOK
  BY DEF TypeInv
<1> QED
  BY <1>1, TypeInit, TypeStep, PTL DEF Spec

-----------------------------------------------------------------------------
(* What a step can do to an entry of the tables, whoever takes it.         *)

\* A code stays and keeps its request; once consumed it stays consumed.
CodeStep(a) ==
    authorizeCodes[a] # None =>
        /\ authorizeCodes'[a] # None
        /\ authorizeCodes'[a].req = authorizeCodes[a].req
        /\ authorizeCodes'[a].responseType = authorizeCodes[a].responseType
        /\ ~authorizeCodes[a].active => authorizeCodes'[a] = authorizeCodes[a]

\* An access token stays, goes, is issued by the call it is named after, or
\* is issued together with the code of the hybrid flow.
AccessStep(s) ==
    \/ accessTokens'[s] \in {accessTokens[s], None}
    \/ /\ s \in Calls
       /\ pc[s] \in {"code_create_at", "refresh_create_at"}
       /\ pc'[s] \in {"code_create_rt", "exchanged", "refresh_create_rt"}
       /\ accessTokens'[s] = reqs[s]
    \/ /\ s \in AuthReqs
       /\ authorizeCodes[s] = None
       /\ authorizeCodes'[s] # None
       /\ authorizeCodes'[s].responseType = "code token"
       /\ accessTokens'[s] = authorizeCodes'[s].req

\* A refresh token stays, goes, is deactivated, or is issued by the call it is
\* named after.
RefreshStep(t) ==
    \/ refreshTokens'[t] \in {refreshTokens[t], None}
    \/ /\ refreshTokens[t] # None
       /\ refreshTokens'[t] = [refreshTokens[t] EXCEPT !.active = FALSE]
    \/ /\ pc[t] \in {"code_create_rt", "refresh_create_rt"}
       /\ pc'[t] \in {"exchanged", "refreshed"}
       /\ refreshTokens'[t] = [active |-> TRUE, req |-> reqs[t]]

TableStep ==
    /\ \A a \in AuthReqs : CodeStep(a)
    /\ \A s \in AccessSignatures : AccessStep(s)
    /\ \A t \in Calls : RefreshStep(t)

\* Every step moves the entries of the tables in these ways only.
LEMMA TablesStep ==
    ASSUME TypeInv, [Next]_vars
    PROVE  TableStep
<1> USE DEF TypeInv
<1>0. TypeOK /\ StoreTypeOK
  BY DEF TypeOK
<1>1. ASSUME UNCHANGED authorizeCodes PROVE \A a \in AuthReqs : CodeStep(a)
  BY <1>1 DEF CodeStep
<1>2. ASSUME UNCHANGED accessVars PROVE \A s \in AccessSignatures : AccessStep(s)
  BY <1>2 DEF AccessStep, accessVars
<1>3. ASSUME UNCHANGED refreshVars PROVE \A t \in Calls : RefreshStep(t)
  BY <1>3 DEF RefreshStep, refreshVars
<1>4. ASSUME NEW id \in AuthReqs, RevokeAccessToken(id)
      PROVE  \A s \in AccessSignatures : AccessStep(s)
  BY <1>0, <1>4 DEF RevokeAccessToken, AccessStep, StoreTypeOK
<1>5. ASSUME NEW id \in AuthReqs, RevokeRefreshToken(id)
      PROVE  \A t \in Calls : RefreshStep(t)
  BY <1>0, <1>5 DEF RevokeRefreshToken, RevokeRefreshTokenFails, RefreshStep,
                    StoreTypeOK
<1>6. ASSUME NEW a \in AuthReqs, NEW c \in Clients, NEW g \in SUBSET Scopes,
             NEW type \in ResponseTypes, Authorize(a, c, g, type)
      PROVE  TableStep
  <2> DEFINE req == [id |-> a, client |-> c, scopes |-> g]
  <2>1. /\ authorizeCodes[a] = None
        /\ authorizeCodes' = [authorizeCodes EXCEPT ![a] =
                                [active |-> TRUE, req |-> req, responseType |-> type]]
        /\ UNCHANGED refreshVars
    BY <1>6 DEF Authorize, CreateAuthorizeCodeSession
  <2>2. [active |-> TRUE, req |-> req, responseType |-> type] # None
    <3>1. req \in Requester
      BY DEF Requester
    <3>2. [active |-> TRUE, req |-> req, responseType |-> type] \in CodeSession
      BY <3>1 DEF CodeSession
    <3> QED
      BY <3>2, NoneAssumption
  <2>3. \A b \in AuthReqs : CodeStep(b)
    BY <1>0, <2>1 DEF CodeStep, StoreTypeOK
  <2>4. \A s \in AccessSignatures : AccessStep(s)
    <3>1. CASE UNCHANGED accessVars
      BY <1>2, <3>1
    <3>2. CASE type = "code token" /\ CreateAccessTokenSession(a, req)
      BY <1>0, <2>1, <2>2, <3>2 DEF CreateAccessTokenSession, AccessStep,
                                    StoreTypeOK
    <3> QED
      BY <1>6, <3>1, <3>2 DEF Authorize
  <2> QED
    BY <1>3, <2>1, <2>3, <2>4 DEF TableStep
<1>7. ASSUME NEW k \in Calls, NEW c \in Clients, Begin(k, c)
      PROVE  TableStep
  <2>1. UNCHANGED storeVars
    BY <1>7 DEF Begin, ExchangeGet, RefreshGet, RevokeGetRefresh, RevokeGetAccess
  <2> QED
    BY <1>1, <1>2, <1>3, <2>1 DEF storeVars, TableStep
<1>8. ASSUME NEW k \in Calls, Continue(k)
      PROVE  TableStep
  <2>1. pc[k] # "idle"
    BY <1>8 DEF Continue, ReplayRevokeAccess, ReplayRevokeRefresh, ExchangePopulate, Drop,
         ExchangeInvalidate, ExchangeCreateAccess, ExchangeCreateRefresh,
         RotateRevokeRefresh, RotateRevokeAccess, RefreshCreateAccess,
         RefreshCreateRefresh, ReuseDelete, ReuseRevokeRefresh,
         ReuseRevokeAccess, RevokeRefresh, RevokeAccess
  <2>2. reqs[k].id \in AuthReqs
    BY <2>1 DEF CallsOK, Requester
  <2>3. CASE ReplayRevokeAccess(k) \/ RotateRevokeAccess(k)
                \/ ReuseRevokeAccess(k) \/ RevokeAccess(k)
    BY <1>1, <1>3, <1>4, <2>2, <2>3
       DEF ReplayRevokeAccess, RotateRevokeAccess, ReuseRevokeAccess,
           RevokeAccess, TableStep
  <2>4. CASE ReplayRevokeRefresh(k) \/ RotateRevokeRefresh(k)
                \/ ReuseRevokeRefresh(k) \/ RevokeRefresh(k)
    BY <1>1, <1>2, <1>5, <2>2, <2>4
       DEF ReplayRevokeRefresh, RotateRevokeRefresh, ReuseRevokeRefresh,
           RevokeRefresh, TableStep
  <2>5. CASE ExchangeCreateAccess(k) \/ RefreshCreateAccess(k)
    <3>0. /\ pc[k] \in {"code_create_at", "refresh_create_at"}
          /\ pc'[k] \in {"code_create_rt", "exchanged", "refresh_create_rt"}
          /\ accessTokens' = [accessTokens EXCEPT ![k] = reqs[k]]
      BY <1>0, <2>5 DEF ExchangeCreateAccess, RefreshCreateAccess, Goto, TypeOK,
                        CreateAccessTokenSession
    <3>1. \A s \in AccessSignatures : AccessStep(s)
      BY <1>0, <3>0 DEF AccessStep, StoreTypeOK
    <3> QED
      BY <1>1, <1>3, <2>5, <3>1 DEF ExchangeCreateAccess, RefreshCreateAccess,
                                    TableStep
  <2>6. CASE ExchangeCreateRefresh(k) \/ RefreshCreateRefresh(k)
    <3>0. /\ pc[k] \in {"code_create_rt", "refresh_create_rt"}
          /\ pc'[k] \in {"exchanged", "refreshed"}
          /\ refreshTokens' = [refreshTokens EXCEPT ![k] =
                                    [active |-> TRUE, req |-> reqs[k]]]
      BY <1>0, <2>6 DEF ExchangeCreateRefresh, RefreshCreateRefresh, Goto,
                        TypeOK, CreateRefreshTokenSession
    <3>1. ASSUME NEW t \in Calls PROVE RefreshStep(t)
      <4>1. CASE t = k
        BY <1>0, <3>0, <4>1 DEF RefreshStep, StoreTypeOK
      <4>2. CASE t # k
        BY <1>0, <3>0, <4>2 DEF RefreshStep, StoreTypeOK
      <4> QED
        BY <4>1, <4>2
    <3> QED
      BY <1>1, <1>2, <2>6, <3>1 DEF ExchangeCreateRefresh, RefreshCreateRefresh,
                                    TableStep
  <2>7. CASE ReuseDelete(k)
    <3>1. \A t \in Calls : RefreshStep(t)
      BY <1>0, <2>7 DEF ReuseDelete, DeleteRefreshTokenSession, RefreshStep,
                        StoreTypeOK
    <3> QED
      BY <1>1, <1>2, <2>7, <3>1 DEF ReuseDelete, TableStep
  <2>8. CASE ExchangePopulate(k) \/ Drop(k)
    BY <1>1, <1>2, <1>3, <2>8 DEF ExchangePopulate, Drop, storeVars, TableStep
  <2>9. CASE ExchangeInvalidate(k)
    <3>1. authorizeCodes[reqs[k].id] \in CodeSession
      BY <1>0, <2>2, <2>9 DEF ExchangeInvalidate,
                              InvalidateAuthorizeCodeSession, StoreTypeOK
    <3>2. LET r == [authorizeCodes[reqs[k].id] EXCEPT !.active = FALSE]
          IN  /\ r \in CodeSession
              /\ r.req = authorizeCodes[reqs[k].id].req
              /\ r.responseType = authorizeCodes[reqs[k].id].responseType
              /\ ~authorizeCodes[reqs[k].id].active => r = authorizeCodes[reqs[k].id]
      BY <3>1 DEF CodeSession
    <3>3. \A a \in AuthReqs : CodeStep(a)
      BY <1>0, <2>2, <2>9, <3>2, NoneAssumption
         DEF ExchangeInvalidate, InvalidateAuthorizeCodeSession, StoreTypeOK,
             CodeStep
    <3> QED
      BY <1>2, <1>3, <2>9, <3>3 DEF ExchangeInvalidate, TableStep
  <2> QED
    BY <1>8, <2>3, <2>4, <2>5, <2>6, <2>7, <2>8, <2>9 DEF Continue
<1>9. CASE UNCHANGED vars
  BY <1>1, <1>2, <1>3, <1>9 DEF vars, storeVars, TableStep
<1> QED
  BY <1>6, <1>7, <1>8, <1>9 DEF Next

-----------------------------------------------------------------------------
(* Tokens and calls are bound to the authorization they come from.  The    *)
(* three properties are not inductive by themselves: a token is stored     *)
(* with what its call read several steps earlier, so the invariant says    *)
(* what a call still knows about the code at each of its steps.            *)

Rotating == {"refresh_rotate_rt", "refresh_rotate_at", "refresh_create_at",
             "refresh_create_rt"}

\* The call is about to issue tokens for the request it holds.
Issuing == {"code_invalidate", "code_create_at", "code_create_rt"} \union Rotating

\* The call does not know that the code was consumed.
Unsettled == {"idle", "code_populate", "code_invalidate", "revoke_rt",
              "revoke_at", "revoked", "failed"}

CallBound(k) ==
    pc[k] # "idle" =>
        /\ authorizeCodes[reqs[k].id] # None
        /\ pc[k] = "code_populate" =>
              reqs[k].client = authorizeCodes[reqs[k].id].req.client
        /\ pc[k] \in Issuing => BoundTo(reqs[k])
        /\ pc[k] \notin Unsettled => ~authorizeCodes[reqs[k].id].active
        /\ pc[k] \in {"revoke_rt", "revoke_at", "revoked"} /\ CodeFlow(reqs[k].id)
              => ~authorizeCodes[reqs[k].id].active
        /\ pc[k] \in {"code_create_rt"} \union Rotating =>
              CanIssueRefreshToken(reqs[k])

CodesNamed ==
    \A a \in AuthReqs : authorizeCodes[a] # None => authorizeCodes[a].req.id = a

\* A front-channel token belongs to a hybrid request and is named after it.
FrontChannelNamed ==
    \A a \in AuthReqs : accessTokens[a] # None =>
        accessTokens[a].id = a /\ ~CodeFlow(a)

GrantInv ==
    /\ CodesNamed
    /\ \A k \in Calls : CallBound(k)
    /\ TokensBoundToGrant
    /\ TokensConsumeCode
    /\ RefreshTokensEligible
    /\ FrontChannelNamed

\* A call that does not move keeps what it knows about its code.
LEMMA CallBoundStable ==
    ASSUME TypeInv, TableStep, NEW k \in Calls, CallBound(k),
           pc'[k] = pc[k], reqs'[k] = reqs[k]
    PROVE  CallBound(k)'
<1>1. CASE pc[k] = "idle"
  BY <1>1 DEF CallBound
<1>2. CASE pc[k] # "idle"
  <2>1. reqs[k].id \in AuthReqs
    BY <1>2 DEF TypeInv, CallsOK, Requester
  <2>2. CodeStep(reqs[k].id)
    BY <2>1 DEF TableStep
  <2> QED
    BY <1>2, <2>2 DEF CodeStep, CallBound, BoundTo, CodeFlow, CanIssueRefreshToken
<1> QED
  BY <1>1, <1>2

\* The calls other than the one that moves keep what they know.
LEMMA OthersBound ==
    ASSUME TypeInv, TableStep, GrantInv, NEW k \in Calls,
           pc' = [pc EXCEPT ![k] = pc'[k]],
           reqs' = [reqs EXCEPT ![k] = reqs'[k]],
           CallBound(k)'
    PROVE  \A j \in Calls : CallBound(j)'
<1> SUFFICES ASSUME NEW j \in Calls, j # k PROVE CallBound(j)'
  OBVIOUS
<1>1. pc'[j] = pc[j] /\ reqs'[j] = reqs[j]
  BY DEF TypeInv, TypeOK
<1> QED
  BY <1>1, CallBoundStable DEF GrantInv

\* What is stored is bound to its code, if what the calls hold is.
LEMMA TokensBoundStep ==
    ASSUME TypeInv, TableStep, GrantInv, TypeInv', CodesNamed'
    PROVE  TokensBoundToGrant' /\ TokensConsumeCode' /\ RefreshTokensEligible'
             /\ FrontChannelNamed'
<1> USE DEF TypeInv
<1>1. ASSUME NEW a \in AuthReqs PROVE CodeStep(a)
  BY DEF TableStep
<1>2. ASSUME NEW s \in AccessSignatures, accessTokens'[s] # None
      PROVE  /\ BoundTo(accessTokens[s])'
             /\ s \in Calls => ~authorizeCodes'[accessTokens'[s].id].active
             /\ s \in AuthReqs => accessTokens'[s].id = s /\ ~CodeFlow(s)'
  <2>1. CASE accessTokens'[s] = accessTokens[s]
    <3>1. accessTokens[s] \in Requester /\ accessTokens[s].id \in AuthReqs
      BY <1>2, <2>1 DEF TypeOK, StoreTypeOK, Requester
    <3>2. CodeStep(accessTokens[s].id)
      BY <3>1, <1>1
    <3>3. BoundTo(accessTokens[s])
      BY <1>2, <2>1 DEF GrantInv, TokensBoundToGrant
    <3>4. s \in AuthReqs => CodeStep(s) /\ accessTokens[s].id = s /\ ~CodeFlow(s)
      BY <1>1, <1>2, <2>1 DEF GrantInv, FrontChannelNamed
    <3>5. s \in Calls => ~authorizeCodes[accessTokens[s].id].active
      BY <1>2, <2>1 DEF GrantInv, TokensConsumeCode
    <3> QED
      BY <1>2, <2>1, <3>2, <3>3, <3>4, <3>5 DEF BoundTo, CodeStep, CodeFlow
  <2>2. CASE /\ s \in Calls
             /\ pc[s] \in {"code_create_at", "refresh_create_at"}
             /\ accessTokens'[s] = reqs[s]
    <3>1. CallBound(s) /\ reqs[s].id \in AuthReqs
      BY <2>2 DEF GrantInv, CallsOK, Requester
    <3>2. BoundTo(reqs[s]) /\ ~authorizeCodes[reqs[s].id].active
      BY <2>2, <3>1 DEF CallBound, Issuing, Rotating, Unsettled
    <3>3. s \notin AuthReqs
      BY <2>2, NamesAssumption
    <3> QED
      BY <1>1, <2>2, <3>1, <3>2, <3>3 DEF BoundTo, CodeStep
  <2>3. CASE /\ s \in AuthReqs
             /\ authorizeCodes'[s] # None
             /\ authorizeCodes'[s].responseType = "code token"
             /\ accessTokens'[s] = authorizeCodes'[s].req
    BY <2>3, NamesAssumption DEF CodesNamed, BoundTo, CodeFlow
  <2> QED
    BY <1>2, <2>1, <2>2, <2>3 DEF TableStep, AccessStep
<1>3. ASSUME NEW t \in Calls, refreshTokens'[t] # None
      PROVE  /\ BoundTo(refreshTokens[t].req)'
             /\ ~authorizeCodes'[refreshTokens'[t].req.id].active
             /\ CanIssueRefreshToken(refreshTokens'[t].req)
  <2>1. CASE /\ refreshTokens[t] # None
             /\ \/ refreshTokens'[t] = refreshTokens[t]
                \/ refreshTokens'[t] = [refreshTokens[t] EXCEPT !.active = FALSE]
    <3>1. refreshTokens[t] \in RefreshSession
      BY <2>1 DEF TypeOK, StoreTypeOK
    <3>2. refreshTokens'[t].req = refreshTokens[t].req
            /\ refreshTokens[t].req.id \in AuthReqs
      BY <2>1, <3>1 DEF RefreshSession, Requester
    <3>3. CodeStep(refreshTokens[t].req.id)
      BY <1>1, <3>2
    <3>4. /\ BoundTo(refreshTokens[t].req)
          /\ ~authorizeCodes[refreshTokens[t].req.id].active
          /\ CanIssueRefreshToken(refreshTokens[t].req)
      BY <2>1 DEF GrantInv, TokensBoundToGrant, TokensConsumeCode,
                  RefreshTokensEligible, CanIssueRefreshToken, HasRefreshScope
    <3> QED
      BY <3>2, <3>3, <3>4 DEF BoundTo, CodeStep
  <2>2. CASE /\ pc[t] \in {"code_create_rt", "refresh_create_rt"}
             /\ refreshTokens'[t] = [active |-> TRUE, req |-> reqs[t]]
    <3>1. CallBound(t) /\ reqs[t].id \in AuthReqs
      BY <2>2 DEF GrantInv, CallsOK, Requester
    <3>2. BoundTo(reqs[t]) /\ ~authorizeCodes[reqs[t].id].active
             /\ CanIssueRefreshToken(reqs[t])
      BY <2>2, <3>1 DEF CallBound, Issuing, Rotating, Unsettled
    <3>3. refreshTokens'[t].req = reqs[t] /\ CodeStep(reqs[t].id)
      BY <1>1, <2>2, <3>1
    <3> QED
      BY <3>2, <3>3 DEF BoundTo, CodeStep
  <2> QED
    BY <1>3, <2>1, <2>2 DEF TableStep, RefreshStep
<1> QED
  BY <1>2, <1>3 DEF TokensBoundToGrant, TokensConsumeCode, RefreshTokensEligible,
                    FrontChannelNamed, AccessSignatures, CanIssueRefreshToken,
                    HasRefreshScope

\* Issuing a code disturbs no call and names the code after its request.
LEMMA AuthorizeBound ==
    ASSUME TypeInv, TableStep, GrantInv, NEW a \in AuthReqs, NEW c \in Clients,
           NEW g \in SUBSET Scopes, NEW type \in ResponseTypes,
           Authorize(a, c, g, type)
    PROVE  CodesNamed' /\ \A k \in Calls : CallBound(k)'
<1>1. UNCHANGED <<pc, reqs>>
  BY DEF Authorize, callVars
<1>2. \A k \in Calls : CallBound(k)'
  BY <1>1, CallBoundStable DEF GrantInv
<1>3. CodesNamed'
  BY DEF Authorize, CreateAuthorizeCodeSession, CodesNamed, GrantInv, TypeInv,
         TypeOK, StoreTypeOK
<1> QED
  BY <1>2, <1>3

\* The first step of a call binds it to the code of the request it read.
LEMMA BeginBound ==
    ASSUME TypeInv, TableStep, GrantInv, NEW k \in Calls, NEW c \in Clients,
           Begin(k, c)
    PROVE  CodesNamed' /\ \A j \in Calls : CallBound(j)'
<1> USE DEF TypeInv
<1>1. UNCHANGED storeVars
  BY DEF Begin, ExchangeGet, RefreshGet, RevokeGetRefresh, RevokeGetAccess
<1>2. CodesNamed'
  BY <1>1 DEF storeVars, CodesNamed, GrantInv
<1>3. ASSUME NEW req \in Requester, NEW step \in Running, Start(k, req, step)
      PROVE  /\ pc' = [pc EXCEPT ![k] = pc'[k]]
             /\ reqs' = [reqs EXCEPT ![k] = reqs'[k]]
             /\ pc'[k] = step /\ reqs'[k] = req
  BY <1>3 DEF Start, Goto, TypeOK
<1>4. ASSUME NEW a \in AuthReqs, ExchangeGet(k, a, c)
      PROVE  \A j \in Calls : CallBound(j)'
  <2>1. CASE /\ GetAuthorizeCodeError(a) = "ErrInvalidatedAuthorizeCode"
             /\ Start(k, authorizeCodes[a].req, "replay_at")
    <3>1. authorizeCodes[a] # None /\ authorizeCodes[a] \in CodeSession
            /\ ~authorizeCodes[a].active
      BY <2>1 DEF GetAuthorizeCodeError, TypeOK, StoreTypeOK
    <3>2. authorizeCodes[a].req \in Requester /\ "replay_at" \in Running
      BY <3>1 DEF CodeSession, Running
    <3>3. authorizeCodes[a].req.id = a
      BY <3>1 DEF GrantInv, CodesNamed
    <3>4. CallBound(k)'
      BY <1>1, <1>3, <2>1, <3>1, <3>2, <3>3
         DEF CallBound, storeVars, Issuing, Rotating
    <3> QED
      BY <1>3, <2>1, <3>2, <3>4, OthersBound
  <2>2. CASE /\ GetAuthorizeCodeError(a) = "nil"
             /\ authorizeCodes[a].req.client = c
             /\ Start(k, [id |-> a, client |-> c, scopes |-> {}], "code_populate")
    <3>1. authorizeCodes[a] # None
      BY <2>2 DEF GetAuthorizeCodeError
    <3>2. [id |-> a, client |-> c, scopes |-> {}] \in Requester
            /\ "code_populate" \in Running
      BY DEF Requester, Running
    <3>3. CallBound(k)'
      BY <1>1, <1>3, <2>2, <3>1, <3>2
         DEF CallBound, storeVars, Issuing, Rotating, Unsettled
    <3> QED
      BY <1>3, <2>2, <3>2, <3>3, OthersBound
  <2> QED
    BY <1>4, <2>1, <2>2 DEF ExchangeGet
<1>5. ASSUME NEW t \in Calls, RefreshGet(k, t, c) \/ RevokeGetRefresh(k, t, c)
      PROVE  \A j \in Calls : CallBound(j)'
  <2> DEFINE r == refreshTokens[t].req
  <2>1. refreshTokens[t] # None /\ refreshTokens[t] \in RefreshSession
    BY <1>5 DEF RefreshGet, RevokeGetRefresh, GetRefreshTokenError, TypeOK,
                StoreTypeOK
  <2>2. r \in Requester
    BY <2>1 DEF RefreshSession
  <2>3. BoundTo(r) /\ ~authorizeCodes[r.id].active /\ CanIssueRefreshToken(r)
    BY <2>1 DEF GrantInv, TokensBoundToGrant, TokensConsumeCode,
                RefreshTokensEligible, CanIssueRefreshToken, HasRefreshScope
  <2>4. CASE \/ Start(k, r, "reuse_delete")
             \/ Start(k, r, "revoke_rt")
             \/ /\ r.client = c
                /\ Start(k, [id |-> r.id, client |-> c, scopes |-> r.scopes],
                         "refresh_rotate_rt")
    <3>1. {"reuse_delete", "revoke_rt", "refresh_rotate_rt"} \subseteq Running
      BY DEF Running
    <3>2. [id |-> r.id, client |-> c, scopes |-> r.scopes] \in Requester
      BY <2>2 DEF Requester
    <3>3. /\ pc' = [pc EXCEPT ![k] = pc'[k]]
          /\ reqs' = [reqs EXCEPT ![k] = reqs'[k]]
          /\ pc'[k] \in {"reuse_delete", "revoke_rt", "refresh_rotate_rt"}
          /\ reqs'[k].id = r.id /\ reqs'[k].scopes = r.scopes
          /\ pc'[k] = "refresh_rotate_rt" => reqs'[k].client = r.client
      BY <1>3, <2>2, <2>4, <3>1, <3>2
    <3>4. CallBound(k)'
      BY <1>1, <2>3, <3>3
         DEF CallBound, storeVars, Issuing, Rotating, BoundTo, CodeFlow,
             CanIssueRefreshToken
    <3> QED
      BY <3>3, <3>4, OthersBound
  <2> QED
    BY <1>5, <2>4 DEF RefreshGet, RevokeGetRefresh
<1>6. ASSUME NEW s \in AccessSignatures, RevokeGetAccess(k, s, c)
      PROVE  \A j \in Calls : CallBound(j)'
  <2> DEFINE r == accessTokens[s]
  <2>1. r # None /\ r \in Requester /\ Start(k, r, "revoke_rt")
    BY <1>6 DEF RevokeGetAccess, TypeOK, StoreTypeOK
  <2>2. /\ BoundTo(r)
        /\ s \in Calls => ~authorizeCodes[r.id].active
        /\ s \in AuthReqs => r.id = s /\ ~CodeFlow(s)
    BY <2>1 DEF GrantInv, TokensBoundToGrant, TokensConsumeCode,
                FrontChannelNamed
  <2>3. /\ pc' = [pc EXCEPT ![k] = pc'[k]]
        /\ reqs' = [reqs EXCEPT ![k] = reqs'[k]]
        /\ pc'[k] = "revoke_rt" /\ reqs'[k] = r
    BY <1>3, <2>1 DEF Running
  <2>4. CallBound(k)'
    BY <1>1, <2>2, <2>3 DEF CallBound, storeVars, Issuing, Rotating, Unsettled,
                            BoundTo, CodeFlow, AccessSignatures
  <2> QED
    BY <2>3, <2>4, OthersBound
<1> QED
  BY <1>2, <1>4, <1>5, <1>6 DEF Begin

\* A running call has left "idle" and holds a request.
LEMMA ContinueHolds ==
    ASSUME TypeInv, NEW k \in Calls, Continue(k)
    PROVE  pc[k] \in Running /\ reqs[k] \in Requester /\ reqs[k].id \in AuthReqs
<1>1. pc[k] \in Running
  BY DEF Continue, ReplayRevokeAccess, ReplayRevokeRefresh, ExchangePopulate, Drop,
         ExchangeInvalidate, ExchangeCreateAccess, ExchangeCreateRefresh,
         RotateRevokeRefresh, RotateRevokeAccess, RefreshCreateAccess,
         RefreshCreateRefresh, ReuseDelete, ReuseRevokeRefresh,
         ReuseRevokeAccess, RevokeRefresh, RevokeAccess, Running
<1> QED
  BY <1>1 DEF TypeInv, CallsOK, Running, Requester

\* The later steps of a call keep it bound to its code.
LEMMA ContinueBound ==
    ASSUME TypeInv, TableStep, GrantInv, NEW k \in Calls, Continue(k)
    PROVE  CodesNamed' /\ \A j \in Calls : CallBound(j)'
<1> USE DEF TypeInv, Goto
<1> DEFINE id == reqs[k].id
<1>0. TypeOK /\ StoreTypeOK /\ id \in AuthReqs /\ reqs[k] \in Requester /\ pc[k] # "idle"
  BY ContinueHolds DEF TypeOK, Running
<1>1. CallBound(k) /\ CodeStep(id) /\ authorizeCodes[id] # None
  BY <1>0 DEF GrantInv, TableStep, CallBound
<1>2. ASSUME UNCHANGED reqs,
             \/ pc[k] = "replay_at" /\ Goto(k, "replay_rt")
             \/ pc[k] = "replay_rt" /\ Goto(k, "replayed")
             \/ pc[k] = "code_create_at" /\ Goto(k, "exchanged")
             \/ pc[k] = "code_create_rt" /\ Goto(k, "exchanged")
             \/ pc[k] = "refresh_rotate_rt" /\ Goto(k, "failed")
             \/ pc[k] = "refresh_rotate_rt" /\ Goto(k, "refresh_rotate_at")
             \/ pc[k] = "refresh_rotate_at" /\ Goto(k, "refresh_create_at")
             \/ pc[k] = "refresh_create_at" /\ Goto(k, "refresh_create_rt")
             \/ pc[k] = "refresh_create_rt" /\ Goto(k, "refreshed")
             \/ pc[k] = "reuse_delete" /\ Goto(k, "reuse_rt")
             \/ pc[k] = "reuse_rt" /\ Goto(k, "reuse_at")
             \/ pc[k] = "reuse_at" /\ Goto(k, "reused")
             \/ pc[k] = "revoke_rt" /\ Goto(k, "revoke_at")
             \/ pc[k] = "revoke_at" /\ Goto(k, "revoked")
      PROVE  \A j \in Calls : CallBound(j)'
  <2>1. /\ pc' = [pc EXCEPT ![k] = pc'[k]]
        /\ reqs' = [reqs EXCEPT ![k] = reqs'[k]]
    BY <1>0, <1>2 DEF TypeOK
  <2>2. /\ reqs'[k] = reqs[k]
        /\ pc[k] \in Issuing \/ pc'[k] \notin Issuing
        /\ pc[k] \in {"code_create_rt"} \union Rotating
              \/ pc'[k] \notin {"code_create_rt"} \union Rotating
        /\ pc[k] \notin Unsettled \/ pc'[k] \in Unsettled
        /\ pc[k] \in {"revoke_rt", "revoke_at"}
              \/ pc'[k] \notin {"revoke_rt", "revoke_at", "revoked"}
        /\ pc'[k] # "code_populate"
    BY <1>0, <1>2 DEF TypeOK, Issuing, Rotating, Unsettled
  <2>3. CallBound(k)'
    BY <1>0, <1>1, <2>2 DEF CallBound, CodeStep, BoundTo, CodeFlow,
                            CanIssueRefreshToken
  <2> QED
    BY <2>1, <2>3, OthersBound
<1>3. ASSUME UNCHANGED authorizeCodes PROVE CodesNamed'
  BY <1>3 DEF GrantInv, CodesNamed
<1>4. CASE \/ ReplayRevokeAccess(k) \/ ReplayRevokeRefresh(k)
           \/ ExchangeCreateRefresh(k)
           \/ RotateRevokeRefresh(k) \/ RotateRevokeAccess(k)
           \/ RefreshCreateAccess(k) \/ RefreshCreateRefresh(k)
           \/ ReuseDelete(k) \/ ReuseRevokeRefresh(k) \/ ReuseRevokeAccess(k)
           \/ RevokeRefresh(k) \/ RevokeAccess(k)
  BY <1>2, <1>3, <1>4
     DEF ReplayRevokeAccess, ReplayRevokeRefresh, ExchangeCreateRefresh,
         RotateRevokeRefresh, RotateRevokeAccess, RefreshCreateAccess,
         RefreshCreateRefresh, ReuseDelete, ReuseRevokeRefresh,
         ReuseRevokeAccess, RevokeRefresh, RevokeAccess
<1>5. CASE ExchangeCreateAccess(k)
  <2>1. pc[k] = "code_create_at" /\ UNCHANGED <<authorizeCodes, reqs>>
    BY <1>5 DEF ExchangeCreateAccess
  <2>2. CASE Goto(k, "exchanged")
    BY <1>2, <1>3, <2>1, <2>2
  <2>3. CASE /\ CanIssueRefreshToken(authorizeCodes[id].req)
             /\ Goto(k, "code_create_rt")
    <3>1. BoundTo(reqs[k])
      BY <1>1, <2>1 DEF CallBound, Issuing
    <3>2. CanIssueRefreshToken(reqs[k])
      BY <2>3, <3>1 DEF BoundTo, CanIssueRefreshToken
    <3>3. /\ pc' = [pc EXCEPT ![k] = pc'[k]] /\ pc'[k] = "code_create_rt"
          /\ reqs' = [reqs EXCEPT ![k] = reqs'[k]] /\ reqs'[k] = reqs[k]
      BY <1>0, <2>1, <2>3 DEF TypeOK
    <3>4. CallBound(k)'
      BY <1>1, <2>1, <3>1, <3>2, <3>3 DEF CallBound, BoundTo, CodeFlow, Unsettled,
                                          CanIssueRefreshToken
    <3> QED
      BY <1>3, <2>1, <3>3, <3>4, OthersBound
  <2> QED
    BY <1>5, <2>2, <2>3 DEF ExchangeCreateAccess
<1>6. CASE ExchangePopulate(k)
  <2>1. pc[k] = "code_populate" /\ UNCHANGED authorizeCodes
    BY <1>6 DEF ExchangePopulate, storeVars
  <2>2. /\ pc' = [pc EXCEPT ![k] = pc'[k]]
        /\ reqs' = [reqs EXCEPT ![k] = reqs'[k]]
        /\ \/ pc'[k] = "failed" /\ reqs'[k] = reqs[k]
           \/ /\ pc'[k] = "code_invalidate"
              /\ reqs'[k].id = id /\ reqs'[k].client = reqs[k].client
              /\ reqs'[k].scopes = authorizeCodes[id].req.scopes
    BY <1>0, <1>6 DEF ExchangePopulate, TypeOK, Requester
  <2>3. CallBound(k)'
    BY <1>1, <2>1, <2>2 DEF CallBound, BoundTo, CodeFlow, Issuing, Rotating,
                            Unsettled
  <2> QED
    BY <1>3, <2>1, <2>2, <2>3, OthersBound
<1>7. CASE ExchangeInvalidate(k)
  <2>1. /\ pc[k] = "code_invalidate"
        /\ pc' = [pc EXCEPT ![k] = pc'[k]] /\ pc'[k] = "code_create_at"
        /\ reqs' = [reqs EXCEPT ![k] = reqs'[k]] /\ reqs'[k] = reqs[k]
    BY <1>0, <1>7 DEF ExchangeInvalidate, TypeOK
  <2>2. authorizeCodes[id] \in CodeSession
    BY <1>0, <1>1 DEF StoreTypeOK
  <2>3. authorizeCodes'[id].active = FALSE
    BY <1>0, <1>7, <2>2
       DEF ExchangeInvalidate, InvalidateAuthorizeCodeSession, StoreTypeOK,
           CodeSession
  <2>4. CallBound(k)'
    BY <1>0, <1>1, <2>1, <2>3 DEF CallBound, CodeStep, BoundTo, CodeFlow, Issuing,
                                  Rotating
  <2>5. CodesNamed'
    <3>1. \A a \in AuthReqs : authorizeCodes[a] # None <=> authorizeCodes'[a] # None
      BY <1>0, <1>1, <1>7, <2>2
         DEF ExchangeInvalidate, InvalidateAuthorizeCodeSession, StoreTypeOK,
             TableStep, CodeStep
    <3> QED
      BY <3>1 DEF GrantInv, CodesNamed, TableStep, CodeStep
  <2> QED
    BY <2>1, <2>4, <2>5, OthersBound
<1>8. CASE Drop(k)
  <2>1. UNCHANGED <<authorizeCodes, reqs>> /\ pc[k] # "idle"
    BY <1>8 DEF Drop, storeVars
  <2>2. /\ pc' = [pc EXCEPT ![k] = pc'[k]] /\ pc'[k] = "failed"
        /\ reqs' = [reqs EXCEPT ![k] = reqs'[k]] /\ reqs'[k] = reqs[k]
    BY <1>0, <1>8 DEF Drop, TypeOK
  <2>3. CallBound(k)'
    BY <1>1, <2>1, <2>2 DEF CallBound, BoundTo, CodeFlow, Issuing, Rotating,
                            Unsettled
  <2> QED
    BY <1>3, <2>1, <2>2, <2>3, OthersBound
<1> QED
  BY <1>4, <1>5, <1>6, <1>7, <1>8 DEF Continue

\* Nothing is issued initially.
LEMMA GrantInit == Init => GrantInv
BY DEF Init, StoreInit, GrantInv, CodesNamed, CallBound, TokensBoundToGrant,
       TokensConsumeCode, RefreshTokensEligible, FrontChannelNamed,
       AccessSignatures

\* Every step keeps tokens and calls bound.
LEMMA GrantStep == TypeInv /\ GrantInv /\ [Next]_vars => GrantInv'
<1> SUFFICES ASSUME TypeInv, GrantInv, [Next]_vars PROVE GrantInv'
  OBVIOUS
<1>1. TypeInv' /\ TableStep
  BY TypeStep, TablesStep
<1>2. CodesNamed' /\ \A k \in Calls : CallBound(k)'
  <2>1. CASE UNCHANGED vars
    <3>1. UNCHANGED <<authorizeCodes, pc, reqs>>
      BY <2>1 DEF vars, storeVars, callVars
    <3> QED
      BY <1>1, <3>1, CallBoundStable DEF GrantInv, CodesNamed
  <2>2. CASE Next
    BY <1>1, <2>2, AuthorizeBound, BeginBound, ContinueBound DEF Next
  <2> QED
    BY <2>1, <2>2
<1> QED
  BY <1>1, <1>2, TokensBoundStep DEF GrantInv

\* No token ever belongs to another client or carries other scopes than its
\* authorization.
THEOREM TokensAreBound == Spec => []TokensBoundToGrant
<1>1. Init => TypeInv /\ GrantInv
  BY TypeInit, GrantInit
<1>2. TypeInv /\ GrantInv /\ [Next]_vars => (TypeInv /\ GrantInv)'
  BY TypeStep, GrantStep
<1>3. GrantInv => TokensBoundToGrant
  BY DEF GrantInv
<1> QED
  BY <1>1, <1>2, <1>3, PTL DEF Spec

\* The token endpoint issues nothing for a code that can still be redeemed.
THEOREM TokensImplyConsumedCode == Spec => []TokensConsumeCode
<1>1. Init => TypeInv /\ GrantInv
  BY TypeInit, GrantInit
<1>2. TypeInv /\ GrantInv /\ [Next]_vars => (TypeInv /\ GrantInv)'
  BY TypeStep, GrantStep
<1>3. GrantInv => TokensConsumeCode
  BY DEF GrantInv
<1> QED
  BY <1>1, <1>2, <1>3, PTL DEF Spec

\* Refresh tokens exist only for eligible clients and grants.
THEOREM RefreshTokensAreEligible == Spec => []RefreshTokensEligible
<1>1. Init => TypeInv /\ GrantInv
  BY TypeInit, GrantInit
<1>2. TypeInv /\ GrantInv /\ [Next]_vars => (TypeInv /\ GrantInv)'
  BY TypeStep, GrantStep
<1>3. GrantInv => RefreshTokensEligible
  BY DEF GrantInv
<1> QED
  BY <1>1, <1>2, <1>3, PTL DEF Spec

-----------------------------------------------------------------------------
(* What holds of a request as long as no two calls for it overlap: its     *)
(* code is redeemed once, rotation replaces, presented tokens are dead,    *)
(* and a replay, a reuse or a revocation ends the grant for good.  Calls   *)
(* for other requests may still interleave in any way.                     *)

\* The steps at which a call has stored its access token.
AccessStored == {"code_create_rt", "exchanged", "refresh_create_rt", "refreshed"}

\* The steps at which a call has stored its refresh token, if it issues one.
RefreshStored == {"exchanged", "refreshed"}

\* A token is there only after the call it is named after has stored it, and
\* only such a token can have been presented.
CallFresh(k) ==
    /\ accessTokens[k] # None => pc[k] \in AccessStored
    /\ refreshTokens[k] # None => pc[k] \in RefreshStored
    /\ presented[k] # None /\ presented[k].sig \in Calls =>
          IF presented[k].kind = "refresh"
          THEN pc[presented[k].sig] \in RefreshStored
          ELSE pc[presented[k].sig] \in AccessStored
    /\ pc[k] \in {"revoke_rt", "revoke_at", "revoked"} =>
          /\ presented[k] \in Token
          /\ presented[k].kind = "refresh" => presented[k].sig \in Calls

FreshInv ==
    /\ \A k \in Calls : CallFresh(k)
    /\ \A a \in ended : authorizeCodes[a] # None

-----------------------------------------------------------------------------

NoActiveRefresh(a) == \A t \in Calls : ~ActiveRefresh(t, a)

\* No access token from the token endpoint.
NoBackChannelAccess(a) == \A s \in Calls : ~LiveAccess(s, a)

Exchanging == {"code_populate", "code_invalidate", "code_create_at",
               "code_create_rt"}

\* Steps at which the request has no active refresh token.
RefreshGone == Exchanging \union
    {"refresh_rotate_at", "refresh_create_at", "refresh_create_rt", "reuse_at",
     "revoke_at"}

\* Steps at which the request has no access token from the token endpoint.
AccessGone == {"code_populate", "code_invalidate", "code_create_at",
               "refresh_create_at", "replay_rt"}

\* One call at a time.
OneInFlight(a) ==
    \A j, k \in Calls : InFlight(j, a) /\ InFlight(k, a) => j = k

\* The indexes lead to every live token.
Indexed(a) ==
    /\ \A t \in Calls : ActiveRefresh(t, a) => refreshTokenRequestIDs[a] = t
    /\ \A s \in Calls : LiveAccess(s, a) => accessTokenRequestIDs[a] = s

\* What the call in flight may rely on.
Progress(a) ==
    \A k \in Calls : InFlight(k, a) =>
        /\ pc[k] \in RefreshGone => NoActiveRefresh(a)
        /\ pc[k] \in AccessGone => NoBackChannelAccess(a)
        /\ pc[k] \in Exchanging =>
              \A j \in Calls : pc[j] = "exchanged" => reqs[j].id # a

Redeemed(a) ==
    \A j, k \in Calls :
        /\ pc[j] = "exchanged" /\ pc[k] = "exchanged"
        /\ reqs[j].id = a /\ reqs[k].id = a
        => j = k

EndedDead(a) ==
    a \in ended /\ CodeFlow(a) =>
        /\ NoLiveToken(a)
        /\ ~authorizeCodes[a].active
        /\ \A k \in Calls : InFlight(k, a) => pc[k] \notin Exchanging \union Rotating

\* The token a finished call was given.
PresentedDead(a) ==
    \A k \in Calls :
        pc[k] \in {"refreshed", "reused", "revoked"} /\ reqs[k].id = a =>
            IF presented[k].kind = "refresh"
            THEN ~ActiveRefresh(presented[k].sig, a)
            ELSE CodeFlow(a) => ~LiveAccess(presented[k].sig, a)

Serial(a) ==
    /\ OneInFlight(a)
    /\ Indexed(a)
    /\ Progress(a)
    /\ Redeemed(a)
    /\ EndedDead(a)
    /\ PresentedDead(a)

SerialInv == \A a \in AuthReqs \ raced : Serial(a)

AllInv == TypeInv /\ GrantInv /\ FreshInv /\ SerialInv

-----------------------------------------------------------------------------
(* Fresh names.                                                            *)

\* A call that has stored a token has stored it for good.
LEMMA StoredStep ==
    ASSUME TypeInv, [Next]_vars, NEW k \in Calls
    PROVE  /\ pc[k] \in AccessStored => pc'[k] \in AccessStored
           /\ pc[k] \in RefreshStored => pc'[k] \in RefreshStored
<1> USE DEF TypeInv, TypeOK, AccessStored, RefreshStored
<1>1. CASE UNCHANGED vars
  BY <1>1 DEF vars, callVars
<1>2. ASSUME NEW a \in AuthReqs, NEW c \in Clients, NEW g \in SUBSET Scopes,
             NEW type \in ResponseTypes, Authorize(a, c, g, type)
      PROVE  pc'[k] = pc[k]
  BY <1>2 DEF Authorize, callVars
<1>3. ASSUME NEW j \in Calls, NEW c \in Clients, Begin(j, c)
      PROVE  pc[k] # "idle" => pc'[k] = pc[k]
  BY <1>3 DEF Begin, ExchangeGet, RefreshGet, RevokeGetRefresh, RevokeGetAccess,
              Start, Goto
<1>4. ASSUME NEW j \in Calls, Continue(j)
      PROVE  /\ pc[k] \in AccessStored => pc'[k] \in AccessStored
             /\ pc[k] \in RefreshStored => pc'[k] \in RefreshStored
  <2>1. CASE j # k
    <3>1. pc'[k] = pc[k]
      BY <1>4, <2>1 DEF Continue, ReplayRevokeAccess, ReplayRevokeRefresh,
         ExchangePopulate, ExchangeInvalidate, Drop, ExchangeCreateAccess,
         ExchangeCreateRefresh, RotateRevokeRefresh, RotateRevokeAccess,
         RefreshCreateAccess, RefreshCreateRefresh, ReuseDelete,
         ReuseRevokeRefresh, ReuseRevokeAccess, RevokeRefresh, RevokeAccess, Goto
    <3> QED
      BY <3>1
  <2>2. CASE j = k
    BY <1>4, <2>2 DEF Continue, ReplayRevokeAccess, ReplayRevokeRefresh,
         ExchangePopulate, ExchangeInvalidate, Drop, ExchangeCreateAccess,
         ExchangeCreateRefresh, RotateRevokeRefresh, RotateRevokeAccess,
         RefreshCreateAccess, RefreshCreateRefresh, ReuseDelete,
         ReuseRevokeRefresh, ReuseRevokeAccess, RevokeRefresh, RevokeAccess, Goto
  <2> QED
    BY <2>1, <2>2
<1> QED
  BY <1>1, <1>2, <1>3, <1>4 DEF Next

\* A call that is given a token is given one that was stored before.
LEMMA PresentedStep ==
    ASSUME TypeInv, FreshInv, [Next]_vars, NEW k \in Calls
    PROVE  \/ /\ presented'[k] = presented[k]
              /\ pc'[k] \in {"revoke_rt", "revoke_at", "revoked"} =>
                    pc[k] \in {"revoke_rt", "revoke_at", "revoked"}
           \/ /\ presented'[k] \in Token
              /\ presented'[k].kind = "refresh" =>
                    /\ presented'[k].sig \in Calls
                    /\ pc[presented'[k].sig] \in RefreshStored
              /\ presented'[k].kind = "access" /\ presented'[k].sig \in Calls =>
                    pc[presented'[k].sig] \in AccessStored
<1> USE DEF TypeInv, TypeOK
<1>1. ASSUME UNCHANGED vars PROVE presented'[k] = presented[k] /\ pc'[k] = pc[k]
  BY <1>1 DEF vars, callVars
<1>2. ASSUME NEW a \in AuthReqs, NEW c \in Clients, NEW g \in SUBSET Scopes,
             NEW type \in ResponseTypes, Authorize(a, c, g, type)
      PROVE  pc'[k] = pc[k] /\ presented'[k] = presented[k]
  BY <1>2 DEF Authorize, callVars
<1>3. ASSUME NEW j \in Calls, NEW c \in Clients, NEW a \in AuthReqs,
             ExchangeGet(j, a, c)
      PROVE  /\ presented'[k] = presented[k]
             /\ pc'[k] = pc[k] \/ pc'[k] \in {"replay_at", "code_populate"}
  BY <1>3 DEF ExchangeGet, Start, Goto
<1>4. ASSUME NEW j \in Calls, NEW c \in Clients, NEW t \in Calls,
             RefreshGet(j, t, c) \/ RevokeGetRefresh(j, t, c)
      PROVE  \/ presented'[k] = presented[k] /\ pc'[k] = pc[k]
             \/ /\ presented'[k] = [kind |-> "refresh", sig |-> t]
                /\ pc[t] \in RefreshStored
  <2>1. refreshTokens[t] # None
    BY <1>4 DEF RefreshGet, RevokeGetRefresh, GetRefreshTokenError
  <2>2. pc[t] \in RefreshStored
    BY <2>1 DEF FreshInv, CallFresh
  <2> QED
    BY <1>4, <2>2 DEF RefreshGet, RevokeGetRefresh, Start, Goto
<1>5. ASSUME NEW j \in Calls, NEW c \in Clients, NEW s \in AccessSignatures,
             RevokeGetAccess(j, s, c)
      PROVE  \/ presented'[k] = presented[k] /\ pc'[k] = pc[k]
             \/ /\ presented'[k] = [kind |-> "access", sig |-> s]
                /\ s \in Calls => pc[s] \in AccessStored
  BY <1>5 DEF RevokeGetAccess, Start, Goto, FreshInv, CallFresh
<1>6. ASSUME NEW j \in Calls, Continue(j)
      PROVE  /\ presented'[k] = presented[k]
             /\ pc'[k] \in {"revoke_rt", "revoke_at", "revoked"} =>
                   pc[k] \in {"revoke_rt", "revoke_at", "revoked"}
  BY <1>6 DEF Continue, ReplayRevokeAccess, ReplayRevokeRefresh,
         ExchangePopulate, ExchangeInvalidate, Drop, ExchangeCreateAccess,
         ExchangeCreateRefresh, RotateRevokeRefresh, RotateRevokeAccess,
         RefreshCreateAccess, RefreshCreateRefresh, ReuseDelete,
         ReuseRevokeRefresh, ReuseRevokeAccess, RevokeRefresh, RevokeAccess, Goto
<1> DEFINE Keeps == /\ presented'[k] = presented[k]
                    /\ pc'[k] \in {"revoke_rt", "revoke_at", "revoked"} =>
                          pc[k] \in {"revoke_rt", "revoke_at", "revoked"}
           Given == /\ presented'[k] \in Token
                    /\ presented'[k].kind = "refresh" =>
                          /\ presented'[k].sig \in Calls
                          /\ pc[presented'[k].sig] \in RefreshStored
                    /\ /\ presented'[k].kind = "access"
                       /\ presented'[k].sig \in Calls
                       => pc[presented'[k].sig] \in AccessStored
<1>7. ASSUME NEW t \in Calls, pc[t] \in RefreshStored,
             presented'[k] = [kind |-> "refresh", sig |-> t]
      PROVE  Given
  BY <1>7 DEF Token, AccessSignatures
<1>8. ASSUME NEW s \in AccessSignatures, s \in Calls => pc[s] \in AccessStored,
             presented'[k] = [kind |-> "access", sig |-> s]
      PROVE  Given
  BY <1>8 DEF Token
<1> HIDE DEF Given
<1>9. ASSUME NEW j \in Calls, NEW c \in Clients, Begin(j, c)
      PROVE  Keeps \/ Given
  BY <1>3, <1>4, <1>5, <1>7, <1>8, <1>9 DEF Begin
<1>10. ASSUME Next PROVE Keeps \/ Given
  BY <1>2, <1>6, <1>9, <1>10 DEF Next
<1>11. Keeps \/ Given
  BY <1>1, <1>10
<1> QED
  BY <1>11 DEF Given

\* Nothing is stored initially.
LEMMA FreshInit == Init => FreshInv
BY DEF Init, StoreInit, FreshInv, CallFresh, AccessSignatures

\* A grant that was ended has a code.
LEMMA EndedStep ==
    ASSUME TypeInv, GrantInv, [Next]_vars, NEW a \in ended', a \notin ended
    PROVE  \E k \in Calls :
              /\ InFlight(k, a)
              /\ \/ pc[k] = "replay_rt" /\ pc'[k] = "replayed"
                 \/ pc[k] = "reuse_at" /\ pc'[k] = "reused"
                 \/ pc[k] = "revoke_at" /\ pc'[k] = "revoked"
<1> USE DEF TypeInv, TypeOK
<1>1. CASE UNCHANGED vars
  BY <1>1 DEF vars
<1>2. ASSUME NEW b \in AuthReqs, NEW c \in Clients, NEW g \in SUBSET Scopes,
             NEW type \in ResponseTypes, Authorize(b, c, g, type)
      PROVE  FALSE
  BY <1>2 DEF Authorize
<1>3. ASSUME NEW j \in Calls, NEW c \in Clients, Begin(j, c)
      PROVE  FALSE
  BY <1>3 DEF Begin, ExchangeGet, RefreshGet, RevokeGetRefresh, RevokeGetAccess
<1>4. ASSUME NEW k \in Calls, Continue(k)
      PROVE  /\ InFlight(k, a)
             /\ \/ pc[k] = "replay_rt" /\ pc'[k] = "replayed"
                \/ pc[k] = "reuse_at" /\ pc'[k] = "reused"
                \/ pc[k] = "revoke_at" /\ pc'[k] = "revoked"
  BY <1>4 DEF Continue, ReplayRevokeAccess, ReplayRevokeRefresh,
         ExchangePopulate, ExchangeInvalidate, Drop, ExchangeCreateAccess,
         ExchangeCreateRefresh, RotateRevokeRefresh, RotateRevokeAccess,
         RefreshCreateAccess, RefreshCreateRefresh, ReuseDelete,
         ReuseRevokeRefresh, ReuseRevokeAccess, RevokeRefresh, RevokeAccess, Goto,
         InFlight, Running
<1> QED
  BY <1>1, <1>2, <1>3, <1>4 DEF Next

\* Names stay fresh.
LEMMA FreshStep == TypeInv /\ GrantInv /\ FreshInv /\ [Next]_vars => FreshInv'
<1> SUFFICES ASSUME TypeInv, GrantInv, FreshInv, [Next]_vars PROVE FreshInv'
  OBVIOUS
<1>1. TableStep /\ TypeInv'
  BY TablesStep, TypeStep
<1>2. ASSUME NEW k \in Calls PROVE CallFresh(k)'
  <2>1. CallFresh(k)
    BY DEF FreshInv
  <2>2. accessTokens'[k] # None => pc'[k] \in AccessStored
    <3>1. AccessStep(k) /\ k \notin AuthReqs
      BY <1>1, NamesAssumption DEF TableStep, AccessSignatures
    <3> QED
      BY <2>1, <3>1, StoredStep DEF CallFresh, AccessStep, AccessStored
  <2>3. refreshTokens'[k] # None => pc'[k] \in RefreshStored
    BY <1>1, <2>1, StoredStep DEF CallFresh, RefreshStep, RefreshStored, TableStep
  <2>4. /\ presented'[k] # None /\ presented'[k].sig \in Calls =>
              IF presented'[k].kind = "refresh"
              THEN pc'[presented'[k].sig] \in RefreshStored
              ELSE pc'[presented'[k].sig] \in AccessStored
        /\ pc'[k] \in {"revoke_rt", "revoke_at", "revoked"} =>
              /\ presented'[k] \in Token
              /\ presented'[k].kind = "refresh" => presented'[k].sig \in Calls
    <3>1. CASE /\ presented'[k] = presented[k]
               /\ pc'[k] \in {"revoke_rt", "revoke_at", "revoked"} =>
                    pc[k] \in {"revoke_rt", "revoke_at", "revoked"}
      BY <2>1, <3>1, StoredStep DEF CallFresh
    <3>2. CASE /\ presented'[k] \in Token
               /\ presented'[k].kind = "refresh" =>
                    /\ presented'[k].sig \in Calls
                    /\ pc[presented'[k].sig] \in RefreshStored
               /\ presented'[k].kind = "access" /\ presented'[k].sig \in Calls =>
                    pc[presented'[k].sig] \in AccessStored
      BY <3>2, StoredStep DEF Token
    <3> QED
      BY <3>1, <3>2, PresentedStep
  <2> QED
    BY <2>2, <2>3, <2>4 DEF CallFresh
<1>3. ASSUME NEW a \in ended' PROVE authorizeCodes'[a] # None
  <2>1. authorizeCodes[a] # None /\ a \in AuthReqs
    <3>1. CASE a \in ended
      BY <3>1 DEF FreshInv, TypeInv, TypeOK
    <3>2. CASE a \notin ended
      <4>1. PICK k \in Calls : InFlight(k, a)
        BY <3>2, EndedStep
      <4>2. pc[k] # "idle" /\ reqs[k].id = a
        BY <4>1 DEF InFlight, Running
      <4> QED
        BY <4>2 DEF GrantInv, CallBound, TypeInv, CallsOK, Requester
    <3> QED
      BY <3>1, <3>2
  <2> QED
    BY <1>1, <2>1 DEF TableStep, CodeStep
<1> QED
  BY <1>2, <1>3 DEF FreshInv

-----------------------------------------------------------------------------
(* A step of a call for another request.                                   *)

\* Calls, tokens and indexes of request a do not move, except that tokens of
\* a may go.
Untouched(a) ==
    /\ \A j \in Calls : pc'[j] # "idle" /\ reqs'[j].id = a =>
          pc'[j] = pc[j] /\ reqs'[j] = reqs[j] /\ presented'[j] = presented[j]
    /\ a \in ended' => a \in ended
    /\ refreshTokenRequestIDs'[a] = refreshTokenRequestIDs[a]
    /\ accessTokenRequestIDs'[a] = accessTokenRequestIDs[a]
    /\ \A t \in Calls : ActiveRefresh(t, a)' => ActiveRefresh(t, a)
    /\ \A s \in Calls : LiveAccess(s, a)' => LiveAccess(s, a)
    /\ CodeStep(a)

\* Such a step keeps what holds of a.
LEMMA UntouchedSerial ==
    ASSUME NEW a \in AuthReqs, Serial(a), Untouched(a), TypeInv, GrantInv,
           FreshInv, FrontChannelNamed'
    PROVE  Serial(a)'
<1>1. \A j \in Calls : InFlight(j, a)' =>
          InFlight(j, a) /\ pc'[j] = pc[j]
  BY DEF Untouched, InFlight, Running
<1>2. OneInFlight(a)'
  BY <1>1 DEF Serial, OneInFlight
<1>3. Indexed(a)'
  BY DEF Serial, Indexed, Untouched
<1>4. \A j \in Calls : pc'[j] = "exchanged" /\ reqs'[j].id = a =>
          pc[j] = "exchanged" /\ reqs[j].id = a
  BY DEF Untouched
<1>5. Progress(a)'
  BY <1>1, <1>4 DEF Serial, Progress, Untouched, NoActiveRefresh,
                    NoBackChannelAccess
<1>6. Redeemed(a)'
  BY <1>4 DEF Serial, Redeemed
<1>7. a \in ended' /\ CodeFlow(a)' =>
         /\ a \in ended /\ CodeFlow(a)
         /\ \A s \in AuthReqs : ~LiveAccess(s, a)'
  BY DEF Untouched, FreshInv, CodeStep, CodeFlow, FrontChannelNamed, LiveAccess
<1>8. EndedDead(a)'
  BY <1>1, <1>7 DEF Serial, EndedDead, Untouched, NoLiveToken, AccessSignatures,
                    CodeStep, CodeFlow
<1>9. PresentedDead(a)'
  <2> SUFFICES ASSUME NEW k \in Calls,
                      pc'[k] \in {"refreshed", "reused", "revoked"}, reqs'[k].id = a
               PROVE  IF presented'[k].kind = "refresh"
                      THEN ~ActiveRefresh(presented[k].sig, a)'
                      ELSE CodeFlow(a)' => ~LiveAccess(presented[k].sig, a)'
    BY DEF PresentedDead
  <2>1. pc'[k] = pc[k] /\ reqs'[k] = reqs[k] /\ presented'[k] = presented[k]
    BY DEF Untouched
  <2>2. IF presented[k].kind = "refresh"
        THEN ~ActiveRefresh(presented[k].sig, a)
        ELSE CodeFlow(a) => ~LiveAccess(presented[k].sig, a)
    BY <2>1 DEF Serial, PresentedDead
  <2>3. authorizeCodes[a] # None /\ reqs[k].id = a
    BY <2>1 DEF GrantInv, CallBound
  <2>4. CodeFlow(a)' => CodeFlow(a)
    BY <2>3 DEF Untouched, CodeStep, CodeFlow
  <2>5. presented[k] \in Token
           /\ (presented[k].kind = "refresh" => presented[k].sig \in Calls)
    BY <2>1 DEF TypeInv, CallsOK, FreshInv, CallFresh
  <2>6. ASSUME presented[k].sig \in AuthReqs, LiveAccess(presented[k].sig, a)'
        PROVE  ~CodeFlow(a)'
    BY <2>1, <2>6 DEF FrontChannelNamed, LiveAccess
  <2>7. presented[k].sig \in AuthReqs \union Calls
    BY <2>5 DEF Token, AccessSignatures
  <2> QED
    BY <2>1, <2>2, <2>4, <2>5, <2>6, <2>7 DEF Untouched
<1> QED
  BY <1>2, <1>3, <1>5, <1>6, <1>8, <1>9 DEF Serial

-----------------------------------------------------------------------------
(* The first step of a call.                                               *)

\* What the call that starts has just read, for the request it starts for.
LEMMA BeginReads ==
    ASSUME TypeInv, GrantInv, NEW k \in Calls, NEW c \in Clients, Begin(k, c)
    PROVE  /\ pc[k] = "idle"
           /\ reqs'[k].id \in AuthReqs
           /\ pc' = [pc EXCEPT ![k] = pc'[k]]
           /\ reqs' = [reqs EXCEPT ![k] = reqs'[k]]
           /\ \A j \in Calls : j # k => presented'[j] = presented[j]
           /\ raced' = IF \E j \in Calls : InFlight(j, reqs'[k].id)
                       THEN raced \union {reqs'[k].id} ELSE raced
           /\ UNCHANGED <<storeVars, ended>>
           /\ \/ pc'[k] \in {"replay_at", "reuse_delete", "revoke_rt"}
              \/ /\ pc'[k] = "code_populate"
                 /\ authorizeCodes[reqs'[k].id] # None
                 /\ authorizeCodes[reqs'[k].id].active
              \/ /\ pc'[k] = "refresh_rotate_rt"
                 /\ \E t \in Calls : ActiveRefresh(t, reqs'[k].id)
<1> USE DEF TypeInv, TypeOK, StoreTypeOK
<1>1. ASSUME NEW req \in Requester, NEW step \in Running, Start(k, req, step)
      PROVE  /\ pc[k] = "idle"
             /\ reqs'[k] = req /\ req.id \in AuthReqs /\ pc'[k] = step
             /\ pc' = [pc EXCEPT ![k] = pc'[k]]
             /\ reqs' = [reqs EXCEPT ![k] = reqs'[k]]
             /\ raced' = IF \E j \in Calls : InFlight(j, req.id)
                         THEN raced \union {req.id} ELSE raced
  BY <1>1 DEF Start, Goto, Requester
<1>2. ASSUME NEW a \in AuthReqs, ExchangeGet(k, a, c)
      PROVE  \/ \E req \in Requester : Start(k, req, "replay_at")
             \/ /\ authorizeCodes[a] # None /\ authorizeCodes[a].active
                /\ \E req \in Requester :
                      req.id = a /\ Start(k, req, "code_populate")
  <2>1. [id |-> a, client |-> c, scopes |-> {}] \in Requester
    BY DEF Requester
  <2>2. authorizeCodes[a] # None => authorizeCodes[a].req \in Requester
    BY DEF CodeSession
  <2> QED
    BY <1>2, <2>1, <2>2 DEF ExchangeGet, GetAuthorizeCodeError
<1>3. ASSUME NEW t \in Calls, RefreshGet(k, t, c) \/ RevokeGetRefresh(k, t, c)
      PROVE  \E req \in Requester :
                \/ Start(k, req, "reuse_delete")
                \/ Start(k, req, "revoke_rt")
                \/ /\ Start(k, req, "refresh_rotate_rt")
                   /\ ActiveRefresh(t, req.id)
  <2>1. refreshTokens[t] # None /\ refreshTokens[t] \in RefreshSession
    BY <1>3 DEF RefreshGet, RevokeGetRefresh, GetRefreshTokenError
  <2>2. refreshTokens[t].req \in Requester
    BY <2>1 DEF RefreshSession
  <2>3. [id |-> refreshTokens[t].req.id, client |-> c,
         scopes |-> refreshTokens[t].req.scopes] \in Requester
    BY <2>2 DEF Requester
  <2> QED
    BY <1>3, <2>1, <2>2, <2>3 DEF RefreshGet, RevokeGetRefresh,
                                  GetRefreshTokenError, ActiveRefresh
<1>4. ASSUME NEW s \in AccessSignatures, RevokeGetAccess(k, s, c)
      PROVE  \E req \in Requester : Start(k, req, "revoke_rt")
  BY <1>4 DEF RevokeGetAccess
<1>5. /\ UNCHANGED <<storeVars, ended>>
      /\ \A j \in Calls : j # k => presented'[j] = presented[j]
  BY DEF Begin, ExchangeGet, RefreshGet, RevokeGetRefresh, RevokeGetAccess
<1>6. {"replay_at", "code_populate", "reuse_delete", "revoke_rt",
       "refresh_rotate_rt"} \subseteq Running
  BY DEF Running
<1>7. PICK req \in Requester :
         \/ \E step \in {"replay_at", "reuse_delete", "revoke_rt"} : Start(k, req, step)
         \/ /\ authorizeCodes[req.id] # None /\ authorizeCodes[req.id].active
            /\ Start(k, req, "code_populate")
         \/ /\ \E t \in Calls : ActiveRefresh(t, req.id)
            /\ Start(k, req, "refresh_rotate_rt")
  BY <1>2, <1>3, <1>4 DEF Begin
<1> QED
  BY <1>1, <1>5, <1>6, <1>7

\* Starting a call, for whatever request, keeps what holds of the requests
\* that are still not raced for.
LEMMA BeginSerial ==
    ASSUME TypeInv, GrantInv, FreshInv, GrantInv', NEW k \in Calls, NEW c \in Clients,
           Begin(k, c), NEW a \in AuthReqs \ raced', Serial(a), a \notin raced
    PROVE  Serial(a)'
<1>1. /\ pc[k] = "idle"
      /\ UNCHANGED <<storeVars, ended>>
      /\ \A j \in Calls : j # k =>
            pc'[j] = pc[j] /\ reqs'[j] = reqs[j] /\ presented'[j] = presented[j]
  BY BeginReads DEF TypeInv, TypeOK
<1>2. CASE reqs'[k].id # a
  <2>1. Untouched(a)
    BY <1>1, <1>2 DEF Untouched, storeVars, accessVars, refreshVars, ActiveRefresh,
                      LiveAccess, CodeStep
  <2> QED
    BY <2>1, UntouchedSerial DEF GrantInv
<1>3. CASE reqs'[k].id = a
  <2>1. \A j \in Calls : ~InFlight(j, a)
    BY <1>3, BeginReads
  <2>2. \A j \in Calls : InFlight(j, a)' => j = k
    BY <1>1, <2>1 DEF InFlight
  <2>3. \/ pc'[k] \in {"replay_at", "reuse_delete", "revoke_rt"}
        \/ /\ pc'[k] = "code_populate"
           /\ authorizeCodes[a] # None
           /\ authorizeCodes[a].active
        \/ /\ pc'[k] = "refresh_rotate_rt"
           /\ \E t \in Calls : ActiveRefresh(t, a)
    BY <1>3, BeginReads
  <2>4. UNCHANGED <<authorizeCodes, accessTokens, refreshTokens,
                    accessTokenRequestIDs, refreshTokenRequestIDs, ended>>
    BY <1>1 DEF storeVars, accessVars, refreshVars
  <2>5. OneInFlight(a)' /\ Indexed(a)'
    BY <2>2, <2>4 DEF OneInFlight, Indexed, Serial, ActiveRefresh, LiveAccess
  <2>6. authorizeCodes[a] # None /\ authorizeCodes[a].active =>
           /\ NoActiveRefresh(a) /\ NoBackChannelAccess(a)
           /\ \A j \in Calls : pc[j] = "exchanged" => reqs[j].id # a
    BY DEF GrantInv, TokensConsumeCode, NoActiveRefresh, NoBackChannelAccess,
           ActiveRefresh, LiveAccess, CallBound, Unsettled
  <2>7. Progress(a)'
    BY <1>1, <2>2, <2>3, <2>4, <2>6
       DEF Progress, RefreshGone, AccessGone, Exchanging, NoActiveRefresh,
           NoBackChannelAccess, ActiveRefresh, LiveAccess
  <2>8. pc'[k] \notin {"exchanged", "refreshed", "reused", "revoked"}
    BY <2>3
  <2>9. Redeemed(a)' /\ PresentedDead(a)'
    <3>1. Redeemed(a)'
      BY <1>1, <2>8 DEF Serial, Redeemed
    <3>2. ASSUME NEW j \in Calls, reqs'[j].id = a,
                 pc'[j] \in {"refreshed", "reused", "revoked"}
          PROVE  IF presented'[j].kind = "refresh"
                 THEN ~ActiveRefresh(presented[j].sig, a)'
                 ELSE CodeFlow(a)' => ~LiveAccess(presented[j].sig, a)'
      <4>1. /\ pc'[j] = pc[j] /\ reqs'[j] = reqs[j]
            /\ presented'[j] = presented[j]
        BY <1>1, <2>8, <3>2
      <4> QED
        BY <2>4, <3>2, <4>1 DEF Serial, PresentedDead, ActiveRefresh, LiveAccess,
                                CodeFlow
    <3> QED
      BY <3>1, <3>2 DEF PresentedDead
  <2>10. EndedDead(a)'
    BY <2>2, <2>3, <2>4 DEF Serial, EndedDead, NoLiveToken, ActiveRefresh,
                            LiveAccess, CodeFlow, Exchanging, Rotating
  <2> QED
    BY <2>5, <2>7, <2>9, <2>10 DEF Serial
<1> QED
  BY <1>2, <1>3

-----------------------------------------------------------------------------
(* The later steps of a call.                                              *)

\* The only call in flight for a moves; other calls, and tokens of a that it
\* does not issue itself, stay or go.
SoloMove(k, a) ==
    /\ InFlight(k, a)
    /\ reqs'[k].id = a
    /\ \A j \in Calls : j # k => pc'[j] = pc[j] /\ reqs'[j] = reqs[j]
    /\ UNCHANGED presented
    /\ \A t \in Calls : ActiveRefresh(t, a)' =>
          ActiveRefresh(t, a) \/ (t = k /\ pc[k] \notin RefreshStored)
    /\ \A s \in Calls : LiveAccess(s, a)' =>
          LiveAccess(s, a) \/ (s = k /\ pc[k] \notin AccessStored)

\* What is left to show of such a step: the indexes, what the call relies on
\* next, and what becomes of an ended grant and of the presented token.
LEMMA SoloSerial ==
    ASSUME TypeInv, GrantInv, FreshInv, FrontChannelNamed',
           NEW a \in AuthReqs, NEW k \in Calls, CodeStep(a), Serial(a), SoloMove(k, a),
           Indexed(a)',
           pc'[k] \in RefreshGone => NoActiveRefresh(a)',
           pc'[k] \in AccessGone => NoBackChannelAccess(a)',
           pc'[k] \in Exchanging \union {"exchanged"} => pc[k] \in Exchanging,
           a \in ended' /\ CodeFlow(a)' =>
              /\ NoActiveRefresh(a)' /\ NoBackChannelAccess(a)'
              /\ ~authorizeCodes'[a].active
              /\ pc'[k] \notin Exchanging \union Rotating,
           pc'[k] \in {"refreshed", "reused", "revoked"} =>
              IF presented[k].kind = "refresh"
              THEN ~ActiveRefresh(presented[k].sig, a)'
              ELSE CodeFlow(a)' => ~LiveAccess(presented[k].sig, a)'
    PROVE  Serial(a)'
<1>1. \A j \in Calls : InFlight(j, a)' => j = k
  BY DEF Serial, OneInFlight, SoloMove, InFlight
<1>2. OneInFlight(a)'
  BY <1>1 DEF OneInFlight
<1>3. pc[k] \in Exchanging =>
         \A j \in Calls : pc[j] = "exchanged" => reqs[j].id # a
  BY DEF Serial, Progress, SoloMove
<1>4. Progress(a)'
  BY <1>1, <1>3 DEF Progress, SoloMove, Exchanging
<1>5. Redeemed(a)'
  BY <1>3 DEF Redeemed, Serial, SoloMove
<1>6. EndedDead(a)'
  <2>1. ASSUME a \in ended', CodeFlow(a)'
        PROVE  NoLiveToken(a)'
    <3>1. \A s \in AuthReqs : ~LiveAccess(s, a)'
      BY <2>1 DEF FrontChannelNamed, LiveAccess, CodeFlow
    <3> QED
      BY <2>1, <3>1 DEF NoLiveToken, NoActiveRefresh, NoBackChannelAccess,
                        AccessSignatures
  <2> QED
    BY <1>1, <2>1 DEF EndedDead
<1>7. PresentedDead(a)'
  <2> SUFFICES ASSUME NEW j \in Calls, j # k,
                      pc'[j] \in {"refreshed", "reused", "revoked"}, reqs'[j].id = a
               PROVE  IF presented'[j].kind = "refresh"
                      THEN ~ActiveRefresh(presented[j].sig, a)'
                      ELSE CodeFlow(a)' => ~LiveAccess(presented[j].sig, a)'
    BY DEF PresentedDead, SoloMove
  <2>1. pc'[j] = pc[j] /\ reqs'[j] = reqs[j] /\ presented'[j] = presented[j]
    BY DEF SoloMove
  <2>2. IF presented[j].kind = "refresh"
        THEN ~ActiveRefresh(presented[j].sig, a)
        ELSE CodeFlow(a) => ~LiveAccess(presented[j].sig, a)
    BY <2>1 DEF Serial, PresentedDead
  <2>3. authorizeCodes[a] # None /\ CallFresh(j)
    BY <2>1 DEF GrantInv, CallBound, FreshInv
  <2>4. CodeFlow(a)' => CodeFlow(a)
    BY <2>3 DEF CodeStep, CodeFlow
  <2>5. presented[j] \in Token
           /\ (presented[j].kind = "refresh" => presented[j].sig \in Calls)
    BY <2>1, <2>3 DEF TypeInv, CallsOK, CallFresh
  <2>6. ASSUME presented[j].sig \in AuthReqs, LiveAccess(presented[j].sig, a)'
        PROVE  ~CodeFlow(a)'
    BY <2>1, <2>6 DEF FrontChannelNamed, LiveAccess
  <2>7. presented[j].sig \in AuthReqs \union Calls /\ presented[j].kind \in {"refresh", "access"}
    BY <2>5 DEF Token, AccessSignatures
  <2>8. CASE presented[j].kind = "refresh"
    <3>1. pc[presented[j].sig] \in RefreshStored
      BY <2>3, <2>5, <2>8, NoTokenAssumption DEF CallFresh
    <3> QED
      BY <2>1, <2>2, <2>5, <2>8, <3>1 DEF SoloMove
  <2>9. CASE presented[j].kind = "access" /\ presented[j].sig \in Calls
    <3>1. pc[presented[j].sig] \in AccessStored
      BY <2>3, <2>5, <2>9, NoTokenAssumption DEF CallFresh
    <3> QED
      BY <2>1, <2>2, <2>4, <2>9, <3>1 DEF SoloMove
  <2> QED
    BY <2>1, <2>6, <2>7, <2>8, <2>9
<1> QED
  BY <1>2, <1>4, <1>5, <1>6, <1>7 DEF Serial

\* RevokeAccessToken takes the only access token of the token endpoint.
LEMMA RevokeAccessEffect ==
    ASSUME TypeInv, GrantInv, NEW a \in AuthReqs, Indexed(a), RevokeAccessToken(a),
           UNCHANGED refreshVars
    PROVE  /\ NoBackChannelAccess(a)'
           /\ \A s \in Calls : LiveAccess(s, a)' => LiveAccess(s, a)
           /\ \A t \in Calls : ActiveRefresh(t, a)' <=> ActiveRefresh(t, a)
           /\ Indexed(a)'
<1>1. \A s \in AccessSignatures : LiveAccess(s, a)' =>
         LiveAccess(s, a) /\ s # accessTokenRequestIDs[a]
  <2> SUFFICES ASSUME NEW s \in AccessSignatures, LiveAccess(s, a)'
               PROVE  LiveAccess(s, a) /\ s # accessTokenRequestIDs[a]
    OBVIOUS
  <2> USE DEF TypeInv, TypeOK, StoreTypeOK, LiveAccess
  <2>1. CASE accessTokenRequestIDs[a] = None
    BY <2>1, NoneAssumption DEF RevokeAccessToken, AccessSignatures
  <2>2. CASE accessTokenRequestIDs[a] # None
    <3>1. accessTokens' = [accessTokens EXCEPT ![accessTokenRequestIDs[a]] = None]
      BY <2>2 DEF RevokeAccessToken
    <3>2. s # accessTokenRequestIDs[a]
      BY <3>1
    <3> QED
      BY <3>1, <3>2
  <2> QED
    BY <2>1, <2>2
<1>2. \A t \in Calls : ActiveRefresh(t, a)' <=> ActiveRefresh(t, a)
  BY DEF ActiveRefresh, refreshVars
<1>3. accessTokenRequestIDs' = accessTokenRequestIDs
        /\ refreshTokenRequestIDs' = refreshTokenRequestIDs
  BY DEF RevokeAccessToken, refreshVars
<1> QED
  BY <1>1, <1>2, <1>3 DEF Indexed, NoBackChannelAccess, AccessSignatures

\* RevokeRefreshToken takes the only active refresh token.
LEMMA RevokeRefreshEffect ==
    ASSUME TypeInv, GrantInv, NEW a \in AuthReqs, Indexed(a), RevokeRefreshToken(a),
           UNCHANGED accessVars
    PROVE  /\ NoActiveRefresh(a)'
           /\ \A t \in Calls : ActiveRefresh(t, a)' => ActiveRefresh(t, a)
           /\ \A s \in Calls : LiveAccess(s, a)' <=> LiveAccess(s, a)
           /\ Indexed(a)'
<1>1. \A t \in Calls : ~ActiveRefresh(t, a)'
  <2> SUFFICES ASSUME NEW t \in Calls, ActiveRefresh(t, a)' PROVE FALSE
    OBVIOUS
  <2>1. CASE refreshTokenRequestIDs[a] = None \/ RevokeRefreshTokenFails(a)
    <3>1. refreshTokens' = refreshTokens
      BY <2>1 DEF RevokeRefreshToken
    <3>2. ActiveRefresh(t, a)
      BY <3>1 DEF ActiveRefresh
    <3>3. refreshTokenRequestIDs[a] = t
      BY <3>2 DEF Indexed
    <3> QED
      BY <2>1, <3>2, <3>3, NoneAssumption DEF RevokeRefreshTokenFails, ActiveRefresh
  <2>2. CASE refreshTokenRequestIDs[a] # None /\ ~RevokeRefreshTokenFails(a)
    <3> DEFINE u == refreshTokenRequestIDs[a]
    <3>1. /\ u \in Calls
          /\ refreshTokens[u] \in RefreshSession
          /\ refreshTokens' = [refreshTokens EXCEPT ![u].active = FALSE]
      BY <2>2 DEF RevokeRefreshToken, RevokeRefreshTokenFails, TypeInv, TypeOK,
                  StoreTypeOK
    <3>2. refreshTokens'[u].active = FALSE
      BY <3>1 DEF RefreshSession, TypeInv, TypeOK, StoreTypeOK
    <3>3. t # u
      BY <3>2 DEF ActiveRefresh
    <3>4. refreshTokens'[t] = refreshTokens[t]
      BY <3>1, <3>3 DEF TypeInv, TypeOK, StoreTypeOK
    <3> QED
      BY <3>3, <3>4 DEF ActiveRefresh, Indexed
  <2> QED
    BY <2>1, <2>2
<1>2. \A s \in Calls : LiveAccess(s, a)' <=> LiveAccess(s, a)
  BY DEF LiveAccess, accessVars
<1>3. accessTokenRequestIDs' = accessTokenRequestIDs
        /\ refreshTokenRequestIDs' = refreshTokenRequestIDs
  BY DEF RevokeRefreshToken, accessVars
<1> QED
  BY <1>1, <1>2, <1>3 DEF Indexed, NoActiveRefresh

\* The later steps of a call keep what holds of its own request.
LEMMA ContinueSerial ==
    ASSUME TypeInv, GrantInv, FreshInv, GrantInv', TableStep, NEW k \in Calls, Continue(k),
           NEW a \in AuthReqs, Serial(a), InFlight(k, a)
    PROVE  Serial(a)'
<1> USE DEF TypeInv, Goto
<1>0. /\ TypeOK /\ StoreTypeOK /\ CallsOK /\ Indexed(a) /\ CodeStep(a)
      /\ FrontChannelNamed' /\ reqs[k].id = a /\ reqs[k] \in Requester
      /\ CallBound(k) /\ CallFresh(k) /\ authorizeCodes[a] # None
      /\ pc[k] # "idle"
  BY ContinueHolds DEF TypeOK, Serial, TableStep, GrantInv, FreshInv, InFlight,
                       Running, CallBound
<1>1. /\ pc[k] \in RefreshGone => NoActiveRefresh(a)
      /\ pc[k] \in AccessGone => NoBackChannelAccess(a)
      /\ a \in ended /\ CodeFlow(a) =>
           /\ NoLiveToken(a) /\ ~authorizeCodes[a].active
           /\ pc[k] \notin Exchanging \union Rotating
  BY DEF Serial, Progress, EndedDead
<1>2. CodeFlow(a)' => CodeFlow(a)
  BY <1>0 DEF CodeStep, CodeFlow
<1>3. CASE ReplayRevokeAccess(k) \/ RotateRevokeAccess(k)
              \/ ReuseRevokeAccess(k) \/ RevokeAccess(k)
  <2>1. /\ RevokeAccessToken(a)
        /\ UNCHANGED <<authorizeCodes, refreshVars, reqs, presented>>
        /\ \/ /\ pc[k] = "replay_at"
              /\ pc' = [pc EXCEPT ![k] = "replay_rt"]
              /\ ended' = ended
           \/ /\ pc[k] = "refresh_rotate_at"
              /\ pc' = [pc EXCEPT ![k] = "refresh_create_at"]
              /\ ended' = ended
           \/ /\ pc[k] = "reuse_at"
              /\ pc' = [pc EXCEPT ![k] = "reused"]
              /\ ended' = ended \union {a}
           \/ /\ pc[k] = "revoke_at"
              /\ pc' = [pc EXCEPT ![k] = "revoked"]
              /\ ended' = ended \union {a}
    BY <1>0, <1>3 DEF ReplayRevokeAccess, RotateRevokeAccess, ReuseRevokeAccess,
                      RevokeAccess
  <2>2. /\ NoBackChannelAccess(a)' /\ Indexed(a)'
        /\ \A s \in Calls : LiveAccess(s, a)' => LiveAccess(s, a)
        /\ \A t \in Calls : ActiveRefresh(t, a)' <=> ActiveRefresh(t, a)
    BY <1>0, <2>1, RevokeAccessEffect
  <2>3. SoloMove(k, a)
    BY <1>0, <2>1, <2>2 DEF SoloMove, TypeOK
  <2>4. NoActiveRefresh(a) => NoActiveRefresh(a)'
    BY <2>2 DEF NoActiveRefresh
  <2>5. /\ pc'[k] \in {"replay_rt", "refresh_create_at", "reused", "revoked"}
        /\ pc'[k] = "refresh_create_at" => pc[k] = "refresh_rotate_at"
        /\ pc'[k] = "reused" => pc[k] = "reuse_at"
        /\ pc'[k] = "revoked" => pc[k] = "revoke_at"
        /\ pc'[k] = "replay_rt" => pc[k] = "replay_at"
    BY <1>0, <2>1 DEF TypeOK
  <2>6. pc'[k] \in RefreshGone => NoActiveRefresh(a)'
    BY <1>1, <2>4, <2>5 DEF RefreshGone, Exchanging
  <2>7. a \in ended' /\ CodeFlow(a)' =>
           /\ NoActiveRefresh(a)' /\ ~authorizeCodes'[a].active
           /\ pc'[k] \notin Exchanging \union Rotating
    <3>1. CASE a \in ended
      BY <1>1, <1>2, <2>1, <2>4, <2>5, <3>1
         DEF NoLiveToken, NoActiveRefresh, Exchanging, Rotating
    <3>2. CASE pc[k] \in {"reuse_at", "revoke_at"}
      BY <1>0, <1>1, <1>2, <2>1, <2>4, <2>5, <3>2
         DEF RefreshGone, CallBound, Unsettled, Exchanging, Rotating
    <3> QED
      BY <2>1, <3>1, <3>2
  <2>8. pc'[k] \in {"refreshed", "reused", "revoked"} =>
              IF presented[k].kind = "refresh"
              THEN ~ActiveRefresh(presented[k].sig, a)'
              ELSE CodeFlow(a)' => ~LiveAccess(presented[k].sig, a)'
    <3> SUFFICES ASSUME pc[k] \in {"reuse_at", "revoke_at"}
                 PROVE  IF presented[k].kind = "refresh"
                        THEN ~ActiveRefresh(presented[k].sig, a)'
                        ELSE CodeFlow(a)' => ~LiveAccess(presented[k].sig, a)'
      BY <2>5
    <3>1. NoActiveRefresh(a)'
      BY <1>1, <2>4 DEF RefreshGone
    <3>2. presented[k] \in Token
            /\ (presented[k].kind = "refresh" => presented[k].sig \in Calls)
      BY <1>0 DEF CallsOK, CallFresh
    <3>3. presented[k].sig \in AuthReqs \union Calls
      BY <3>2 DEF Token, AccessSignatures
    <3>4. ASSUME presented[k].sig \in AuthReqs, LiveAccess(presented[k].sig, a)'
          PROVE  ~CodeFlow(a)'
      BY <1>0, <2>1, <3>4 DEF FrontChannelNamed, LiveAccess
    <3> QED
      BY <2>1, <2>2, <3>1, <3>2, <3>3, <3>4 DEF NoActiveRefresh, NoBackChannelAccess
  <2> QED
    BY <1>0, <2>2, <2>3, <2>5, <2>6, <2>7, <2>8, SoloSerial DEF Exchanging
<1>4. CASE ReplayRevokeRefresh(k) \/ RotateRevokeRefresh(k)
              \/ ReuseRevokeRefresh(k) \/ RevokeRefresh(k)
  <2>1. /\ RevokeRefreshToken(a)
        /\ UNCHANGED <<authorizeCodes, accessVars, reqs, presented>>
        /\ \/ /\ pc[k] = "replay_rt"
              /\ pc' = [pc EXCEPT ![k] = "replayed"]
              /\ ended' = ended \union {a}
           \/ /\ pc[k] = "refresh_rotate_rt" /\ ended' = ended
              /\ \E step \in {"failed", "refresh_rotate_at"} : pc' = [pc EXCEPT ![k] = step]
           \/ /\ pc[k] = "reuse_rt"
              /\ pc' = [pc EXCEPT ![k] = "reuse_at"]
              /\ ended' = ended
           \/ /\ pc[k] = "revoke_rt"
              /\ pc' = [pc EXCEPT ![k] = "revoke_at"]
              /\ ended' = ended
    BY <1>0, <1>4 DEF ReplayRevokeRefresh, RotateRevokeRefresh, ReuseRevokeRefresh,
                      RevokeRefresh
  <2>2. /\ NoActiveRefresh(a)' /\ Indexed(a)'
        /\ \A t \in Calls : ActiveRefresh(t, a)' => ActiveRefresh(t, a)
        /\ \A s \in Calls : LiveAccess(s, a)' <=> LiveAccess(s, a)
    BY <1>0, <2>1, RevokeRefreshEffect
  <2>3. SoloMove(k, a)
    BY <1>0, <2>1, <2>2 DEF SoloMove, TypeOK
  <2>4. NoBackChannelAccess(a) => NoBackChannelAccess(a)'
    BY <2>2 DEF NoBackChannelAccess
  <2>5. /\ pc'[k] \in {"replayed", "failed", "refresh_rotate_at", "reuse_at", "revoke_at"}
        /\ pc'[k] = "refresh_rotate_at" => pc[k] = "refresh_rotate_rt"
    BY <1>0, <2>1 DEF TypeOK
  <2>6. a \in ended' /\ CodeFlow(a)' =>
           /\ NoBackChannelAccess(a)' /\ ~authorizeCodes'[a].active
           /\ pc'[k] \notin Exchanging \union Rotating
    <3>1. CASE a \in ended
      BY <1>1, <1>2, <2>1, <2>4, <2>5, <3>1
         DEF NoLiveToken, NoBackChannelAccess, AccessSignatures, Exchanging, Rotating
    <3>2. CASE pc[k] = "replay_rt" /\ pc'[k] = "replayed"
      BY <1>0, <1>1, <2>1, <2>4, <3>2
         DEF AccessGone, CallBound, Unsettled, Exchanging, Rotating
    <3> QED
      BY <1>0, <2>1, <3>1, <3>2 DEF TypeOK
  <2> QED
    BY <1>0, <2>2, <2>3, <2>5, <2>6, SoloSerial DEF Exchanging, AccessGone
<1>5. CASE ReuseDelete(k)
  <2>1. /\ pc[k] = "reuse_delete"
        /\ pc' = [pc EXCEPT ![k] = "reuse_rt"]
        /\ UNCHANGED <<authorizeCodes, accessTokens, accessTokenRequestIDs,
                       refreshTokenRequestIDs, reqs, presented, ended>>
        /\ refreshTokens' = [refreshTokens EXCEPT ![presented[k].sig] = None]
    BY <1>5 DEF ReuseDelete, DeleteRefreshTokenSession, accessVars
  <2>2. \A t \in Calls : ActiveRefresh(t, a)' => ActiveRefresh(t, a)
    BY <1>0, <2>1 DEF ActiveRefresh, StoreTypeOK
  <2>3. \A s \in AccessSignatures : LiveAccess(s, a)' <=> LiveAccess(s, a)
    BY <2>1 DEF LiveAccess
  <2>4. Indexed(a)' /\ pc'[k] = "reuse_rt"
    BY <1>0, <2>1, <2>2, <2>3 DEF Indexed, AccessSignatures, TypeOK
  <2>5. SoloMove(k, a)
    BY <1>0, <2>1, <2>2, <2>3 DEF SoloMove, TypeOK, AccessSignatures
  <2>6. a \in ended' /\ CodeFlow(a)' =>
           /\ NoActiveRefresh(a)' /\ NoBackChannelAccess(a)'
           /\ ~authorizeCodes'[a].active
    BY <1>1, <1>2, <2>1, <2>2, <2>3 DEF NoLiveToken, NoActiveRefresh, NoBackChannelAccess,
                                 AccessSignatures
  <2> QED
    BY <1>0, <2>4, <2>5, <2>6, SoloSerial
       DEF Exchanging, Rotating, AccessGone, RefreshGone
<1>6. CASE ExchangePopulate(k) \/ ExchangeInvalidate(k)
  <2>1. /\ UNCHANGED <<accessVars, refreshVars, presented, ended>>
        /\ \/ /\ pc[k] = "code_populate"
              /\ \E step \in {"failed", "code_invalidate"} : pc' = [pc EXCEPT ![k] = step]
           \/ pc[k] = "code_invalidate" /\ pc' = [pc EXCEPT ![k] = "code_create_at"]
        /\ \/ reqs' = reqs
           \/ reqs' = [reqs EXCEPT ![k].scopes = authorizeCodes[reqs[k].id].req.scopes]
    BY <1>6 DEF ExchangePopulate, ExchangeInvalidate, storeVars
  <2>2. /\ reqs'[k].id = a
        /\ \A j \in Calls : j # k => reqs'[j] = reqs[j] /\ pc'[j] = pc[j]
    BY <1>0, <2>1 DEF TypeOK, Requester
  <2>3. /\ \A t \in Calls : ActiveRefresh(t, a)' <=> ActiveRefresh(t, a)
        /\ \A s \in Calls : LiveAccess(s, a)' <=> LiveAccess(s, a)
        /\ Indexed(a)'
    BY <1>0, <2>1 DEF ActiveRefresh, LiveAccess, Indexed, accessVars, refreshVars
  <2>4. SoloMove(k, a)
    BY <2>1, <2>2, <2>3, InFlight(k, a) DEF SoloMove
  <2>5. /\ pc[k] \in {"code_populate", "code_invalidate"}
        /\ pc'[k] \in {"failed", "code_invalidate", "code_create_at"}
    BY <1>0, <2>1 DEF TypeOK
  <2>6. NoActiveRefresh(a)' /\ NoBackChannelAccess(a)'
    BY <1>1, <2>3, <2>5 DEF RefreshGone, AccessGone, Exchanging, NoActiveRefresh,
                            NoBackChannelAccess
  <2>7. ~(a \in ended' /\ CodeFlow(a)')
    BY <1>1, <1>2, <2>1, <2>5 DEF Exchanging
  <2> QED
    BY <1>0, <2>3, <2>4, <2>5, <2>6, <2>7, SoloSerial DEF Exchanging
<1>7. CASE ExchangeCreateAccess(k) \/ RefreshCreateAccess(k)
  <2>1. /\ UNCHANGED <<authorizeCodes, refreshVars, reqs, presented, ended>>
        /\ accessTokens' = [accessTokens EXCEPT ![k] = reqs[k]]
        /\ accessTokenRequestIDs' = [accessTokenRequestIDs EXCEPT ![a] = k]
        /\ \/ /\ pc[k] = "code_create_at"
              /\ \E step \in {"code_create_rt", "exchanged"} : pc' = [pc EXCEPT ![k] = step]
           \/ pc[k] = "refresh_create_at" /\ pc' = [pc EXCEPT ![k] = "refresh_create_rt"]
    BY <1>0, <1>7 DEF ExchangeCreateAccess, RefreshCreateAccess,
                      CreateAccessTokenSession
  <2>2. /\ pc[k] \in {"code_create_at", "refresh_create_at"}
        /\ pc'[k] \in {"code_create_rt", "exchanged", "refresh_create_rt"}
        /\ pc'[k] \in {"code_create_rt", "exchanged"} => pc[k] = "code_create_at"
    BY <1>0, <2>1 DEF TypeOK
  <2>3. \A t \in Calls : ActiveRefresh(t, a)' <=> ActiveRefresh(t, a)
    BY <2>1 DEF ActiveRefresh, refreshVars
  <2>4. NoActiveRefresh(a)' /\ NoBackChannelAccess(a)
    BY <1>1, <2>2, <2>3 DEF RefreshGone, AccessGone, Exchanging, NoActiveRefresh
  <2>5. \A s \in Calls : LiveAccess(s, a)' => s = k
    BY <1>0, <2>1, <2>4 DEF NoBackChannelAccess, LiveAccess, StoreTypeOK,
                            AccessSignatures
  <2>6. Indexed(a)'
    BY <1>0, <2>1, <2>4, <2>5 DEF Indexed, NoActiveRefresh, StoreTypeOK
  <2>7. SoloMove(k, a)
    BY <1>0, <2>1, <2>2, <2>3, <2>5, InFlight(k, a) DEF SoloMove, TypeOK, AccessStored
  <2>8. ~(a \in ended' /\ CodeFlow(a)')
    BY <1>1, <1>2, <2>1, <2>2 DEF Exchanging, Rotating
  <2> QED
    BY <1>0, <2>2, <2>4, <2>6, <2>7, <2>8, SoloSerial DEF Exchanging, AccessGone
<1>8. CASE ExchangeCreateRefresh(k) \/ RefreshCreateRefresh(k)
  <2>1. /\ UNCHANGED <<authorizeCodes, accessVars, reqs, presented, ended>>
        /\ refreshTokens' = [refreshTokens EXCEPT ![k] = [active |-> TRUE, req |-> reqs[k]]]
        /\ refreshTokenRequestIDs' = [refreshTokenRequestIDs EXCEPT ![a] = k]
        /\ \/ pc[k] = "code_create_rt" /\ pc' = [pc EXCEPT ![k] = "exchanged"]
           \/ pc[k] = "refresh_create_rt" /\ pc' = [pc EXCEPT ![k] = "refreshed"]
    BY <1>0, <1>8 DEF ExchangeCreateRefresh, RefreshCreateRefresh,
                      CreateRefreshTokenSession
  <2>2. /\ pc[k] \in {"code_create_rt", "refresh_create_rt"}
        /\ pc'[k] \in {"exchanged", "refreshed"}
        /\ pc'[k] = "exchanged" => pc[k] = "code_create_rt"
        /\ pc'[k] = "refreshed" => pc[k] = "refresh_create_rt"
    BY <1>0, <2>1 DEF TypeOK
  <2>3. \A s \in Calls : LiveAccess(s, a)' <=> LiveAccess(s, a)
    BY <2>1 DEF LiveAccess, accessVars
  <2>4. NoActiveRefresh(a)
    BY <1>1, <2>2 DEF RefreshGone, Exchanging
  <2>5. \A t \in Calls : ActiveRefresh(t, a)' => t = k
    BY <1>0, <2>1, <2>4 DEF NoActiveRefresh, ActiveRefresh, StoreTypeOK
  <2>6. Indexed(a)'
    BY <1>0, <2>1, <2>3, <2>5 DEF Indexed, accessVars, StoreTypeOK
  <2>7. SoloMove(k, a)
    BY <1>0, <2>1, <2>2, <2>3, <2>5, InFlight(k, a) DEF SoloMove, TypeOK, RefreshStored
  <2>8. ~(a \in ended' /\ CodeFlow(a)')
    BY <1>1, <1>2, <2>1, <2>2 DEF Exchanging, Rotating
  <2>9. pc'[k] = "refreshed" =>
           /\ presented[k].kind = "refresh"
           /\ ~ActiveRefresh(presented[k].sig, a)'
    <3> SUFFICES ASSUME pc[k] = "refresh_create_rt"
                 PROVE  /\ presented[k].kind = "refresh"
                        /\ ~ActiveRefresh(presented[k].sig, a)'
      BY <2>2
    <3>1. presented[k] \in Token /\ presented[k].kind = "refresh"
             /\ presented[k].sig \in Calls
      BY <1>0 DEF CallsOK
    <3>2. presented[k].sig # k
      BY <1>0, <3>1, NoTokenAssumption DEF CallFresh, RefreshStored
    <3> QED
      BY <2>1, <2>5, <3>1, <3>2
  <2> QED
    BY <1>0, <2>2, <2>6, <2>7, <2>8, <2>9, SoloSerial
       DEF Exchanging, AccessGone, RefreshGone
<1>9. CASE Drop(k)
  <2>1. /\ UNCHANGED <<authorizeCodes, accessVars, refreshVars, reqs, presented, ended>>
        /\ pc[k] \in {"code_populate", "refresh_rotate_rt"}
        /\ pc' = [pc EXCEPT ![k] = "failed"]
    BY <1>9 DEF Drop, storeVars
  <2>2. pc'[k] = "failed" /\ \A j \in Calls : j # k => pc'[j] = pc[j]
    BY <1>0, <2>1 DEF TypeOK
  <2>3. /\ \A t \in Calls : ActiveRefresh(t, a)' <=> ActiveRefresh(t, a)
        /\ \A s \in Calls : LiveAccess(s, a)' <=> LiveAccess(s, a)
        /\ Indexed(a)'
    BY <1>0, <2>1 DEF ActiveRefresh, LiveAccess, Indexed, accessVars, refreshVars
  <2>4. SoloMove(k, a)
    BY <1>0, <2>1, <2>2, <2>3, InFlight(k, a) DEF SoloMove
  <2>5. ~(a \in ended' /\ CodeFlow(a)')
    BY <1>1, <1>2, <2>1 DEF Exchanging, Rotating
  <2> QED
    BY <1>0, <2>2, <2>3, <2>4, <2>5, SoloSerial DEF Exchanging, AccessGone, RefreshGone
<1> QED
  BY <1>3, <1>4, <1>5, <1>6, <1>7, <1>8, <1>9 DEF Continue

\* The later steps of a call keep what holds of every other request: the
\* tokens it revokes may be anybody's, those it creates are its own.
LEMMA ContinueOther ==
    ASSUME TypeInv, GrantInv, FreshInv, GrantInv', TableStep, NEW k \in Calls,
           Continue(k), NEW a \in AuthReqs, Serial(a), reqs[k].id # a
    PROVE  Serial(a)'
<1> DEFINE id == reqs[k].id
<1>0. TypeOK /\ StoreTypeOK /\ CodeStep(a) /\ id \in AuthReqs /\ reqs[k] \in Requester
  BY ContinueHolds DEF TypeInv, TypeOK, TableStep
<1>1. /\ \A j \in Calls : j # k => pc'[j] = pc[j] /\ reqs'[j] = reqs[j]
      /\ reqs'[k].id = id
      /\ presented' = presented
      /\ ended' \in {ended, ended \union {id}}
  <2>1. \/ reqs' = reqs
        \/ reqs' = [reqs EXCEPT ![k].scopes = authorizeCodes[reqs[k].id].req.scopes]
    BY DEF Continue, ReplayRevokeAccess, ReplayRevokeRefresh, ExchangePopulate, Drop,
           ExchangeInvalidate, ExchangeCreateAccess, ExchangeCreateRefresh,
           RotateRevokeRefresh, RotateRevokeAccess, RefreshCreateAccess,
           RefreshCreateRefresh, ReuseDelete, ReuseRevokeRefresh,
           ReuseRevokeAccess, RevokeRefresh, RevokeAccess
  <2>2. (\A j \in Calls : j # k => reqs'[j] = reqs[j]) /\ reqs'[k].id = id
    BY <1>0, <2>1 DEF TypeOK, Requester
  <2>3. /\ \A j \in Calls : j # k => pc'[j] = pc[j]
        /\ presented' = presented
        /\ ended' \in {ended, ended \union {id}}
    BY <1>0 DEF TypeOK, Goto, Continue, ReplayRevokeAccess, ReplayRevokeRefresh,
           ExchangePopulate, ExchangeInvalidate, Drop, ExchangeCreateAccess,
           ExchangeCreateRefresh, RotateRevokeRefresh, RotateRevokeAccess,
           RefreshCreateAccess, RefreshCreateRefresh, ReuseDelete,
           ReuseRevokeRefresh, ReuseRevokeAccess, RevokeRefresh, RevokeAccess
  <2> QED
    BY <2>2, <2>3
<1>2. /\ refreshTokenRequestIDs'[a] = refreshTokenRequestIDs[a]
      /\ accessTokenRequestIDs'[a] = accessTokenRequestIDs[a]
  BY <1>0 DEF StoreTypeOK, Continue, ReplayRevokeAccess, ReplayRevokeRefresh,
           ExchangePopulate, ExchangeInvalidate, Drop, ExchangeCreateAccess,
           ExchangeCreateRefresh, RotateRevokeRefresh, RotateRevokeAccess,
           RefreshCreateAccess, RefreshCreateRefresh, ReuseDelete,
           ReuseRevokeRefresh, ReuseRevokeAccess, RevokeRefresh, RevokeAccess,
           storeVars, accessVars, refreshVars, RevokeAccessToken,
           RevokeRefreshToken, CreateAccessTokenSession,
           CreateRefreshTokenSession, DeleteRefreshTokenSession
<1>3. ASSUME NEW t \in Calls, ActiveRefresh(t, a)' PROVE ActiveRefresh(t, a)
  <2>1. CASE refreshTokens'[t] \in {refreshTokens[t], None}
    BY <1>3, <2>1 DEF ActiveRefresh
  <2>2. CASE /\ refreshTokens[t] # None
             /\ refreshTokens'[t] = [refreshTokens[t] EXCEPT !.active = FALSE]
    <3>1. refreshTokens[t] \in RefreshSession
      BY <1>0, <2>2 DEF StoreTypeOK
    <3> QED
      BY <1>3, <2>2, <3>1 DEF ActiveRefresh, RefreshSession
  <2>3. CASE /\ pc'[t] # pc[t]
             /\ refreshTokens'[t] = [active |-> TRUE, req |-> reqs[t]]
    <3>1. t = k
      BY <1>1, <2>3
    <3> QED
      BY <1>3, <2>3, <3>1 DEF ActiveRefresh
  <2> QED
    BY <2>1, <2>2, <2>3 DEF TableStep, RefreshStep
<1>4. ASSUME NEW s \in Calls, LiveAccess(s, a)' PROVE LiveAccess(s, a)
  <2>1. CASE accessTokens'[s] \in {accessTokens[s], None}
    BY <1>4, <2>1 DEF LiveAccess
  <2>2. CASE pc'[s] # pc[s] /\ accessTokens'[s] = reqs[s]
    <3>1. s = k
      BY <1>1, <2>2
    <3> QED
      BY <1>4, <2>2, <3>1 DEF LiveAccess
  <2>3. AccessStep(s) /\ s \notin AuthReqs
    BY NamesAssumption DEF TableStep, AccessSignatures
  <2> QED
    BY <2>1, <2>2, <2>3 DEF AccessStep
<1>5. Untouched(a)
  BY <1>0, <1>1, <1>2, <1>3, <1>4 DEF Untouched
<1> QED
  BY <1>5, UntouchedSerial DEF GrantInv

\* Issuing a code, for whatever request.
LEMMA AuthorizeSerial ==
    ASSUME TypeInv, GrantInv, FreshInv, GrantInv', TableStep, NEW b \in AuthReqs,
           NEW c \in Clients, NEW g \in SUBSET Scopes, NEW type \in ResponseTypes,
           Authorize(b, c, g, type), NEW a \in AuthReqs, Serial(a)
    PROVE  Serial(a)'
<1>0. TypeOK /\ StoreTypeOK /\ CodeStep(a)
  BY DEF TypeInv, TypeOK, TableStep
<1>1. /\ UNCHANGED <<pc, reqs, presented, ended, refreshTokens, refreshTokenRequestIDs>>
      /\ authorizeCodes[b] = None
      /\ \/ UNCHANGED accessVars
         \/ CreateAccessTokenSession(b, [id |-> b, client |-> c, scopes |-> g])
  BY DEF Authorize, refreshVars, callVars
<1>2. \A s \in Calls : LiveAccess(s, a)' <=> LiveAccess(s, a)
  <2>1. \A s \in Calls : accessTokens'[s] = accessTokens[s]
    BY <1>0, <1>1, NamesAssumption DEF accessVars, CreateAccessTokenSession,
                                       StoreTypeOK, AccessSignatures
  <2> QED
    BY <2>1 DEF LiveAccess
<1>3. \A t \in Calls : ActiveRefresh(t, a)' <=> ActiveRefresh(t, a)
  BY <1>1 DEF ActiveRefresh
<1>4. CASE a # b
  <2>1. accessTokenRequestIDs'[a] = accessTokenRequestIDs[a]
    BY <1>0, <1>1, <1>4 DEF accessVars, CreateAccessTokenSession, StoreTypeOK
  <2>2. Untouched(a)
    BY <1>0, <1>1, <1>2, <1>3, <2>1 DEF Untouched
  <2> QED
    BY <2>2, UntouchedSerial DEF GrantInv
<1>5. CASE a = b
  <2>1. \A j \in Calls : pc[j] # "idle" => reqs[j].id # a
    BY <1>1, <1>5 DEF GrantInv, CallBound
  <2>2. a \notin ended
    BY <1>1, <1>5 DEF FreshInv
  <2>3. \A t \in Calls : ~ActiveRefresh(t, a)' /\ ~LiveAccess(t, a)'
    BY <1>1, <1>2, <1>3, <1>5
       DEF GrantInv, TokensBoundToGrant, BoundTo, ActiveRefresh, LiveAccess,
           AccessSignatures
  <2>4. Indexed(a)' /\ EndedDead(a)'
    BY <1>1, <2>2, <2>3 DEF Indexed, EndedDead
  <2>5. OneInFlight(a)' /\ Progress(a)' /\ Redeemed(a)' /\ PresentedDead(a)'
    <3>1. \A j \in Calls : pc'[j] # "idle" => reqs'[j].id # a
      BY <1>1, <2>1
    <3> QED
      BY <3>1 DEF OneInFlight, Progress, Redeemed, PresentedDead, InFlight, Running
  <2> QED
    BY <2>4, <2>5 DEF Serial
<1> QED
  BY <1>4, <1>5

-----------------------------------------------------------------------------
(* All together.                                                           *)

\* Nothing has happened initially.
LEMMA SerialInit == Init => SerialInv
<1> SUFFICES ASSUME Init, NEW a \in AuthReqs PROVE Serial(a)
  BY DEF SerialInv
<1>1. /\ \A k \in Calls : pc[k] = "idle" /\ refreshTokens[k] = None
      /\ \A s \in Calls : accessTokens[s] = None
      /\ ended = {}
  BY DEF Init, StoreInit, AccessSignatures
<1> QED
  BY <1>1 DEF Serial, OneInFlight, Indexed, Progress, Redeemed, EndedDead,
              PresentedDead, InFlight, Running, ActiveRefresh, LiveAccess

\* A race is not forgotten.
LEMMA RacedGrows == ASSUME Next PROVE raced \subseteq raced'
<1>1. ASSUME NEW k \in Calls, Continue(k) PROVE raced' = raced
  BY <1>1 DEF Continue, ReplayRevokeAccess, ReplayRevokeRefresh,
       ExchangePopulate, ExchangeInvalidate, Drop, ExchangeCreateAccess,
       ExchangeCreateRefresh, RotateRevokeRefresh, RotateRevokeAccess,
       RefreshCreateAccess, RefreshCreateRefresh, ReuseDelete,
       ReuseRevokeRefresh, ReuseRevokeAccess, RevokeRefresh, RevokeAccess
<1>2. ASSUME NEW k \in Calls, NEW c \in Clients, Begin(k, c)
      PROVE  raced \subseteq raced'
  BY <1>2 DEF Begin, ExchangeGet, RefreshGet, RevokeGetRefresh, RevokeGetAccess,
              Start
<1> QED
  BY <1>1, <1>2 DEF Next, Authorize

\* Every step keeps what holds of the requests no two calls race for.
LEMMA SerialStep ==
    ASSUME TypeInv, GrantInv, FreshInv, SerialInv, [Next]_vars
    PROVE  SerialInv'
<1>1. GrantInv' /\ TableStep
  BY GrantStep, TablesStep
<1>2. CASE UNCHANGED vars
  BY <1>2 DEF vars, storeVars, accessVars, refreshVars, callVars, SerialInv,
       Serial, OneInFlight, Indexed, Progress, Redeemed, EndedDead,
       PresentedDead, InFlight, ActiveRefresh, LiveAccess, NoActiveRefresh,
       NoBackChannelAccess, NoLiveToken, CodeFlow
<1>3. CASE Next
  <2> SUFFICES ASSUME NEW a \in AuthReqs \ raced' PROVE Serial(a)'
    BY DEF SerialInv
  <2>1. a \notin raced /\ Serial(a)
    BY <1>3, RacedGrows DEF SerialInv
  <2>2. ASSUME NEW b \in AuthReqs, NEW c \in Clients, NEW g \in SUBSET Scopes,
               NEW type \in ResponseTypes, Authorize(b, c, g, type)
        PROVE  Serial(a)'
    BY <1>1, <2>1, <2>2, AuthorizeSerial
  <2>3. ASSUME NEW k \in Calls, NEW c \in Clients, Begin(k, c)
        PROVE  Serial(a)'
    BY <1>1, <2>1, <2>3, BeginSerial
  <2>4. ASSUME NEW k \in Calls, Continue(k) PROVE Serial(a)'
    <3>1. CASE reqs[k].id = a
      <4>1. InFlight(k, a)
        BY <2>4, <3>1, ContinueHolds DEF InFlight
      <4> QED
        BY <1>1, <2>1, <2>4, <4>1, ContinueSerial
    <3>2. CASE reqs[k].id # a
      BY <1>1, <2>1, <2>4, <3>2, ContinueOther
    <3> QED
      BY <3>1, <3>2
  <2> QED
    BY <1>3, <2>2, <2>3, <2>4 DEF Next
<1> QED
  BY <1>2, <1>3

\* The inductive invariant of this module.
LEMMA AllInvariant == Spec => []AllInv
<1>1. Init => AllInv
  BY TypeInit, GrantInit, FreshInit, SerialInit DEF AllInv
<1>2. AllInv /\ [Next]_vars => AllInv'
  BY TypeStep, GrantStep, FreshStep, SerialStep DEF AllInv
<1> QED
  BY <1>1, <1>2, PTL DEF Spec

\* Without overlapping calls a code is redeemed at most once: PopulateToken-
\* EndpointResponse reads it again and invalidates it before it issues.
THEOREM CodeIsRedeemedOnce == Spec => []CodeRedeemedOnce
<1>1. AllInv => CodeRedeemedOnce
  <2> SUFFICES ASSUME AllInv, NEW j \in Calls, NEW k \in Calls,
                      pc[j] = "exchanged", pc[k] = "exchanged",
                      reqs[j].id = reqs[k].id, reqs[j].id \notin raced
               PROVE  j = k
    BY DEF CodeRedeemedOnce
  <2>1. reqs[j].id \in AuthReqs
    BY DEF AllInv, TypeInv, CallsOK, Requester
  <2> QED
    BY <2>1 DEF AllInv, SerialInv, Serial, Redeemed
<1> QED
  BY <1>1, AllInvariant, PTL

\* Without overlapping calls rotation replaces: RotateRefreshToken, which goes
\* by the request ID, finds the one active refresh token.
THEOREM RotationAlwaysReplaces == Spec => []RotationReplaces
<1>1. AllInv => RotationReplaces
  BY DEF AllInv, SerialInv, Serial, Indexed, RotationReplaces
<1> QED
  BY <1>1, AllInvariant, PTL

\* Without overlapping calls a token that was used to refresh, or was revoked,
\* is dead when the call returns, and stays dead.
THEOREM PresentedTokensDie == Spec => []PresentedTokenDead
<1>1. AllInv => PresentedTokenDead
  <2> SUFFICES ASSUME AllInv, NEW k \in Calls, reqs[k].id \notin raced,
                      pc[k] \in {"refreshed", "reused", "revoked"}
               PROVE  IF presented[k].kind = "refresh"
                      THEN ~ActiveRefresh(presented[k].sig, reqs[k].id)
                      ELSE CodeFlow(reqs[k].id) =>
                              ~LiveAccess(presented[k].sig, reqs[k].id)
    BY DEF PresentedTokenDead
  <2>1. reqs[k].id \in AuthReqs
    BY DEF AllInv, TypeInv, CallsOK, Requester
  <2> QED
    BY <2>1 DEF AllInv, SerialInv, Serial, PresentedDead
<1> QED
  BY <1>1, AllInvariant, PTL

\* Without overlapping calls a replay, a reuse or a revocation ends the grant
\* of a code flow for good.
THEOREM EndedGrantsStayDead == Spec => []EndedGrantStaysDead
<1>1. AllInv => EndedGrantStaysDead
  BY DEF AllInv, TypeInv, TypeOK, SerialInv, Serial, EndedDead, EndedGrantStaysDead
<1> QED
  BY <1>1, AllInvariant, PTL

-----------------------------------------------------------------------------
(* What a step may never do to a token: bring it back, delete an active    *)
(* refresh token, or touch a token of a request nobody works for.          *)

\* The request ID indexes lead to tokens that were stored for that request.
AccessIndexed(a) ==
    accessTokenRequestIDs[a] # None =>
        /\ IF accessTokenRequestIDs[a] \in Calls
           THEN pc[accessTokenRequestIDs[a]] \in AccessStored
           ELSE accessTokenRequestIDs[a] = a /\ authorizeCodes[a] # None
        /\ accessTokens[accessTokenRequestIDs[a]] # None =>
              accessTokens[accessTokenRequestIDs[a]].id = a

RefreshIndexed(a) ==
    refreshTokenRequestIDs[a] # None =>
        /\ pc[refreshTokenRequestIDs[a]] \in RefreshStored
        /\ refreshTokens[refreshTokenRequestIDs[a]] # None =>
              refreshTokens[refreshTokenRequestIDs[a]].req.id = a

\* handleRefreshTokenReuse runs for a token that was read inactive.
ReuseInactive(k) ==
    pc[k] = "reuse_delete" =>
        \/ refreshTokens[presented[k].sig] = None
        \/ ~refreshTokens[presented[k].sig].active

IndexInv ==
    /\ \A a \in AuthReqs : AccessIndexed(a) /\ RefreshIndexed(a)
    /\ \A k \in Calls : ReuseInactive(k)

AgingInv == TypeInv /\ GrantInv /\ FreshInv /\ IndexInv

-----------------------------------------------------------------------------

\* An index entry stays, or leads to the token that is stored with it.
LEMMA IndexMoves ==
    ASSUME TypeInv, [Next]_vars, NEW a \in AuthReqs
    PROVE  /\ \/ accessTokenRequestIDs'[a] = accessTokenRequestIDs[a]
              \/ \E k \in Calls :
                    /\ accessTokenRequestIDs'[a] = k
                    /\ pc'[k] \in AccessStored
                    /\ reqs[k].id = a
                    /\ accessTokens'[k] = reqs[k]
              \/ /\ accessTokenRequestIDs'[a] = a
                 /\ authorizeCodes'[a] # None
                 /\ accessTokens'[a].id = a
           /\ \/ refreshTokenRequestIDs'[a] = refreshTokenRequestIDs[a]
              \/ \E k \in Calls :
                    /\ refreshTokenRequestIDs'[a] = k
                    /\ pc'[k] \in RefreshStored
                    /\ reqs[k].id = a
                    /\ refreshTokens'[k] = [active |-> TRUE, req |-> reqs[k]]
<1> DEFINE ASame == accessTokenRequestIDs' = accessTokenRequestIDs
           RSame == refreshTokenRequestIDs' = refreshTokenRequestIDs
           ANew == \E k \in Calls :
                    /\ accessTokenRequestIDs'[a] = k
                    /\ pc'[k] \in AccessStored
                    /\ reqs[k].id = a
                    /\ accessTokens'[k] = reqs[k]
           AFront == /\ accessTokenRequestIDs'[a] = a
                     /\ authorizeCodes'[a] # None
                     /\ accessTokens'[a].id = a
           RNew == \E k \in Calls :
                    /\ refreshTokenRequestIDs'[a] = k
                    /\ pc'[k] \in RefreshStored
                    /\ reqs[k].id = a
                    /\ refreshTokens'[k] = [active |-> TRUE, req |-> reqs[k]]
           AStays == accessTokenRequestIDs'[a] = accessTokenRequestIDs[a]
           RStays == refreshTokenRequestIDs'[a] = refreshTokenRequestIDs[a]
<1>0. TypeOK /\ StoreTypeOK
  BY DEF TypeInv, TypeOK
<1>1. CASE UNCHANGED vars
  BY <1>1 DEF vars, storeVars, accessVars, refreshVars
<1>2. ASSUME NEW b \in AuthReqs, NEW c \in Clients, NEW g \in SUBSET Scopes,
             NEW type \in ResponseTypes, Authorize(b, c, g, type)
      PROVE  RStays /\ (AStays \/ AFront)
  <2>1. RStays
    BY <1>2 DEF Authorize, refreshVars
  <2>2. CASE UNCHANGED accessVars
    BY <2>1, <2>2 DEF accessVars
  <2>3. CASE /\ CreateAccessTokenSession(b, [id |-> b, client |-> c, scopes |-> g])
    <3> DEFINE req == [id |-> b, client |-> c, scopes |-> g]
    <3>1. /\ accessTokens'[b] = req
          /\ accessTokenRequestIDs' = [accessTokenRequestIDs EXCEPT ![b] = b]
      BY <1>0, <2>3 DEF CreateAccessTokenSession, StoreTypeOK, AccessSignatures
    <3>2. authorizeCodes' = [authorizeCodes EXCEPT ![b] =
                                [active |-> TRUE, req |-> req, responseType |-> type]]
      BY <1>2 DEF Authorize, CreateAuthorizeCodeSession
    <3>3. [active |-> TRUE, req |-> req, responseType |-> type] \in CodeSession
      BY DEF CodeSession, Requester
    <3>4. authorizeCodes'[b] # None
      BY <1>0, <3>2, <3>3, NoneAssumption DEF StoreTypeOK
    <3> QED
      BY <1>0, <2>1, <3>1, <3>4 DEF StoreTypeOK
  <2> QED
    BY <1>2, <2>1, <2>2, <2>3 DEF Authorize
<1>3. ASSUME NEW j \in Calls, NEW c \in Clients, Begin(j, c)
      PROVE  AStays /\ RStays
  BY <1>3 DEF Begin, ExchangeGet, RefreshGet, RevokeGetRefresh, RevokeGetAccess,
              storeVars, accessVars, refreshVars
<1>4. ASSUME NEW k \in Calls, Continue(k)
      PROVE  (AStays \/ ANew) /\ (RStays \/ RNew)
  <2>0. reqs[k] \in Requester /\ reqs[k].id \in AuthReqs
    BY <1>4, ContinueHolds
  <2>1. CASE ExchangeCreateAccess(k) \/ RefreshCreateAccess(k)
    <3>1. RStays
      BY <2>1 DEF ExchangeCreateAccess, RefreshCreateAccess, refreshVars
    <3>2. /\ accessTokens'[k] = reqs[k]
          /\ accessTokenRequestIDs' = [accessTokenRequestIDs EXCEPT ![reqs[k].id] = k]
      BY <1>0, <2>1 DEF ExchangeCreateAccess, RefreshCreateAccess,
                        CreateAccessTokenSession, StoreTypeOK, AccessSignatures
    <3>3. pc'[k] \in AccessStored
      BY <1>0, <2>1 DEF ExchangeCreateAccess, RefreshCreateAccess, Goto, TypeOK,
                        AccessStored
    <3> QED
      BY <1>0, <2>0, <3>1, <3>2, <3>3 DEF StoreTypeOK
  <2>2. CASE ExchangeCreateRefresh(k) \/ RefreshCreateRefresh(k)
    <3>1. AStays
      BY <2>2 DEF ExchangeCreateRefresh, RefreshCreateRefresh, accessVars
    <3>2. /\ refreshTokens'[k] = [active |-> TRUE, req |-> reqs[k]]
          /\ refreshTokenRequestIDs' = [refreshTokenRequestIDs EXCEPT ![reqs[k].id] = k]
      BY <1>0, <2>2 DEF ExchangeCreateRefresh, RefreshCreateRefresh,
                        CreateRefreshTokenSession, StoreTypeOK
    <3>3. pc'[k] \in RefreshStored
      BY <1>0, <2>2 DEF ExchangeCreateRefresh, RefreshCreateRefresh, Goto, TypeOK,
                        RefreshStored
    <3> QED
      BY <1>0, <2>0, <3>1, <3>2, <3>3 DEF StoreTypeOK
  <2>3. CASE \/ ReplayRevokeAccess(k) \/ ReplayRevokeRefresh(k) \/ ExchangePopulate(k)
             \/ Drop(k) \/ ExchangeInvalidate(k) \/ RotateRevokeRefresh(k)
             \/ RotateRevokeAccess(k) \/ ReuseDelete(k) \/ ReuseRevokeRefresh(k)
             \/ ReuseRevokeAccess(k) \/ RevokeRefresh(k) \/ RevokeAccess(k)
    BY <2>3 DEF ReplayRevokeAccess, ReplayRevokeRefresh, ExchangePopulate, Drop,
         ExchangeInvalidate, RotateRevokeRefresh, RotateRevokeAccess, ReuseDelete,
         ReuseRevokeRefresh, ReuseRevokeAccess, RevokeRefresh, RevokeAccess,
         storeVars, accessVars, refreshVars, RevokeAccessToken,
         RevokeRefreshToken, DeleteRefreshTokenSession
  <2> QED
    BY <1>4, <2>1, <2>2, <2>3 DEF Continue
<1>5. ASSUME Next
      PROVE  (AStays \/ ANew \/ AFront) /\ (RStays \/ RNew)
  <2> HIDE DEF ANew, AFront, RNew
  <2> QED
    BY <1>2, <1>3, <1>4, <1>5 DEF Next
<1> QED
  BY <1>1, <1>5

\* The tables are empty initially.
LEMMA IndexInit == Init => IndexInv
BY DEF Init, StoreInit, IndexInv, AccessIndexed, RefreshIndexed, ReuseInactive

\* The indexes keep leading to tokens of their request.
LEMMA IndexStep ==
    ASSUME TypeInv, IndexInv, [Next]_vars, NEW a \in AuthReqs
    PROVE  AccessIndexed(a)' /\ RefreshIndexed(a)'
<1>0. StoreTypeOK /\ AccessIndexed(a) /\ RefreshIndexed(a) /\ CodeStep(a)
         /\ TableStep /\ StoreTypeOK'
  BY TablesStep, TypeStep DEF TypeInv, TypeOK, IndexInv, TableStep
<1>1. ASSUME accessTokenRequestIDs'[a] = accessTokenRequestIDs[a]
      PROVE  AccessIndexed(a)'
  <2> DEFINE s == accessTokenRequestIDs[a]
  <2> SUFFICES ASSUME s # None PROVE AccessIndexed(a)'
    BY <1>1 DEF AccessIndexed
  <2>1. s \in AccessSignatures /\ AccessStep(s)
    BY <1>0 DEF StoreTypeOK, TableStep
  <2>2. CASE s \in Calls
    <3>1. pc[s] \in AccessStored /\ pc'[s] \in AccessStored /\ s \notin AuthReqs
      BY <1>0, <2>2, StoredStep, NamesAssumption DEF AccessIndexed
    <3> QED
      BY <1>0, <1>1, <2>1, <2>2, <3>1 DEF AccessIndexed, AccessStep, AccessStored
  <2>3. CASE s \notin Calls
    BY <1>0, <1>1, <2>1, <2>3 DEF AccessIndexed, AccessStep, CodeStep
  <2> QED
    BY <2>2, <2>3
<1>2. ASSUME NEW k \in Calls, accessTokenRequestIDs'[a] = k, pc'[k] \in AccessStored,
             reqs[k].id = a, accessTokens'[k] = reqs[k]
      PROVE  AccessIndexed(a)'
  BY <1>2 DEF AccessIndexed
<1>3. ASSUME accessTokenRequestIDs'[a] = a, authorizeCodes'[a] # None,
             accessTokens'[a].id = a
      PROVE  AccessIndexed(a)'
  BY <1>3, NamesAssumption DEF AccessIndexed
<1>4. ASSUME refreshTokenRequestIDs'[a] = refreshTokenRequestIDs[a]
      PROVE  RefreshIndexed(a)'
  <2> DEFINE t == refreshTokenRequestIDs[a]
  <2> SUFFICES ASSUME t # None PROVE RefreshIndexed(a)'
    BY <1>4 DEF RefreshIndexed
  <2>1. t \in Calls /\ RefreshStep(t)
    BY <1>0 DEF StoreTypeOK, TableStep
  <2>2. pc[t] \in RefreshStored /\ pc'[t] \in RefreshStored
    BY <1>0, <2>1, StoredStep DEF RefreshIndexed
  <2>3. refreshTokens'[t] # None =>
           refreshTokens[t] # None /\ refreshTokens'[t].req = refreshTokens[t].req
    <3>1. CASE refreshTokens'[t] \in {refreshTokens[t], None}
      BY <3>1
    <3>2. CASE /\ refreshTokens[t] # None
               /\ refreshTokens'[t] = [refreshTokens[t] EXCEPT !.active = FALSE]
      <4>1. refreshTokens[t] \in RefreshSession
        BY <1>0, <2>1, <3>2 DEF StoreTypeOK
      <4> QED
        BY <3>2, <4>1 DEF RefreshSession
    <3> QED
      BY <2>1, <2>2, <3>1, <3>2 DEF RefreshStep, RefreshStored
  <2> QED
    BY <1>0, <1>4, <2>2, <2>3 DEF RefreshIndexed
<1>5. ASSUME NEW k \in Calls, refreshTokenRequestIDs'[a] = k, pc'[k] \in RefreshStored,
             reqs[k].id = a, refreshTokens'[k] = [active |-> TRUE, req |-> reqs[k]]
      PROVE  RefreshIndexed(a)'
  BY <1>5 DEF RefreshIndexed
<1> QED
  BY <1>1, <1>2, <1>3, <1>4, <1>5, IndexMoves

\* A call about to delete has just read an inactive token, or stays there.
LEMMA ReuseMoves ==
    ASSUME TypeInv, [Next]_vars, NEW k \in Calls, pc'[k] = "reuse_delete"
    PROVE  \/ pc[k] = "reuse_delete" /\ presented'[k] = presented[k]
           \/ /\ UNCHANGED refreshTokens
              /\ presented'[k].sig \in Calls
              /\ ~refreshTokens[presented'[k].sig].active
<1> USE DEF TypeInv, TypeOK, Goto
<1>1. CASE UNCHANGED vars
  BY <1>1 DEF vars, callVars
<1>2. ASSUME NEW a \in AuthReqs, NEW c \in Clients, NEW g \in SUBSET Scopes,
             NEW type \in ResponseTypes, Authorize(a, c, g, type)
      PROVE  pc[k] = "reuse_delete" /\ presented'[k] = presented[k]
  BY <1>2 DEF Authorize, callVars
<1>3. ASSUME NEW j \in Calls, NEW c \in Clients, NEW t \in Calls, RefreshGet(j, t, c)
      PROVE  \/ pc[k] = "reuse_delete" /\ presented'[k] = presented[k]
             \/ /\ UNCHANGED refreshTokens
                /\ presented'[k].sig \in Calls
                /\ ~refreshTokens[presented'[k].sig].active
  <2>1. UNCHANGED refreshTokens
    BY <1>3 DEF RefreshGet, storeVars, refreshVars
  <2>2. CASE j # k
    BY <1>3, <2>2 DEF RefreshGet, Start
  <2>3. CASE j = k
    <3>1. GetRefreshTokenError(t) = "ErrInactiveToken"
      BY <1>3, <2>3 DEF RefreshGet, Start
    <3>2. presented'[k].sig = t
      BY <1>3, <2>3 DEF RefreshGet
    <3> QED
      BY <2>1, <3>1, <3>2 DEF GetRefreshTokenError
  <2> QED
    BY <2>2, <2>3
<1>4. ASSUME NEW j \in Calls, NEW c \in Clients,
             \/ \E a \in AuthReqs : ExchangeGet(j, a, c)
             \/ \E t \in Calls : RevokeGetRefresh(j, t, c)
             \/ \E s \in AccessSignatures : RevokeGetAccess(j, s, c)
      PROVE  pc[k] = "reuse_delete" /\ presented'[k] = presented[k]
  BY <1>4 DEF ExchangeGet, RevokeGetRefresh, RevokeGetAccess, Start
<1>5. ASSUME NEW j \in Calls, Continue(j)
      PROVE  pc[k] = "reuse_delete" /\ presented'[k] = presented[k]
  BY <1>5 DEF Continue, ReplayRevokeAccess, ReplayRevokeRefresh,
         ExchangePopulate, Drop, ExchangeInvalidate, ExchangeCreateAccess,
         ExchangeCreateRefresh, RotateRevokeRefresh, RotateRevokeAccess,
         RefreshCreateAccess, RefreshCreateRefresh, ReuseDelete,
         ReuseRevokeRefresh, ReuseRevokeAccess, RevokeRefresh, RevokeAccess
<1> QED
  BY <1>1, <1>2, <1>3, <1>4, <1>5 DEF Next, Begin

\* The token a reuse is about to delete stays inactive.
LEMMA ReuseStep ==
    ASSUME TypeInv, FreshInv, IndexInv, [Next]_vars, NEW k \in Calls
    PROVE  ReuseInactive(k)'
<1> SUFFICES ASSUME pc'[k] = "reuse_delete"
             PROVE  \/ refreshTokens'[presented'[k].sig] = None
                    \/ ~refreshTokens'[presented'[k].sig].active
  BY DEF ReuseInactive
<1>1. CASE pc[k] = "reuse_delete" /\ presented'[k] = presented[k]
  <2> DEFINE t == presented[k].sig
  <2>1. presented[k] \in Token /\ presented[k].kind = "refresh" /\ t \in Calls
    BY <1>1 DEF TypeInv, CallsOK
  <2>2. pc[t] \in RefreshStored
    BY <2>1, NoTokenAssumption DEF FreshInv, CallFresh
  <2>3. refreshTokens[t] = None \/ ~refreshTokens[t].active
    BY <1>1 DEF IndexInv, ReuseInactive
  <2>4. RefreshStep(t) /\ refreshTokens[t] \in RefreshSession \union {None}
    BY <2>1, TablesStep DEF TableStep, TypeInv, TypeOK, StoreTypeOK
  <2> QED
    BY <1>1, <2>2, <2>3, <2>4 DEF RefreshStep, RefreshStored, RefreshSession
<1>2. CASE /\ UNCHANGED refreshTokens
           /\ presented'[k].sig \in Calls
           /\ ~refreshTokens[presented'[k].sig].active
  BY <1>2
<1> QED
  BY <1>1, <1>2, ReuseMoves

\* The inductive invariant of this module.
LEMMA AgingInvariant == Spec => []AgingInv
<1>1. Init => AgingInv
  BY TypeInit, GrantInit, FreshInit, IndexInit DEF AgingInv
<1>2. AgingInv /\ [Next]_vars => AgingInv'
  <2> SUFFICES ASSUME AgingInv, [Next]_vars PROVE AgingInv'
    OBVIOUS
  <2>1. TypeInv' /\ GrantInv' /\ FreshInv'
    BY TypeStep, GrantStep, FreshStep DEF AgingInv
  <2>2. IndexInv'
    BY IndexStep, ReuseStep DEF AgingInv, IndexInv
  <2> QED
    BY <2>1, <2>2 DEF AgingInv
<1> QED
  BY <1>1, <1>2, PTL DEF Spec

-----------------------------------------------------------------------------
\* Only handleRefreshTokenReuse deletes a refresh token.
LEMMA DeletedInactive ==
    ASSUME AgingInv, [Next]_vars, NEW t \in Calls, refreshTokens[t] # None,
           refreshTokens'[t] = None
    PROVE  ~refreshTokens[t].active
<1> USE DEF AgingInv, TypeInv, TypeOK, StoreTypeOK
<1>1. CASE UNCHANGED vars
  BY <1>1 DEF vars, storeVars, refreshVars
<1>2. ASSUME NEW b \in AuthReqs, NEW c \in Clients, NEW g \in SUBSET Scopes,
             NEW type \in ResponseTypes, Authorize(b, c, g, type)
      PROVE  FALSE
  BY <1>2 DEF Authorize, refreshVars
<1>3. ASSUME NEW j \in Calls, NEW c \in Clients, Begin(j, c) PROVE FALSE
  BY <1>3 DEF Begin, ExchangeGet, RefreshGet, RevokeGetRefresh, RevokeGetAccess,
              storeVars, refreshVars
<1>4. ASSUME NEW id \in AuthReqs, RevokeRefreshToken(id) PROVE FALSE
  <2>1. CASE refreshTokenRequestIDs[id] = None \/ RevokeRefreshTokenFails(id)
    BY <1>4, <2>1 DEF RevokeRefreshToken
  <2>2. CASE refreshTokenRequestIDs[id] # None /\ ~RevokeRefreshTokenFails(id)
    <3> DEFINE u == refreshTokenRequestIDs[id]
    <3>1. /\ u \in Calls /\ refreshTokens[u] \in RefreshSession
          /\ refreshTokens' = [refreshTokens EXCEPT ![u].active = FALSE]
      BY <1>4, <2>2 DEF RevokeRefreshToken, RevokeRefreshTokenFails
    <3>2. refreshTokens'[u] \in RefreshSession
      BY <3>1 DEF RefreshSession
    <3> QED
      BY <3>1, <3>2, NoneAssumption
  <2> QED
    BY <2>1, <2>2
<1>5. ASSUME NEW k \in Calls, Continue(k) PROVE ~refreshTokens[t].active
  <2>0. reqs[k] \in Requester /\ reqs[k].id \in AuthReqs
    BY <1>5, ContinueHolds
  <2>1. CASE \/ ReplayRevokeRefresh(k) \/ RotateRevokeRefresh(k)
             \/ ReuseRevokeRefresh(k) \/ RevokeRefresh(k)
    BY <1>4, <2>0, <2>1 DEF ReplayRevokeRefresh, RotateRevokeRefresh,
                            ReuseRevokeRefresh, RevokeRefresh
  <2>2. CASE ExchangeCreateRefresh(k) \/ RefreshCreateRefresh(k)
    <3>1. [active |-> TRUE, req |-> reqs[k]] \in RefreshSession
      BY <2>0 DEF RefreshSession
    <3> QED
      BY <2>2, <3>1, NoneAssumption DEF ExchangeCreateRefresh,
         RefreshCreateRefresh, CreateRefreshTokenSession
  <2>3. CASE ReuseDelete(k)
    <3>1. presented[k].sig = t /\ pc[k] = "reuse_delete"
      BY <2>3 DEF ReuseDelete, DeleteRefreshTokenSession
    <3> QED
      BY <3>1 DEF IndexInv, ReuseInactive
  <2>4. CASE \/ ReplayRevokeAccess(k) \/ ExchangePopulate(k) \/ ExchangeInvalidate(k)
             \/ Drop(k) \/ ExchangeCreateAccess(k) \/ RotateRevokeAccess(k)
             \/ RefreshCreateAccess(k) \/ ReuseRevokeAccess(k) \/ RevokeAccess(k)
    BY <2>4 DEF ReplayRevokeAccess, ExchangePopulate, Drop, ExchangeInvalidate,
         ExchangeCreateAccess, RotateRevokeAccess, RefreshCreateAccess,
         ReuseRevokeAccess, RevokeAccess, storeVars, refreshVars
  <2> QED
    BY <1>5, <2>1, <2>2, <2>3, <2>4 DEF Continue
<1> QED
  BY <1>1, <1>2, <1>3, <1>5 DEF Next

\* A call that has stored its access token, or has ended, does not go back.
LEMMA IssuedStays ==
    ASSUME TypeInv, [Next]_vars, NEW k \in Calls
    PROVE  /\ pc[k] \in Returned => pc'[k] = pc[k]
           /\ pc[k] \in {"code_create_rt", "refresh_create_rt"} =>
                 pc'[k] \in {pc[k]} \union Returned
<1> USE DEF TypeInv, TypeOK, Goto, Returned
<1>1. CASE UNCHANGED vars
  BY <1>1 DEF vars, callVars
<1>2. ASSUME NEW b \in AuthReqs, NEW c \in Clients, NEW g \in SUBSET Scopes,
             NEW type \in ResponseTypes, Authorize(b, c, g, type)
      PROVE  UNCHANGED pc
  BY <1>2 DEF Authorize, callVars
<1>3. ASSUME NEW j \in Calls, NEW c \in Clients, Begin(j, c)
      PROVE  pc[j] = "idle" /\ \A i \in Calls \ {j} : pc'[i] = pc[i]
  BY <1>3 DEF Begin, ExchangeGet, RefreshGet, RevokeGetRefresh, RevokeGetAccess, Start
<1>4. ASSUME NEW j \in Calls, Continue(j)
      PROVE  /\ pc[j] \in Running /\ \A i \in Calls \ {j} : pc'[i] = pc[i]
             /\ pc[j] \in {"code_create_rt", "refresh_create_rt"} => pc'[j] \in Returned
  BY <1>4 DEF Continue, ReplayRevokeAccess, ReplayRevokeRefresh, ExchangePopulate,
     ExchangeInvalidate, ExchangeCreateAccess, ExchangeCreateRefresh,
     RotateRevokeRefresh, RotateRevokeAccess, RefreshCreateAccess,
     RefreshCreateRefresh, ReuseDelete, ReuseRevokeRefresh, ReuseRevokeAccess,
     RevokeRefresh, RevokeAccess, Drop, Running
<1> QED
  BY <1>1, <1>2, <1>3, <1>4 DEF Next, Running

\* The step of an access token: it is there only once it was issued, and then
\* it can only go.
LEMMA AccessAges ==
    ASSUME AgingInv, [Next]_vars PROVE AccessTokensAge
<1> SUFFICES ASSUME NEW s \in AccessSignatures
             PROVE  IF AccessTokenIssued(s)
                    THEN /\ AccessTokenIssued(s)'
                         /\ accessTokens'[s] \in {accessTokens[s], None}
                    ELSE accessTokens[s] = None
  BY DEF AccessTokensAge
<1>1. TypeInv /\ AccessStep(s) /\ \A a \in AuthReqs : CodeStep(a)
  BY TablesStep DEF AgingInv, TableStep
<1>2. CASE s \in AuthReqs
  <2>1. s \notin Calls
    BY <1>2, NamesAssumption
  <2>2. accessTokens[s] # None => authorizeCodes[s] # None
    BY <1>2 DEF AgingInv, GrantInv, FrontChannelNamed, TokensBoundToGrant,
                BoundTo, AccessSignatures
  <2> QED
    BY <1>1, <1>2, <2>1, <2>2 DEF AccessTokenIssued, AccessStep, CodeStep
<1>3. CASE s \in Calls
  <2>1. s \notin AuthReqs
    BY <1>3, NamesAssumption
  <2>2. accessTokens[s] # None => pc[s] \in AccessStored
    BY <1>3 DEF AgingInv, FreshInv, CallFresh
  <2>3. AccessTokenIssued(s) => AccessTokenIssued(s)'
    BY <1>1, <1>3, <2>1, IssuedStays DEF AccessTokenIssued
  <2> QED
    BY <1>1, <2>1, <2>2, <2>3 DEF AccessTokenIssued, AccessStep, AccessStored, Returned
<1> QED
  BY <1>2, <1>3 DEF AccessSignatures

\* The step of a refresh token: once issued it is deactivated, and only then
\* can it go (RevokeRefreshToken deactivates, DeleteRefreshTokenSession is
\* called for an inactive one).
LEMMA RefreshAges ==
    ASSUME AgingInv, [Next]_vars PROVE RefreshTokensAge
<1> SUFFICES ASSUME NEW t \in Calls
             PROVE  IF RefreshTokenIssued(t)
                    THEN /\ RefreshTokenIssued(t)'
                         /\ \/ refreshTokens'[t] = refreshTokens[t]
                            \/ /\ refreshTokens[t] # None
                               /\ IF refreshTokens[t].active
                                  THEN refreshTokens'[t] =
                                          [refreshTokens[t] EXCEPT !.active = FALSE]
                                  ELSE refreshTokens'[t] = None
                    ELSE refreshTokens[t] = None
  BY DEF RefreshTokensAge
<1>1. TypeInv /\ RefreshStep(t) /\ refreshTokens[t] \in RefreshSession \union {None}
  BY TablesStep DEF AgingInv, TableStep, TypeInv, TypeOK, StoreTypeOK
<1>2. refreshTokens[t] # None => pc[t] \in RefreshStored
  BY DEF AgingInv, FreshInv, CallFresh
<1>3. CASE ~RefreshTokenIssued(t)
  BY <1>2, <1>3 DEF RefreshTokenIssued, RefreshStored, Returned
<1>4. CASE RefreshTokenIssued(t)
  <2>1. RefreshTokenIssued(t)' /\ pc[t] \notin {"code_create_rt", "refresh_create_rt"}
    BY <1>1, <1>4, IssuedStays DEF RefreshTokenIssued, Returned
  <2>2. \/ refreshTokens'[t] \in {refreshTokens[t], None}
        \/ /\ refreshTokens[t] # None
           /\ refreshTokens'[t] = [refreshTokens[t] EXCEPT !.active = FALSE]
    BY <1>1, <2>1 DEF RefreshStep
  <2>3. CASE refreshTokens[t] # None /\ ~refreshTokens[t].active
    <3>1. [refreshTokens[t] EXCEPT !.active = FALSE] = refreshTokens[t]
      BY <1>1, <2>3 DEF RefreshSession
    <3> QED
      BY <1>4, <2>1, <2>2, <2>3, <3>1
  <2>4. CASE refreshTokens[t] # None /\ refreshTokens[t].active
    BY <1>4, <2>1, <2>2, <2>4, DeletedInactive
  <2>5. CASE refreshTokens[t] = None
    BY <1>4, <2>1, <2>2, <2>5
  <2> QED
    BY <2>3, <2>4, <2>5
<1> QED
  BY <1>3, <1>4

\* A consumed code is never redeemable again; and a token, once issued, stays
\* as it was stored, is deactivated or is deleted, and never comes back.
THEOREM TokensAge == Spec => TokensOnlyAge
<1>1. AgingInv /\ [Next]_vars
         => [CodeConsumedForGood /\ AccessTokensAge /\ RefreshTokensAge]_vars
  <2> SUFFICES ASSUME AgingInv, [Next]_vars
               PROVE  CodeConsumedForGood /\ AccessTokensAge /\ RefreshTokensAge
    OBVIOUS
  <2>1. CodeConsumedForGood
    BY TablesStep DEF AgingInv, TableStep, CodeStep, CodeConsumedForGood
  <2> QED
    BY <2>1, AccessAges, RefreshAges
<1> QED
  BY <1>1, AgingInvariant, PTL DEF TokensOnlyAge, Spec

\* The same over a whole run: an access token that was in the store and is gone
\* stays away.
THEOREM DeletedAccessTokensStayAway ==
    ASSUME NEW s \in AccessSignatures
    PROVE  Spec => [](accessTokens[s] # None =>
                         [](accessTokens[s] = None => [](accessTokens[s] = None)))
<1>1. AgingInv /\ [Next]_vars /\ AccessTokenIssued(s) => AccessTokenIssued(s)'
  BY AccessAges DEF AccessTokensAge
<1>2. AgingInv /\ [Next]_vars /\ AccessTokenIssued(s) /\ accessTokens[s] = None
         => (accessTokens[s] = None)'
  BY AccessAges DEF AccessTokensAge
<1>3. AgingInv /\ [Next]_vars /\ accessTokens[s] # None => AccessTokenIssued(s)
  BY AccessAges DEF AccessTokensAge
<1> QED
  BY <1>1, <1>2, <1>3, AgingInvariant, PTL DEF Spec

\* So does a refresh token, which handleRefreshTokenReuse deletes.
THEOREM DeletedRefreshTokensStayAway ==
    ASSUME NEW t \in Calls
    PROVE  Spec => [](refreshTokens[t] # None =>
                         [](refreshTokens[t] = None => [](refreshTokens[t] = None)))
<1>1. AgingInv /\ [Next]_vars /\ RefreshTokenIssued(t) => RefreshTokenIssued(t)'
  BY RefreshAges DEF RefreshTokensAge
<1>2. AgingInv /\ [Next]_vars /\ RefreshTokenIssued(t) /\ refreshTokens[t] = None
         => (refreshTokens[t] = None)'
  BY RefreshAges DEF RefreshTokensAge
<1>3. AgingInv /\ [Next]_vars /\ refreshTokens[t] # None => RefreshTokenIssued(t)
  BY RefreshAges DEF RefreshTokensAge
<1> QED
  BY <1>1, <1>2, <1>3, AgingInvariant, PTL DEF Spec

\* The step of a call for another request leaves the live tokens of a alone.
LEMMA ContinueElsewhere ==
    ASSUME AgingInv, NEW k \in Calls, Continue(k), NEW a \in AuthReqs,
           reqs[k].id # a
    PROVE  /\ \A s \in AccessSignatures :
                 LiveAccess(s, a) => accessTokens'[s] = accessTokens[s]
           /\ \A t \in Calls :
                 ActiveRefresh(t, a) => refreshTokens'[t] = refreshTokens[t]
<1> USE DEF AgingInv, TypeInv, TypeOK, StoreTypeOK
<1>0. reqs[k] \in Requester /\ reqs[k].id \in AuthReqs
  BY ContinueHolds
<1>1. ASSUME UNCHANGED refreshVars
      PROVE  \A t \in Calls :
                 ActiveRefresh(t, a) => refreshTokens'[t] = refreshTokens[t]
  BY <1>1 DEF refreshVars
<1>2. ASSUME UNCHANGED accessVars
      PROVE  \A s \in AccessSignatures :
                 LiveAccess(s, a) => accessTokens'[s] = accessTokens[s]
  BY <1>2 DEF accessVars
<1>3. ASSUME RevokeAccessToken(reqs[k].id), NEW s \in AccessSignatures, LiveAccess(s, a)
      PROVE  accessTokens'[s] = accessTokens[s]
  <2>1. accessTokenRequestIDs[reqs[k].id] # s
    BY <1>0, <1>3, NoneAssumption DEF IndexInv, AccessIndexed, LiveAccess, AccessSignatures
  <2> QED
    BY <1>3, <2>1 DEF RevokeAccessToken
<1>4. ASSUME RevokeRefreshToken(reqs[k].id), NEW t \in Calls, ActiveRefresh(t, a)
      PROVE  refreshTokens'[t] = refreshTokens[t]
  <2>1. refreshTokenRequestIDs[reqs[k].id] # t
    BY <1>0, <1>4, NoneAssumption DEF IndexInv, RefreshIndexed, ActiveRefresh
  <2> QED
    BY <1>4, <2>1 DEF RevokeRefreshToken
<1>5. CASE \/ ReplayRevokeAccess(k) \/ RotateRevokeAccess(k)
           \/ ReuseRevokeAccess(k) \/ RevokeAccess(k)
  BY <1>1, <1>3, <1>5 DEF ReplayRevokeAccess, RotateRevokeAccess, ReuseRevokeAccess,
                          RevokeAccess
<1>6. CASE \/ ReplayRevokeRefresh(k) \/ RotateRevokeRefresh(k)
           \/ ReuseRevokeRefresh(k) \/ RevokeRefresh(k)
  BY <1>2, <1>4, <1>6 DEF ReplayRevokeRefresh, RotateRevokeRefresh,
                          ReuseRevokeRefresh, RevokeRefresh
<1>7. CASE ExchangePopulate(k) \/ Drop(k) \/ ExchangeInvalidate(k)
  BY <1>1, <1>2, <1>7 DEF ExchangePopulate, Drop, ExchangeInvalidate, storeVars
<1>8. CASE ExchangeCreateAccess(k) \/ RefreshCreateAccess(k)
  <2>1. pc[k] \notin AccessStored
    BY <1>8 DEF ExchangeCreateAccess, RefreshCreateAccess, AccessStored
  <2>2. accessTokens[k] = None
    BY <2>1 DEF FreshInv, CallFresh
  <2>3. UNCHANGED refreshVars /\ accessTokens' = [accessTokens EXCEPT ![k] = reqs[k]]
    BY <1>8 DEF ExchangeCreateAccess, RefreshCreateAccess, CreateAccessTokenSession
  <2> QED
    BY <1>1, <2>2, <2>3 DEF LiveAccess
<1>9. CASE ExchangeCreateRefresh(k) \/ RefreshCreateRefresh(k)
  <2>1. pc[k] \notin RefreshStored
    BY <1>9 DEF ExchangeCreateRefresh, RefreshCreateRefresh, RefreshStored
  <2>2. refreshTokens[k] = None
    BY <2>1 DEF FreshInv, CallFresh
  <2>3. /\ UNCHANGED accessVars
        /\ refreshTokens' = [refreshTokens EXCEPT
                                 ![k] = [active |-> TRUE, req |-> reqs[k]]]
    BY <1>9 DEF ExchangeCreateRefresh, RefreshCreateRefresh, CreateRefreshTokenSession
  <2> QED
    BY <1>2, <2>2, <2>3 DEF ActiveRefresh
<1>10. CASE ReuseDelete(k)
  <2>1. /\ UNCHANGED accessVars
        /\ pc[k] = "reuse_delete"
        /\ refreshTokens' = [refreshTokens EXCEPT ![presented[k].sig] = None]
    BY <1>10 DEF ReuseDelete, DeleteRefreshTokenSession
  <2>2. \A t \in Calls : ActiveRefresh(t, a) => t # presented[k].sig
    BY <2>1 DEF IndexInv, ReuseInactive, ActiveRefresh
  <2> QED
    BY <1>2, <2>1, <2>2
<1> QED
  BY <1>5, <1>6, <1>7, <1>8, <1>9, <1>10 DEF Continue

\* While no call is in flight for a request its tokens stay as they are:
\* RevokeAccessToken and RevokeRefreshToken, which go by the request ID, never
\* hit a token of another request.
THEOREM IdleGrantsUntouched == Spec => IdleGrantUntouched
<1> DEFINE Kept == \A a \in AuthReqs :
         (authorizeCodes[a] # None /\ \A k \in Calls : ~InFlight(k, a))
            => /\ \A s \in AccessSignatures :
                     LiveAccess(s, a) => accessTokens'[s] = accessTokens[s]
               /\ \A t \in Calls :
                     ActiveRefresh(t, a) => refreshTokens'[t] = refreshTokens[t]
<1>1. AgingInv /\ [Next]_vars => [Kept]_vars
  <2> SUFFICES ASSUME AgingInv, Next, NEW a \in AuthReqs, authorizeCodes[a] # None,
                      \A k \in Calls : ~InFlight(k, a)
               PROVE  /\ \A s \in AccessSignatures :
                            LiveAccess(s, a) => accessTokens'[s] = accessTokens[s]
                      /\ \A t \in Calls :
                            ActiveRefresh(t, a) => refreshTokens'[t] = refreshTokens[t]
    OBVIOUS
  <2> DEFINE Goal == /\ \A s \in AccessSignatures :
                            LiveAccess(s, a) => accessTokens'[s] = accessTokens[s]
                     /\ \A t \in Calls :
                            ActiveRefresh(t, a) => refreshTokens'[t] = refreshTokens[t]
  <2>1. ASSUME NEW b \in AuthReqs, NEW c \in Clients, NEW g \in SUBSET Scopes,
               NEW type \in ResponseTypes, Authorize(b, c, g, type)
        PROVE  Goal
    <3>1. UNCHANGED refreshTokens /\ authorizeCodes[b] = None /\ b # a
      BY <2>1 DEF Authorize, refreshVars
    <3>2. \A s \in AccessSignatures : LiveAccess(s, a) => s # b
      BY <3>1 DEF LiveAccess, AgingInv, GrantInv, FrontChannelNamed
    <3>3. \A s \in AccessSignatures : s # b => accessTokens'[s] = accessTokens[s]
      BY <2>1 DEF Authorize, accessVars, CreateAccessTokenSession, AgingInv,
                  TypeInv, TypeOK, StoreTypeOK
    <3> QED
      BY <3>1, <3>2, <3>3
  <2>2. ASSUME NEW k \in Calls, NEW c \in Clients, Begin(k, c) PROVE Goal
    BY <2>2 DEF Begin, ExchangeGet, RefreshGet, RevokeGetRefresh, RevokeGetAccess,
                storeVars, accessVars, refreshVars
  <2>3. ASSUME NEW k \in Calls, Continue(k) PROVE Goal
    <3>1. reqs[k].id # a
      BY <2>3, ContinueHolds DEF AgingInv, InFlight
    <3> QED
      BY <2>3, <3>1, ContinueElsewhere
  <2> HIDE DEF Goal
  <2>4. Goal
    BY <2>1, <2>2, <2>3 DEF Next
  <2> QED
    BY <2>4 DEF Goal
<1> QED
  BY <1>1, AgingInvariant, PTL DEF IdleGrantUntouched, Spec
=============================================================================
