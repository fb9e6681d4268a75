--------------------- MODULE ExchangeAndValidityProofs ---------------------
(***************************************************************************)
(* Proofs about the two specifications that extend TokenLifecycle.         *)
(*                                                                         *)
(* CodeExchange implements TokenLifecycle, so all that is proved there     *)
(* holds for it, and the PKCE and OpenID Connect sessions are what the     *)
(* exchange needs them to be.                                              *)
(*                                                                         *)
(* TokenValidity, for every set of requests, calls, clients, secrets and   *)
(* introspections and every setting of the lifespans: what the             *)
(* introspection endpoint answers was true at one moment of the call, and  *)
(* no token is stored that lives longer than was configured.               *)
(***************************************************************************)
EXTENDS CodeExchange, TokenValidity, TokenLifecycleProofs

-----------------------------------------------------------------------------
(* CodeExchange: the pipeline implements the handlers' own specification.  *)

\* Every step of the pipeline is a step of the handlers, or none.
LEMMA ExStepRefines == [ExNext]_exVars => [Next]_vars
<1>1. CASE UNCHANGED exVars
  BY <1>1 DEF exVars
<1>2. ASSUME NEW a \in AuthReqs, NEW c \in Clients, NEW g \in SUBSET Scopes,
             NEW type \in ResponseTypes, NEW params, NEW issuable,
             AuthorizeRequest(a, c, g, type, params, issuable)
      PROVE  Next
  BY <1>2 DEF AuthorizeRequest, Next
<1>3. ASSUME NEW k \in Calls, NEW a \in AuthReqs, NEW c \in Clients, NEW v,
             Exchange(k, a, c, v)
      PROVE  Next
  BY <1>3 DEF Exchange, Begin, Next
<1>4. ASSUME NEW k \in Calls, NEW c \in Clients, BeginOther(k, c)
      PROVE  Next
  BY <1>4 DEF BeginOther, Begin, Next
<1>5. ASSUME NEW k \in Calls, ExContinue(k)
      PROVE  Next \/ UNCHANGED vars
  <2>1. ASSUME Drop(k) PROVE Next
    BY <2>1 DEF Continue, Next
  <2>2. CASE PKCEGet(k)
    BY <2>1, <2>2 DEF PKCEGet, PKCERefuse
  <2>3. CASE PKCEVerify(k)
    BY <2>1, <2>3 DEF PKCEVerify, PKCERefuse
  <2>4. CASE Core(k)
    BY <2>4 DEF Core, Next
  <2>5. CASE IDTokenGet(k) \/ IDTokenIssue(k) \/ IDTokenRefresh(k)
    BY <2>5 DEF IDTokenGet, IDTokenIssue, IDTokenRefresh
  <2> QED
    BY <1>5, <2>2, <2>3, <2>4, <2>5 DEF ExContinue
<1> QED
  BY <1>1, <1>2, <1>3, <1>4, <1>5 DEF ExNext

\* The token endpoint with all its handlers implements TokenLifecycle.
THEOREM ExchangeImplementsLifecycle == ExSpec => Spec
<1>1. ExInit => Init
  BY DEF ExInit
<1> QED
  BY <1>1, ExStepRefines, PTL DEF ExSpec, Spec

-----------------------------------------------------------------------------
(* What the sessions are, and what a call may rely on at each stage.       *)

\* The entries a code has in the tables of the other handlers.
SessionsOf(a) ==
    /\ authorizeCodes[a] = None =>
          asked[a] = None /\ pkceSessions[a] = None /\ idSessions[a] = None
    /\ authorizeCodes[a] # None =>
          /\ asked[a] \in PKCEParams
          /\ Validate(asked[a], authorizeCodes[a].req.client)
          /\ pkceSessions[a] \in {asked[a], None}
          /\ idSessions[a] # None =>
                /\ idSessions[a].req = authorizeCodes[a].req
                /\ openid \in idSessions[a].req.scopes

\* PKCE is behind the call: it has let the call pass.
Passed(k) == Redeeming(k) \/ (stage[k] = "core" /\ pc[k] = "code_populate")

Enforced(c) == ~ValidateNoPKCE(c)

StageOf(k) ==
    /\ pc[k] = "idle" => stage[k] = "none"
    /\ stage[k] \in {"pkce_get", "pkce_delete"} => pc[k] = "code_populate"
    /\ stage[k] = "pkce_delete" => pkceRead[k] = asked[reqs[k].id]
    /\ stage[k] \in {"oidc_get", "oidc_delete"} => pc[k] = "exchanged"
    /\ stage[k] = "oidc_delete" =>
          /\ idRead[k] \in IDSession
          /\ idRead[k].req = authorizeCodes[reqs[k].id].req
          /\ openid \in idRead[k].req.scopes
    /\ stage[k] = "oidc_refresh" => pc[k] = "refreshed" /\ BoundTo(reqs[k])
    /\ Passed(k) =>
          /\ pkceSessions[reqs[k].id] = None
          /\ Enforced(reqs[k].client) => Matches(asked[reqs[k].id], verifier[k])

IDTokenOf(k) ==
    idTokens[k] # None =>
        /\ pc[k] \in {"exchanged", "refreshed"}
        /\ idTokens[k].id = reqs[k].id
        /\ openid \in idTokens[k].scopes
        /\ BoundTo(idTokens[k])

FollowsCode(a) ==
    authorizeCodes[a] # None =>
        IF authorizeCodes[a].active
        THEN openid \in authorizeCodes[a].req.scopes => idSessions[a] # None
        ELSE pkceSessions[a] = None

ExInv ==
    /\ ExTypeOK
    /\ \A a \in AuthReqs : SessionsOf(a) /\ FollowsCode(a)
    /\ \A k \in Calls : StageOf(k) /\ IDTokenOf(k)

\* The pipeline starts with empty tables and idle calls.
LEMMA ExInitInv == ExInit => ExInv
<1> SUFFICES ASSUME ExInit PROVE ExInv
  OBVIOUS
<1>1. TypeOK /\ pc = [k \in Calls |-> "idle"] /\ authorizeCodes = [a \in AuthReqs |-> None]
  BY TypeInit DEF ExInit, TypeInv, Init, StoreInit
<1>2. ExTypeOK
  BY <1>1 DEF ExInit, ExTypeOK, Stages
<1> QED
  BY <1>1, <1>2 DEF ExInit, ExInv, SessionsOf, FollowsCode, StageOf, IDTokenOf, Passed,
                    Redeeming

-----------------------------------------------------------------------------
(* Only one call moves in a step, and only authorize requests fill the     *)
(* session tables.                                                         *)

\* The calls other than k stand still, and no session appears.
OnlyMoves(k) ==
    /\ \A j \in Calls : j # k =>
          /\ pc'[j] = pc[j] /\ reqs'[j] = reqs[j] /\ stage'[j] = stage[j]
          /\ verifier'[j] = verifier[j] /\ pkceRead'[j] = pkceRead[j]
          /\ idRead'[j] = idRead[j] /\ idTokens'[j] = idTokens[j]
    /\ asked' = asked
    /\ \A a \in AuthReqs :
          /\ authorizeCodes[a] = None => authorizeCodes'[a] = None
          /\ pkceSessions'[a] \in {pkceSessions[a], None}
          /\ idSessions'[a] \in {idSessions[a], None}

\* A call that stands still keeps what it relies on.
LEMMA StageKept ==
    ASSUME TypeInv, GrantInv, TableStep, NEW k \in Calls, StageOf(k), IDTokenOf(k),
           pc'[k] = pc[k], reqs'[k] = reqs[k], stage'[k] = stage[k],
           verifier'[k] = verifier[k], pkceRead'[k] = pkceRead[k],
           idRead'[k] = idRead[k], idTokens'[k] = idTokens[k],
           idTokens[k] \in Requester \union {None},
           \A a \in AuthReqs : authorizeCodes[a] # None =>
              asked'[a] = asked[a] /\ pkceSessions'[a] \in {pkceSessions[a], None}
    PROVE  StageOf(k)' /\ IDTokenOf(k)'
<1>1. CASE pc[k] = "idle"
  BY <1>1 DEF StageOf, IDTokenOf, Passed, Redeeming
<1>2. CASE pc[k] # "idle"
  <2>1. reqs[k].id \in AuthReqs /\ authorizeCodes[reqs[k].id] # None
    BY <1>2 DEF TypeInv, CallsOK, Requester, GrantInv, CallBound
  <2>2. authorizeCodes'[reqs[k].id].req = authorizeCodes[reqs[k].id].req
    BY <2>1 DEF TableStep, CodeStep
  <2>3. StageOf(k)'
    <3>1. BoundTo(reqs[k]) => BoundTo(reqs[k])'
      BY <2>1, <2>2 DEF BoundTo, TableStep, CodeStep
    <3> QED
      BY <1>2, <2>1, <2>2, <3>1 DEF StageOf, Passed, Redeeming
  <2>4. IDTokenOf(k)'
    BY <2>1, <2>2 DEF IDTokenOf, BoundTo, TableStep, CodeStep
  <2> QED
    BY <2>3, <2>4
<1> QED
  BY <1>1, <1>2

\* What is left to show of the step of a call.
LEMMA ExStepOf ==
    ASSUME TypeInv, GrantInv, TableStep, ExInv, NEW k \in Calls, OnlyMoves(k), ExTypeOK',
           StageOf(k)', IDTokenOf(k)',
           NEW b \in AuthReqs,
           \A a \in AuthReqs : a # b =>
              authorizeCodes'[a] = authorizeCodes[a] /\ idSessions'[a] = idSessions[a],
           authorizeCodes[b] # None => FollowsCode(b)'
    PROVE  ExInv'
<1>1. \A j \in Calls : StageOf(j)' /\ IDTokenOf(j)'
  <2> SUFFICES ASSUME NEW j \in Calls, j # k PROVE StageOf(j)' /\ IDTokenOf(j)'
    OBVIOUS
  <2> QED
    BY StageKept DEF OnlyMoves, ExInv, ExTypeOK
<1>2. ASSUME NEW a \in AuthReqs PROVE SessionsOf(a)'
  BY DEF ExInv, SessionsOf, OnlyMoves, TableStep, CodeStep
<1>3. ASSUME NEW a \in AuthReqs PROVE FollowsCode(a)'
  <2>1. CASE a # b
    BY <2>1 DEF ExInv, FollowsCode, OnlyMoves
  <2>2. CASE a = b
    BY <2>2 DEF OnlyMoves, FollowsCode
  <2> QED
    BY <2>1, <2>2
<1> QED
  BY <1>1, <1>2, <1>3 DEF ExInv

-----------------------------------------------------------------------------
(* The steps.                                                              *)

\* A step of a handler moves one call on, for the same request, and touches
\* no code but the one it consumes.
LEMMA CoreMoves ==
    ASSUME TypeInv, NEW k \in Calls, Continue(k)
    PROVE  /\ \A j \in Calls : j # k => pc'[j] = pc[j] /\ reqs'[j] = reqs[j]
           /\ reqs'[k].id = reqs[k].id /\ reqs'[k].client = reqs[k].client
           /\ pc[k] \in Running /\ pc'[k] \notin {"idle", "code_populate"}
           /\ pc'[k] \in {"code_invalidate", "code_create_at", "code_create_rt",
                          "exchanged"}
                 => pc[k] \in {"code_populate", "code_invalidate",
                               "code_create_at", "code_create_rt"}
           /\ pc[k] \notin {"exchanged", "refreshed"}
           /\ \/ UNCHANGED authorizeCodes
              \/ /\ pc[k] = "code_invalidate"
                 /\ authorizeCodes' =
                       [authorizeCodes EXCEPT ![reqs[k].id].active = FALSE]
<1>1. TypeOK /\ reqs[k] \in Requester /\ pc[k] \in Running
  BY ContinueHolds DEF TypeInv, TypeOK
<1>2. CASE ExchangePopulate(k)
  BY <1>1, <1>2 DEF ExchangePopulate, TypeOK, Goto, storeVars, Running, Requester
<1>3. CASE ExchangeInvalidate(k)
  BY <1>1, <1>3 DEF ExchangeInvalidate, InvalidateAuthorizeCodeSession, TypeOK, Goto,
                    Running
<1>4. CASE Drop(k)
  BY <1>1, <1>4 DEF Drop, TypeOK, Goto, storeVars, Running
<1>5. CASE ~(ExchangePopulate(k) \/ ExchangeInvalidate(k) \/ Drop(k))
  BY <1>1, <1>5 DEF Continue, ReplayRevokeAccess, ReplayRevokeRefresh,
         ExchangeCreateAccess, ExchangeCreateRefresh,
         RotateRevokeRefresh, RotateRevokeAccess, RefreshCreateAccess,
         RefreshCreateRefresh, ReuseDelete, ReuseRevokeRefresh,
         ReuseRevokeAccess, RevokeRefresh, RevokeAccess, TypeOK, Goto, Running
<1> QED
  BY <1>2, <1>3, <1>4, <1>5

\* A finished refresh worked for what the authorization granted.
LEMMA RefreshedBound ==
    ASSUME TypeInv, GrantInv, NEW k \in Calls, Continue(k), pc'[k] = "refreshed"
    PROVE  BoundTo(reqs[k])'
<1>1. pc[k] = "refresh_create_rt" /\ UNCHANGED <<authorizeCodes, reqs>>
  BY DEF TypeInv, TypeOK, Continue, Goto, ReplayRevokeAccess, ReplayRevokeRefresh,
         ExchangePopulate, ExchangeInvalidate, ExchangeCreateAccess,
         ExchangeCreateRefresh, RotateRevokeRefresh, RotateRevokeAccess,
         RefreshCreateAccess, RefreshCreateRefresh, ReuseDelete, ReuseRevokeRefresh,
         ReuseRevokeAccess, RevokeRefresh, RevokeAccess, Drop, storeVars
<1>2. BoundTo(reqs[k])
  BY <1>1 DEF GrantInv, CallBound, Issuing, Rotating
<1> QED
  BY <1>1, <1>2 DEF BoundTo

\* PKCERefuse ends the call and nothing else.
LEMMA RefuseMoves ==
    ASSUME TypeInv, ExTypeOK, NEW k \in Calls, PKCERefuse(k), StageOf(k)
    PROVE  /\ UNCHANGED <<authorizeCodes, reqs>>
           /\ pc' = [pc EXCEPT ![k] = "failed"] /\ stage' = [stage EXCEPT ![k] = "error"]
           /\ pc[k] \in Running
           /\ refused' \subseteq AuthReqs
<1>1. pc[k] \in Running /\ reqs[k].id \in AuthReqs
  BY DEF PKCERefuse, Drop, Running, TypeInv, CallsOK, Requester
<1> QED
  BY <1>1 DEF PKCERefuse, Drop, Goto, Enter, storeVars, ExTypeOK

\* The stages are stages.
LEMMA EnterType ==
    ASSUME ExTypeOK, NEW k \in Calls, NEW s \in Stages, Enter(k, s)
    PROVE  stage' \in [Calls -> Stages]
BY DEF ExTypeOK, Enter

\* What holds before and after every step.
Context == TypeInv /\ TypeInv' /\ GrantInv /\ GrantInv' /\ TableStep /\ ExInv

\* GetPKCERequestSession keeps the invariant.
LEMMA PKCEGetKeeps ==
    ASSUME Context, NEW k \in Calls, PKCEGet(k) PROVE ExInv'
<1> USE DEF Context
<1>1. /\ ExTypeOK /\ StageOf(k) /\ IDTokenOf(k) /\ pc[k] = "code_populate"
      /\ reqs[k].id \in AuthReqs /\ authorizeCodes[reqs[k].id] # None
      /\ pc \in [Calls -> {"idle"} \union Running \union Returned]
      /\ TypeOK'
  BY DEF ExInv, PKCEGet, StageOf, TypeInv, CallsOK, Requester, GrantInv, CallBound,
         TypeOK
<1>2. SessionsOf(reqs[k].id) /\ FollowsCode(reqs[k].id)
  BY <1>1 DEF ExInv
<1>3. /\ UNCHANGED <<authorizeCodes, reqs, pkceSessions, verifier, asked, idVars>>
      /\ refused' \subseteq AuthReqs /\ pkceRead' \in [Calls -> PKCEParams \union {None}]
      /\ stage' \in [Calls -> Stages]
      /\ \A j \in Calls : j # k =>
            pc'[j] = pc[j] /\ stage'[j] = stage[j] /\ pkceRead'[j] = pkceRead[j]
      /\ pc'[k] \in {"code_populate", "failed"}
      /\ stage'[k] = "core" => /\ pkceSessions[reqs[k].id] = None /\ pc'[k] = pc[k]
                               /\ ValidateNoPKCE(reqs[k].client)
      /\ stage'[k] = "pkce_delete" => pkceRead'[k] = asked[reqs[k].id] /\ pc'[k] = pc[k]
      /\ stage'[k] \in {"core", "pkce_delete", "error"}
  <2>1. CASE PKCERefuse(k) /\ UNCHANGED pkceRead
    BY <1>1, <2>1, RefuseMoves DEF PKCEGet, ExTypeOK, Stages
  <2>2. CASE ~(PKCERefuse(k) /\ UNCHANGED pkceRead)
    <3>1. UNCHANGED vars /\ refused' = refused
      BY <2>2 DEF PKCEGet
    <3>2. UNCHANGED <<authorizeCodes, reqs, pc>>
      BY <3>1 DEF vars, storeVars, callVars
    <3>3. CASE pkceSessions[reqs[k].id] = None
      BY <1>1, <2>2, <3>1, <3>2, <3>3 DEF PKCEGet, Enter, ExTypeOK, Stages
    <3>4. CASE pkceSessions[reqs[k].id] # None
      <4>1. pkceSessions[reqs[k].id] \in PKCEParams
        BY <1>1, <3>4 DEF ExTypeOK
      <4> QED
        BY <1>1, <1>2, <2>2, <3>1, <3>2, <3>4, <4>1
           DEF PKCEGet, Enter, ExTypeOK, Stages, SessionsOf
    <3> QED
      BY <3>3, <3>4
  <2> QED
    BY <2>1, <2>2
<1>4. ExTypeOK'
  BY <1>1, <1>3 DEF ExTypeOK, idVars
<1>5. OnlyMoves(k)
  BY <1>3 DEF OnlyMoves, idVars
<1>6. StageOf(k)' /\ IDTokenOf(k)'
  BY <1>1, <1>3 DEF StageOf, IDTokenOf, Passed, Redeeming, Enforced, idVars
<1>7. FollowsCode(reqs[k].id)'
  BY <1>2, <1>3 DEF FollowsCode, idVars
<1> QED
  BY <1>1, <1>3, <1>4, <1>5, <1>6, <1>7, ExStepOf DEF idVars

\* DeletePKCERequestSession with the verification keeps the invariant: a call
\* passes only with the verifier of the challenge, if PKCE is enforced.
LEMMA PKCEVerifyKeeps ==
    ASSUME Context, NEW k \in Calls, PKCEVerify(k) PROVE ExInv'
<1> USE DEF Context
<1>1. /\ ExTypeOK /\ StageOf(k) /\ IDTokenOf(k) /\ pc[k] = "code_populate"
      /\ reqs[k].id \in AuthReqs /\ authorizeCodes[reqs[k].id] # None
      /\ reqs[k].client = authorizeCodes[reqs[k].id].req.client
      /\ pc \in [Calls -> {"idle"} \union Running \union Returned]
      /\ TypeOK' /\ pkceRead[k] = asked[reqs[k].id]
  BY DEF ExInv, PKCEVerify, StageOf, TypeInv, CallsOK, Requester, GrantInv, CallBound,
         TypeOK
<1>2. SessionsOf(reqs[k].id) /\ FollowsCode(reqs[k].id)
  BY <1>1 DEF ExInv
<1>3. /\ UNCHANGED <<authorizeCodes, reqs, pkceRead, verifier, asked, idVars>>
      /\ pkceSessions' = [pkceSessions EXCEPT ![reqs[k].id] = None]
      /\ refused' \subseteq AuthReqs /\ stage' \in [Calls -> Stages]
      /\ \A j \in Calls : j # k => pc'[j] = pc[j] /\ stage'[j] = stage[j]
      /\ pc'[k] \in {"code_populate", "failed"}
      /\ stage'[k] = "core" => /\ pc'[k] = pc[k]
                               /\ Verified(pkceRead[k], reqs[k].client, verifier[k])
      /\ stage'[k] \in {"core", "error"}
  <2>1. CASE PKCERefuse(k)
    BY <1>1, <2>1, RefuseMoves DEF PKCEVerify, ExTypeOK, Stages
  <2>2. CASE ~PKCERefuse(k)
    <3>1. UNCHANGED vars /\ refused' = refused
      BY <2>2 DEF PKCEVerify
    <3>2. UNCHANGED <<authorizeCodes, reqs, pc>>
      BY <3>1 DEF vars, storeVars, callVars
    <3> QED
      BY <1>1, <2>2, <3>1, <3>2 DEF PKCEVerify, Enter, ExTypeOK, Stages
  <2> QED
    BY <2>1, <2>2
<1>4. ExTypeOK'
  BY <1>1, <1>3 DEF ExTypeOK, idVars
<1>5. OnlyMoves(k)
  BY <1>1, <1>3 DEF OnlyMoves, idVars, ExTypeOK
<1>6. ASSUME stage'[k] = "core", Enforced(reqs[k].client)
      PROVE  Matches(asked[reqs[k].id], verifier[k])
  <2>1. Verified(asked[reqs[k].id], reqs[k].client, verifier[k])
    BY <1>1, <1>3, <1>6
  <2>2. asked[reqs[k].id].challenge # None
    BY <1>6, <2>1 DEF Verified, Validate, Enforced
  <2> QED
    BY <2>1, <2>2 DEF Verified, Matches
<1>7. StageOf(k)' /\ IDTokenOf(k)'
  <2>1. pkceSessions'[reqs[k].id] = None
    BY <1>1, <1>3 DEF ExTypeOK
  <2> QED
    BY <1>1, <1>3, <1>6, <2>1
       DEF StageOf, IDTokenOf, Passed, Redeeming, idVars, BoundTo, Enforced
<1>8. FollowsCode(reqs[k].id)'
  BY <1>1, <1>2, <1>3 DEF FollowsCode, idVars, ExTypeOK
<1> QED
  BY <1>1, <1>3, <1>4, <1>5, <1>7, <1>8, ExStepOf DEF idVars

\* Where a call goes when the step of its handler is done.
LEMMA CoreEnters ==
    ASSUME NEW k \in Calls, Core(k)
    PROVE  \E s \in {"core", "oidc_get", "oidc_refresh", "error", "done"} :
              /\ stage' = [stage EXCEPT ![k] = s]
              /\ s = "core" => pc'[k] \in Running
              /\ s = "oidc_get" => pc'[k] = "exchanged"
              /\ s = "oidc_refresh" => pc'[k] = "refreshed"
<1>1. CASE pc'[k] \in Running
  BY <1>1 DEF Core, Enter, Running
<1>2. CASE pc'[k] = "exchanged"
  BY <1>2 DEF Core, Enter, Running
<1>3. CASE pc'[k] = "refreshed"
  BY <1>3 DEF Core, Enter, Running
<1>4. CASE pc'[k] \in {"replayed", "reused", "failed"}
  BY <1>4 DEF Core, Enter, Running
<1>5. CASE ~(\/ pc'[k] \in Running \/ pc'[k] = "exchanged" \/ pc'[k] = "refreshed"
             \/ pc'[k] \in {"replayed", "reused", "failed"})
  BY <1>5 DEF Core, Enter
<1> QED
  BY <1>1, <1>2, <1>3, <1>4, <1>5

\* The handlers of TokenLifecycle keep the invariant: the code is consumed
\* only by a call that PKCE has let pass.
LEMMA CoreKeeps ==
    ASSUME Context, NEW k \in Calls, Core(k) PROVE ExInv'
<1> USE DEF Context
<1>1. /\ ExTypeOK /\ StageOf(k) /\ IDTokenOf(k) /\ stage[k] = "core" /\ Continue(k)
      /\ TypeOK'
  BY DEF ExInv, Core, TypeInv
<1>2. /\ \A j \in Calls : j # k => pc'[j] = pc[j] /\ reqs'[j] = reqs[j]
      /\ reqs'[k].id = reqs[k].id /\ reqs'[k].client = reqs[k].client
      /\ pc[k] \in Running /\ pc'[k] \notin {"idle", "code_populate"}
      /\ Redeeming(k)' => Passed(k)
      /\ pc[k] \notin {"exchanged", "refreshed"}
      /\ \/ UNCHANGED authorizeCodes
         \/ /\ pc[k] = "code_invalidate"
            /\ authorizeCodes' = [authorizeCodes EXCEPT ![reqs[k].id].active = FALSE]
  BY <1>1, CoreMoves DEF Redeeming, Passed
<1>3. reqs[k].id \in AuthReqs /\ authorizeCodes[reqs[k].id] \in CodeSession
  BY <1>2 DEF TypeInv, CallsOK, Requester, Running, GrantInv, CallBound, TypeOK,
              StoreTypeOK
<1>4. /\ UNCHANGED <<pkceSessions, verifier, pkceRead, asked, refused, idSessions,
                     idRead, idTokens>>
      /\ stage' \in [Calls -> Stages]
      /\ \A j \in Calls : j # k => stage'[j] = stage[j]
      /\ stage'[k] = "core" => pc'[k] \in Running
      /\ stage'[k] = "oidc_get" => pc'[k] = "exchanged"
      /\ stage'[k] = "oidc_refresh" => pc'[k] = "refreshed"
      /\ stage'[k] \in {"core", "oidc_get", "oidc_refresh", "error", "done"}
  BY <1>1, CoreEnters DEF Core, ExTypeOK, Stages, pkceVars, idVars
<1>5. ExTypeOK'
  BY <1>1, <1>4 DEF ExTypeOK
<1>6. OnlyMoves(k)
  <2>1. \A a \in AuthReqs : authorizeCodes[a] = None => authorizeCodes'[a] = None
    BY <1>2, <1>3, NoneAssumption DEF TypeInv, TypeOK, StoreTypeOK
  <2> QED
    BY <1>2, <1>4, <2>1 DEF OnlyMoves
<1>7. StageOf(k)'
  <2>1. stage'[k] = "oidc_refresh" => BoundTo(reqs[k])'
    BY <1>1, <1>4, RefreshedBound
  <2> QED
    BY <1>1, <1>2, <1>4, <2>1 DEF StageOf, Passed, Redeeming
<1>8. IDTokenOf(k)'
  BY <1>1, <1>2, <1>4 DEF IDTokenOf
<1>9. \A a \in AuthReqs : a # reqs[k].id =>
         authorizeCodes'[a] = authorizeCodes[a] /\ idSessions'[a] = idSessions[a]
  BY <1>2, <1>4 DEF TypeInv, TypeOK, StoreTypeOK
<1>10. FollowsCode(reqs[k].id)'
  <2>1. FollowsCode(reqs[k].id)
    BY <1>3 DEF ExInv
  <2>2. CASE UNCHANGED authorizeCodes
    BY <1>2, <1>4, <2>1, <2>2 DEF FollowsCode
  <2>3. CASE /\ pc[k] = "code_invalidate"
             /\ authorizeCodes' = [authorizeCodes EXCEPT ![reqs[k].id].active = FALSE]
    <3>1. pkceSessions[reqs[k].id] = None
      BY <1>1, <2>3 DEF StageOf, Passed, Redeeming
    <3>2. authorizeCodes'[reqs[k].id].active = FALSE
      BY <1>3, <2>3 DEF CodeSession, TypeInv, TypeOK, StoreTypeOK
    <3> QED
      BY <1>2, <1>4, <3>1, <3>2 DEF FollowsCode
  <2> QED
    BY <1>2, <2>2, <2>3
<1> QED
  BY <1>2, <1>3, <1>5, <1>6, <1>7, <1>8, <1>9, <1>10, ExStepOf

\* The OpenID Connect handlers keep the invariant: they delete only the
\* session of a consumed code, and issue what the session says.
LEMMA IDTokenKeeps ==
    ASSUME Context, NEW k \in Calls,
           IDTokenGet(k) \/ IDTokenIssue(k) \/ IDTokenRefresh(k)
    PROVE  ExInv'
<1> USE DEF Context
<1>1. /\ ExTypeOK /\ StageOf(k) /\ IDTokenOf(k) /\ TypeOK'
      /\ pc[k] \in {"exchanged", "refreshed"} /\ reqs[k] \in Requester
      /\ stage[k] \in {"oidc_get", "oidc_delete"} => pc[k] = "exchanged"
  BY DEF ExInv, IDTokenGet, IDTokenIssue, IDTokenRefresh, TypeInv, StageOf, CallsOK
<1>2. /\ reqs[k].id \in AuthReqs /\ authorizeCodes[reqs[k].id] # None
      /\ ~authorizeCodes[reqs[k].id].active
      /\ authorizeCodes[reqs[k].id].req.id = reqs[k].id
  BY <1>1 DEF Requester, GrantInv, CallBound, Unsettled, CodesNamed
<1>3. SessionsOf(reqs[k].id) /\ FollowsCode(reqs[k].id)
  BY <1>2 DEF ExInv
<1>4. UNCHANGED <<authorizeCodes, pc, reqs, pkceSessions, verifier, pkceRead, asked,
                  refused>>
  BY DEF IDTokenGet, IDTokenIssue, IDTokenRefresh, vars, storeVars, callVars, pkceVars
<1>5. /\ stage' \in [Calls -> Stages]
      /\ stage'[k] \in {"oidc_delete", "done", "error"}
      /\ stage'[k] = "oidc_delete" =>
            idRead'[k] = idSessions[reqs[k].id] /\ idRead'[k] # None
               /\ stage[k] = "oidc_get"
      /\ \A j \in Calls : j # k => /\ stage'[j] = stage[j] /\ idRead'[j] = idRead[j]
                                   /\ idTokens'[j] = idTokens[j]
      /\ idRead' \in [Calls -> IDSession \union {None}]
      /\ \A a \in AuthReqs : idSessions'[a] \in {idSessions[a], None}
      /\ \A a \in AuthReqs : a # reqs[k].id => idSessions'[a] = idSessions[a]
      /\ idSessions' \in [AuthReqs -> IDSession \union {None}]
  <2>1. CASE IDTokenGet(k)
    <3>1. idSessions[reqs[k].id] \in IDSession \union {None}
      BY <1>1, <1>2 DEF ExTypeOK
    <3> QED
      BY <1>1, <2>1, <3>1 DEF IDTokenGet, Enter, ExTypeOK, Stages
  <2>2. CASE IDTokenIssue(k)
    BY <1>1, <1>2, <2>2 DEF IDTokenIssue, Enter, ExTypeOK, Stages
  <2>3. CASE IDTokenRefresh(k)
    BY <1>1, <2>3 DEF IDTokenRefresh, Enter, ExTypeOK, Stages
  <2> QED
    BY <2>1, <2>2, <2>3
<1>6. /\ idTokens'[k] \in {idTokens[k], reqs[k], authorizeCodes[reqs[k].id].req}
      /\ idTokens'[k] # idTokens[k] =>
            idTokens'[k].id = reqs[k].id /\ openid \in idTokens'[k].scopes
               /\ BoundTo(idTokens'[k])
      /\ idTokens' = [idTokens EXCEPT ![k] = idTokens'[k]]
  <2>1. CASE IDTokenGet(k)
    BY <1>1, <2>1 DEF IDTokenGet, ExTypeOK
  <2>2. CASE IDTokenIssue(k)
    <3>1. idRead[k].req = authorizeCodes[reqs[k].id].req /\ openid \in idRead[k].req.scopes
      BY <1>1, <2>2 DEF IDTokenIssue, StageOf
    <3> QED
      BY <1>1, <1>2, <2>2, <3>1 DEF IDTokenIssue, ExTypeOK, BoundTo
  <2>3. CASE IDTokenRefresh(k)
    <3>1. BoundTo(reqs[k])
      BY <1>1, <2>3 DEF IDTokenRefresh, StageOf
    <3> QED
      BY <1>1, <1>2, <2>3, <3>1 DEF IDTokenRefresh, ExTypeOK
  <2> QED
    BY <2>1, <2>2, <2>3
<1>7. ExTypeOK'
  <2>1. idTokens' \in [Calls -> Requester \union {None}]
    <3>1. authorizeCodes[reqs[k].id].req \in Requester
      BY <1>2 DEF TypeInv, TypeOK, StoreTypeOK, CodeSession
    <3> QED
      BY <1>1, <1>6, <3>1 DEF ExTypeOK
  <2> QED
    BY <1>1, <1>4, <1>5, <2>1 DEF ExTypeOK
<1>8. OnlyMoves(k)
  BY <1>4, <1>5 DEF OnlyMoves
<1>9. StageOf(k)'
  <2>1. stage'[k] = "oidc_delete" =>
            /\ idRead'[k] \in IDSession
            /\ idRead'[k].req = authorizeCodes[reqs[k].id].req
            /\ openid \in idRead'[k].req.scopes
    BY <1>2, <1>3, <1>5 DEF SessionsOf
  <2> QED
    BY <1>1, <1>4, <1>5, <2>1 DEF StageOf, Passed, Redeeming
<1>10. IDTokenOf(k)'
  BY <1>1, <1>4, <1>6 DEF IDTokenOf, BoundTo
<1>11. FollowsCode(reqs[k].id)'
  BY <1>2, <1>3, <1>4 DEF FollowsCode
<1> QED
  BY <1>2, <1>4, <1>5, <1>7, <1>8, <1>9, <1>10, <1>11, ExStepOf

\* A call for a code starts before PKCE, or at the revocation of a replay.
LEMMA ExchangeKeeps ==
    ASSUME Context, NEW k \in Calls, NEW a \in AuthReqs, NEW c \in Clients,
           NEW v \in Verifiers \union {None}, Exchange(k, a, c, v)
    PROVE  ExInv'
<1> USE DEF Context
<1>1. /\ ExTypeOK /\ StageOf(k) /\ IDTokenOf(k) /\ TypeOK /\ TypeOK' /\ pc[k] = "idle"
      /\ ExchangeGet(k, a, c)
  BY DEF ExInv, Exchange, ExchangeGet, Start, TypeInv
<1>2. /\ UNCHANGED <<authorizeCodes, pkceSessions, pkceRead, asked, refused, idSessions,
                     idRead, idTokens>>
      /\ verifier' = [verifier EXCEPT ![k] = v]
  BY <1>1 DEF Exchange, ExchangeGet, storeVars, idVars
<1>3. /\ authorizeCodes[a] # None /\ reqs'[k].id = a
      /\ \A j \in Calls : j # k => pc'[j] = pc[j] /\ reqs'[j] = reqs[j]
      /\ pc'[k] \in {"replay_at", "code_populate"}
  <2>1. CASE GetAuthorizeCodeError(a) = "ErrInvalidatedAuthorizeCode"
    <3>1. authorizeCodes[a] # None /\ authorizeCodes[a].req.id = a
      BY <2>1 DEF GetAuthorizeCodeError, GrantInv, CodesNamed
    <3>2. Start(k, authorizeCodes[a].req, "replay_at")
      BY <1>1, <2>1 DEF ExchangeGet
    <3> QED
      BY <1>1, <3>1, <3>2 DEF Start, Goto, TypeOK
  <2>2. CASE GetAuthorizeCodeError(a) = "nil"
    <3>1. authorizeCodes[a] # None
      BY <2>2 DEF GetAuthorizeCodeError
    <3>2. Start(k, [id |-> a, client |-> c, scopes |-> {}], "code_populate")
      BY <1>1, <2>2 DEF ExchangeGet
    <3> QED
      BY <1>1, <3>1, <3>2 DEF Start, Goto, TypeOK
  <2> QED
    BY <1>1, <2>1, <2>2 DEF ExchangeGet
<1>4. /\ stage' \in [Calls -> Stages]
      /\ \A j \in Calls : j # k => stage'[j] = stage[j]
      /\ stage'[k] \in {"core", "pkce_get"}
      /\ stage'[k] = "core" => pc'[k] = "replay_at"
      /\ stage'[k] = "pkce_get" => pc'[k] = "code_populate"
  BY <1>1, <1>3 DEF Exchange, Enter, ExTypeOK, Stages
<1>5. ExTypeOK'
  BY <1>1, <1>2, <1>4 DEF ExTypeOK
<1>6. OnlyMoves(k)
  BY <1>1, <1>2, <1>3, <1>4 DEF OnlyMoves, ExTypeOK
<1>7. StageOf(k)' /\ IDTokenOf(k)'
  BY <1>1, <1>2, <1>3, <1>4 DEF StageOf, IDTokenOf, Passed, Redeeming
<1>8. FollowsCode(a)'
  BY <1>2 DEF ExInv, FollowsCode
<1> QED
  BY <1>2, <1>5, <1>6, <1>7, <1>8, ExStepOf

\* Refresh and revocation calls start behind PKCE, but redeem nothing.
LEMMA BeginOtherKeeps ==
    ASSUME Context, NEW k \in Calls, NEW c \in Clients, BeginOther(k, c)
    PROVE  ExInv'
<1> USE DEF Context
<1>1. /\ ExTypeOK /\ StageOf(k) /\ IDTokenOf(k) /\ TypeOK /\ TypeOK' /\ TypeInv'
      /\ pc[k] = "idle"
  BY DEF ExInv, BeginOther, RefreshGet, RevokeGetRefresh, RevokeGetAccess, Start, TypeInv
<1>2. /\ UNCHANGED <<authorizeCodes, pkceSessions, verifier, pkceRead, asked, refused,
                     idSessions, idRead, idTokens>>
      /\ stage' = [stage EXCEPT ![k] = "core"]
  BY DEF BeginOther, RefreshGet, RevokeGetRefresh, RevokeGetAccess, storeVars, Enter,
         pkceVars, idVars
<1>3. \E req, step : Start(k, req, step)
                        /\ step \in {"refresh_rotate_rt", "reuse_delete", "revoke_rt"}
  BY DEF BeginOther, RefreshGet, RevokeGetRefresh, RevokeGetAccess
<1>4. /\ pc'[k] \in {"refresh_rotate_rt", "reuse_delete", "revoke_rt"}
      /\ \A j \in Calls : j # k => pc'[j] = pc[j] /\ reqs'[j] = reqs[j]
  BY <1>1, <1>3 DEF Start, Goto, TypeOK
<1>5. reqs'[k].id \in AuthReqs
  BY <1>1, <1>4 DEF TypeInv, CallsOK, Requester
<1>6. ExTypeOK'
  BY <1>1, <1>2 DEF ExTypeOK, Stages
<1>7. OnlyMoves(k)
  BY <1>1, <1>2, <1>4 DEF OnlyMoves, ExTypeOK
<1>8. StageOf(k)' /\ IDTokenOf(k)'
  BY <1>1, <1>2, <1>4 DEF StageOf, IDTokenOf, Passed, Redeeming, ExTypeOK
<1>9. \A b \in AuthReqs : FollowsCode(b)'
  BY <1>2 DEF ExInv, FollowsCode
<1> QED
  BY <1>2, <1>5, <1>6, <1>7, <1>8, <1>9, ExStepOf

\* An authorize request fills the tables for a code that was not there.
LEMMA AuthorizeKeeps ==
    ASSUME Context, NEW a \in AuthReqs, NEW c \in Clients, NEW g \in SUBSET Scopes,
           NEW type \in ResponseTypes, NEW params \in PKCEParams,
           NEW issuable \in BOOLEAN, AuthorizeRequest(a, c, g, type, params, issuable)
    PROVE  ExInv'
<1> USE DEF Context
<1> DEFINE req == [id |-> a, client |-> c, scopes |-> g]
           session == [req |-> req, issuable |-> issuable]
<1>1. ExTypeOK /\ TypeOK /\ TypeOK' /\ authorizeCodes[a] = None /\ SessionsOf(a)
  BY DEF ExInv, TypeInv, AuthorizeRequest, Authorize
<1>2. /\ UNCHANGED <<pc, reqs, stage, verifier, pkceRead, idRead, idTokens, refused>>
      /\ asked' = [asked EXCEPT ![a] = params]
      /\ authorizeCodes' = [authorizeCodes EXCEPT ![a] =
                                [active |-> TRUE, req |-> req, responseType |-> type]]
      /\ Validate(params, c)
  BY DEF AuthorizeRequest, Authorize, CreateAuthorizeCodeSession, callVars
<1>3. req \in Requester /\ session \in IDSession
  BY DEF Requester, IDSession
<1>4. session # None /\ params # None
  BY <1>3, NoSessionAssumption
<1>5. /\ pkceSessions' \in [AuthReqs -> PKCEParams \union {None}]
      /\ pkceSessions'[a] \in {params, None}
      /\ \A b \in AuthReqs : b # a => pkceSessions'[b] = pkceSessions[b]
  BY <1>1 DEF AuthorizeRequest, CreatePKCERequestSession, SessionsOf, ExTypeOK
<1>6. /\ idSessions' \in [AuthReqs -> IDSession \union {None}]
      /\ idSessions'[a] = IF openid \in g THEN session ELSE None
      /\ \A b \in AuthReqs : b # a => idSessions'[b] = idSessions[b]
  BY <1>1, <1>3 DEF AuthorizeRequest, CreateOpenIDConnectSession, SessionsOf,
                     ExTypeOK
<1>7. ExTypeOK'
  BY <1>1, <1>2, <1>5, <1>6 DEF ExTypeOK
<1>8. /\ authorizeCodes'[a].req = req /\ authorizeCodes'[a].active
      /\ \A b \in AuthReqs : b # a =>
            authorizeCodes'[b] = authorizeCodes[b] /\ asked'[b] = asked[b]
      /\ asked'[a] = params
  BY <1>1, <1>2 DEF TypeOK, StoreTypeOK, ExTypeOK
<1>9. ASSUME NEW b \in AuthReqs PROVE SessionsOf(b)' /\ FollowsCode(b)'
  <2>1. CASE b = a
    <3>1. SessionsOf(a)'
      <4>1. authorizeCodes'[a] # None
        <5>1. [active |-> TRUE, req |-> req, responseType |-> type] \in CodeSession
          BY <1>3 DEF CodeSession
        <5> QED
          BY <1>1, <1>2, <5>1, NoneAssumption DEF TypeOK, StoreTypeOK
      <4>2. idSessions'[a] # None => openid \in g /\ idSessions'[a] = session
        BY <1>6
      <4>3. Validate(asked'[a], authorizeCodes'[a].req.client)
        BY <1>2, <1>8
      <4> QED
        BY <1>5, <1>8, <4>1, <4>2, <4>3 DEF SessionsOf
    <3>2. FollowsCode(a)'
      BY <1>4, <1>6, <1>8 DEF FollowsCode
    <3> QED
      BY <2>1, <3>1, <3>2
  <2>2. CASE b # a
    BY <1>5, <1>6, <1>8, <2>2 DEF ExInv, SessionsOf, FollowsCode
  <2> QED
    BY <2>1, <2>2
<1>10. ASSUME NEW k \in Calls PROVE StageOf(k)' /\ IDTokenOf(k)'
  <2>1. /\ StageOf(k) /\ IDTokenOf(k) /\ idTokens[k] \in Requester \union {None}
        /\ \A b \in AuthReqs : authorizeCodes[b] # None =>
              asked'[b] = asked[b] /\ pkceSessions'[b] \in {pkceSessions[b], None}
    BY <1>1, <1>5, <1>8 DEF ExInv, ExTypeOK
  <2> QED
    BY <1>2, <2>1, StageKept
<1> QED
  BY <1>7, <1>9, <1>10 DEF ExInv

\* Every step keeps the invariant.
LEMMA ExStep ==
    ASSUME TypeInv, TypeInv', GrantInv, GrantInv', ExInv, [ExNext]_exVars
    PROVE  ExInv'
<1>1. Context
  BY ExStepRefines, TablesStep DEF Context
<1>2. CASE UNCHANGED exVars
  BY <1>2 DEF exVars, vars, storeVars, accessVars, refreshVars, callVars, pkceVars, idVars,
         ExInv, ExTypeOK, TypeOK, StoreTypeOK, SessionsOf, FollowsCode, StageOf, IDTokenOf,
         Passed, Redeeming, BoundTo
<1>3. ASSUME NEW k \in Calls, ExContinue(k) PROVE ExInv'
  BY <1>1, <1>3, PKCEGetKeeps, PKCEVerifyKeeps, CoreKeeps, IDTokenKeeps DEF ExContinue
<1> QED
  BY <1>1, <1>2, <1>3, ExchangeKeeps, BeginOtherKeeps, AuthorizeKeeps DEF ExNext

-----------------------------------------------------------------------------
(* What the pipeline guarantees.                                           *)

\* The handlers' invariant and that of the pipeline, in every state.
LEMMA ExInvariant == ExSpec => [](AllInv /\ ExInv)
<1>1. ExInit => ExInv
  BY ExInitInv
<1>2. AllInv /\ AllInv' /\ ExInv /\ [ExNext]_exVars => ExInv'
  BY ExStep DEF AllInv
<1> QED
  BY <1>1, <1>2, ExchangeImplementsLifecycle, AllInvariant, PTL DEF ExSpec

\* The session tables of the PKCE and the OpenID Connect storage hold what
\* the handlers expect to read back.
THEOREM ExTypeCorrect == ExSpec => []ExTypeOK
<1>1. ExInv => ExTypeOK
  BY DEF ExInv
<1> QED
  BY <1>1, ExInvariant, PTL

\* HandleTokenEndpointRequest of the PKCE handler: where PKCE is enforced, a
\* code is redeemed only with the verifier of its challenge.
THEOREM VerifiersAreProven == ExSpec => []VerifierProven
<1>1. ExInv => VerifierProven
  BY DEF ExInv, StageOf, Passed, Enforced, VerifierProven
<1> QED
  BY <1>1, ExInvariant, PTL

\* DeletePKCERequestSession and DeleteOpenIDConnectSession: the sessions
\* follow the code they are kept under.
THEOREM SessionsFollowTheCode == ExSpec => []SessionsFollowCode
<1>1. ExInv => SessionsFollowCode
  BY DEF ExInv, FollowsCode, SessionsFollowCode
<1> QED
  BY <1>1, ExInvariant, PTL

\* IssueExplicitIDToken and its counterpart of the refresh flow: an ID token
\* says what the user granted.
THEOREM IDTokensAreBound == ExSpec => []IDTokenBound
<1>1. ExInv => IDTokenBound
  BY DEF ExInv, IDTokenOf, IDTokenBound
<1> QED
  BY <1>1, ExInvariant, PTL

-----------------------------------------------------------------------------
(* A code that PKCE refused once.                                          *)

\* Where PKCE is enforced and no calls overlap, no call has got or will get a
\* refused code past PKCE.
RefusedOf(k) ==
    /\ pc[k] # "idle"
    /\ reqs[k].id \in refused \ raced
    /\ Enforced(reqs[k].client)
    => stage[k] # "pkce_delete" /\ ~Passed(k)

RefusedInv ==
    /\ \A a \in refused : authorizeCodes[a] # None /\ pkceSessions[a] = None
    /\ \A k \in Calls : RefusedOf(k)

\* What is left to show of a step that refuses nothing.
LEMMA RefusedMoves ==
    ASSUME ExTypeOK, RefusedInv, NEW k \in Calls, raced \subseteq raced',
           refused' = refused, RefusedOf(k)', TableStep,
           \A j \in Calls : j # k =>
              pc'[j] = pc[j] /\ reqs'[j] = reqs[j] /\ stage'[j] = stage[j],
           \A a \in AuthReqs : pkceSessions'[a] \in {pkceSessions[a], None}
    PROVE  RefusedInv'
<1>1. ASSUME NEW j \in Calls, j # k PROVE RefusedOf(j)'
  BY <1>1 DEF RefusedInv, RefusedOf, Passed, Redeeming
<1>2. ASSUME NEW a \in refused
      PROVE  authorizeCodes'[a] # None /\ pkceSessions'[a] = None
  BY DEF RefusedInv, ExTypeOK, TableStep, CodeStep
<1> QED
  BY <1>1, <1>2 DEF RefusedInv

\* A refusal: without overlapping calls, no other call is working for the
\* code, and none has redeemed it.
LEMMA RefuseKeeps ==
    ASSUME Context, SerialInv, RefusedInv, NEW k \in Calls, PKCERefuse(k),
           refused' = refused \union {reqs[k].id}, raced' = raced,
           stage[k] \in {"pkce_get", "pkce_delete"},
           pkceSessions'[reqs[k].id] = None,
           \A a \in AuthReqs : pkceSessions'[a] \in {pkceSessions[a], None}
    PROVE  RefusedInv'
<1> USE DEF Context
<1>1. /\ ExTypeOK /\ TypeInv /\ StageOf(k) /\ pc[k] = "code_populate"
      /\ reqs[k].id \in AuthReqs /\ authorizeCodes[reqs[k].id] # None
  BY DEF ExInv, StageOf, TypeInv, CallsOK, Requester, GrantInv, CallBound
<1>2. /\ UNCHANGED <<authorizeCodes, reqs>>
      /\ pc' = [pc EXCEPT ![k] = "failed"] /\ stage' = [stage EXCEPT ![k] = "error"]
  BY <1>1, RefuseMoves
<1>3. ASSUME NEW j \in Calls PROVE RefusedOf(j)'
  <2>1. CASE j = k
    BY <1>1, <1>2, <2>1 DEF RefusedOf, Passed, Redeeming, ExTypeOK, TypeInv, TypeOK
  <2>2. CASE j # k
    <3>1. pc'[j] = pc[j] /\ reqs'[j] = reqs[j] /\ stage'[j] = stage[j]
      BY <1>1, <1>2, <2>2 DEF ExTypeOK, TypeInv, TypeOK
    <3>2. CASE pc[j] = "idle" \/ reqs[j].id # reqs[k].id \/ reqs[k].id \in raced
      BY <3>1, <3>2 DEF RefusedInv, RefusedOf, Passed, Redeeming
    <3>3. CASE pc[j] # "idle" /\ reqs[j].id = reqs[k].id /\ reqs[k].id \notin raced
      <4>1. OneInFlight(reqs[k].id) /\ Progress(reqs[k].id)
        BY <1>1, <3>3 DEF SerialInv, Serial
      <4>2. ~InFlight(j, reqs[k].id) /\ pc[j] # "exchanged"
        BY <1>1, <2>2, <3>3, <4>1 DEF OneInFlight, Progress, InFlight, Running, Exchanging
      <4>3. StageOf(j)
        BY DEF ExInv
      <4> QED
        BY <3>1, <3>3, <4>2, <4>3 DEF RefusedOf, StageOf, Passed, Redeeming, InFlight,
                                      Running
    <3> QED
      BY <3>2, <3>3
  <2> QED
    BY <2>1, <2>2
<1>4. ASSUME NEW a \in refused'
      PROVE  authorizeCodes'[a] # None /\ pkceSessions'[a] = None
  BY <1>1, <1>2 DEF RefusedInv, ExTypeOK
<1> QED
  BY <1>3, <1>4 DEF RefusedInv

\* The steps of the PKCE handler.
LEMMA PKCERefusals ==
    ASSUME Context, SerialInv, RefusedInv, NEW k \in Calls, PKCEGet(k) \/ PKCEVerify(k)
    PROVE  RefusedInv'
<1> USE DEF Context
<1>1. /\ ExTypeOK /\ StageOf(k) /\ TypeInv /\ pc[k] = "code_populate"
      /\ reqs[k].id \in AuthReqs /\ RefusedOf(k) /\ stage[k] \in {"pkce_get", "pkce_delete"}
  BY DEF ExInv, StageOf, PKCEGet, PKCEVerify, TypeInv, CallsOK, Requester, RefusedInv
<1>2. \A a \in AuthReqs : pkceSessions'[a] \in {pkceSessions[a], None}
  BY <1>1 DEF PKCEGet, PKCEVerify, ExTypeOK
<1>3. CASE PKCERefuse(k) /\ (PKCEVerify(k) \/ pkceSessions[reqs[k].id] = None)
  <2>1. refused' = refused \union {reqs[k].id} /\ raced' = raced
    BY <1>3 DEF PKCERefuse, Drop
  <2>2. pkceSessions'[reqs[k].id] = None
    BY <1>1, <1>2, <1>3 DEF PKCEVerify, ExTypeOK
  <2> QED
    BY <1>1, <1>2, <1>3, <2>1, <2>2, RefuseKeeps
<1>4. CASE ~(PKCERefuse(k) /\ (PKCEVerify(k) \/ pkceSessions[reqs[k].id] = None))
  <2>1. UNCHANGED vars /\ refused' = refused
    BY <1>4 DEF PKCEGet, PKCEVerify
  <2>2. UNCHANGED <<pc, reqs, raced>>
    BY <2>1 DEF vars, callVars
  <2>3. /\ \A j \in Calls : j # k => stage'[j] = stage[j]
        /\ \/ /\ stage'[k] = "core" /\ stage[k] = "pkce_get"
              /\ ~Enforced(reqs[k].client)
           \/ stage'[k] = "core" /\ stage[k] = "pkce_delete"
           \/ stage'[k] = "pkce_delete" /\ pkceSessions[reqs[k].id] # None
    BY <1>1, <1>4, <2>1 DEF PKCEGet, PKCEVerify, Enter, ExTypeOK, Enforced
  <2>4. RefusedOf(k)'
    BY <1>1, <2>1, <2>2, <2>3 DEF RefusedInv, RefusedOf, Passed, Redeeming
  <2> QED
    BY <1>1, <1>2, <2>1, <2>2, <2>3, <2>4, RefusedMoves
<1> QED
  BY <1>3, <1>4

\* The other steps of a running call: the handlers behind PKCE.
LEMMA PassedRefusals ==
    ASSUME Context, RefusedInv, raced \subseteq raced', NEW k \in Calls,
           Core(k) \/ IDTokenGet(k) \/ IDTokenIssue(k) \/ IDTokenRefresh(k)
    PROVE  RefusedInv'
<1> USE DEF Context
<1>1. ExTypeOK /\ StageOf(k) /\ TypeInv /\ RefusedOf(k)
  BY DEF ExInv, RefusedInv
<1>2. UNCHANGED <<pkceSessions, refused>>
  BY DEF Core, IDTokenGet, IDTokenIssue, IDTokenRefresh, pkceVars
<1>3. CASE Core(k)
  <2>1. /\ \A j \in Calls : j # k => pc'[j] = pc[j] /\ reqs'[j] = reqs[j]
        /\ reqs'[k].id = reqs[k].id /\ reqs'[k].client = reqs[k].client
        /\ pc[k] \in Running /\ pc'[k] # "code_populate"
        /\ Redeeming(k)' => Passed(k)
    BY <1>1, <1>3, CoreMoves DEF Core, Redeeming, Passed
  <2>2. /\ \A j \in Calls : j # k => stage'[j] = stage[j]
        /\ stage'[k] # "pkce_delete"
    BY <1>1, <1>3, CoreEnters DEF ExTypeOK
  <2>3. RefusedOf(k)'
    BY <1>1, <1>2, <2>1, <2>2 DEF RefusedOf, Passed, Running
  <2> QED
    BY <1>1, <1>2, <2>1, <2>2, <2>3, RefusedMoves
<1>4. CASE IDTokenGet(k) \/ IDTokenIssue(k) \/ IDTokenRefresh(k)
  <2>1. UNCHANGED <<pc, reqs>> /\ pc[k] \in {"exchanged", "refreshed"}
    BY <1>1, <1>4 DEF IDTokenGet, IDTokenIssue, IDTokenRefresh, vars, callVars, StageOf
  <2>2. /\ \A j \in Calls : j # k => stage'[j] = stage[j]
        /\ stage'[k] \in {"oidc_delete", "done", "error"}
    BY <1>1, <1>4 DEF IDTokenGet, IDTokenIssue, IDTokenRefresh, Enter, ExTypeOK
  <2>3. RefusedOf(k)'
    BY <1>1, <1>2, <2>1, <2>2 DEF RefusedOf, Passed, Redeeming
  <2> QED
    BY <1>1, <1>2, <2>1, <2>2, <2>3, RefusedMoves
<1> QED
  BY <1>3, <1>4

\* The first step of a call: it has passed nothing yet.
LEMMA BeginRefusals ==
    ASSUME Context, RefusedInv, raced \subseteq raced', NEW k \in Calls,
           \/ \E a \in AuthReqs, c \in Clients, v \in Verifiers \union {None} :
                 Exchange(k, a, c, v)
           \/ \E c \in Clients : BeginOther(k, c)
    PROVE  RefusedInv'
<1> USE DEF Context
<1>1. ExTypeOK /\ TypeInv /\ TypeOK
  BY DEF ExInv, TypeInv
<1>2. UNCHANGED <<pkceSessions, refused>>
  BY DEF Exchange, BeginOther, pkceVars
<1>3. \E req, step : Start(k, req, step) /\ step \in Running
                        /\ (step = "code_populate" => stage'[k] = "pkce_get")
                        /\ ~(step \in {"code_invalidate", "code_create_at",
                                       "code_create_rt", "exchanged"})
  <2>1. ASSUME NEW a \in AuthReqs, NEW c \in Clients, NEW v \in Verifiers \union {None},
               Exchange(k, a, c, v)
        PROVE  <1>3!:
    <3>1. CASE Start(k, authorizeCodes[a].req, "replay_at")
      BY <3>1 DEF Running
    <3>2. CASE Start(k, [id |-> a, client |-> c, scopes |-> {}], "code_populate")
      <4>1. pc'[k] = "code_populate"
        BY <1>1, <3>2 DEF Start, Goto, TypeOK
      <4>2. stage'[k] = "pkce_get"
        BY <1>1, <2>1, <4>1 DEF Exchange, Enter, ExTypeOK
      <4> QED
        BY <3>2, <4>2 DEF Running
    <3> QED
      BY <2>1, <3>1, <3>2 DEF Exchange, ExchangeGet
  <2>2. ASSUME NEW c \in Clients, BeginOther(k, c) PROVE <1>3!:
    <3>1. \E req, step : Start(k, req, step)
                            /\ step \in {"refresh_rotate_rt", "reuse_delete", "revoke_rt"}
      BY <2>2 DEF BeginOther, RefreshGet, RevokeGetRefresh, RevokeGetAccess
    <3> QED
      BY <3>1 DEF Running
  <2> QED
    BY <2>1, <2>2
<1>4. /\ \A j \in Calls : j # k => pc'[j] = pc[j] /\ reqs'[j] = reqs[j]
      /\ pc'[k] = "code_populate" => stage'[k] = "pkce_get"
      /\ ~Redeeming(k)'
  BY <1>1, <1>3 DEF Start, Goto, TypeOK, Redeeming
<1>5. /\ \A j \in Calls : j # k => stage'[j] = stage[j]
      /\ stage'[k] # "pkce_delete"
  <2>1. \E s : s # "pkce_delete" /\ stage' = [stage EXCEPT ![k] = s]
    BY DEF Exchange, BeginOther, Enter
  <2> QED
    BY <1>1, <2>1 DEF ExTypeOK
<1>6. RefusedOf(k)'
  BY <1>4, <1>5 DEF RefusedOf, Passed
<1> QED
  BY <1>1, <1>2, <1>4, <1>5, <1>6, RefusedMoves

\* Every step keeps the invariant.
LEMMA RefusedStep ==
    ASSUME TypeInv, TypeInv', GrantInv, GrantInv', SerialInv, ExInv, RefusedInv,
           [ExNext]_exVars
    PROVE  RefusedInv'
<1>1. Context
  BY ExStepRefines, TablesStep DEF Context
<1>2. raced \subseteq raced'
  BY ExStepRefines, RacedGrows DEF vars
<1>3. CASE UNCHANGED exVars
  BY <1>3 DEF exVars, vars, storeVars, callVars, pkceVars, RefusedInv, RefusedOf, Passed,
              Redeeming
<1>4. ASSUME NEW a \in AuthReqs, NEW c \in Clients, NEW g \in SUBSET Scopes,
             NEW type \in ResponseTypes, NEW params, NEW issuable,
             AuthorizeRequest(a, c, g, type, params, issuable)
      PROVE  RefusedInv'
  <2>1. /\ UNCHANGED <<pc, reqs, stage, refused, raced>> /\ authorizeCodes[a] = None
        /\ pkceSessions' \in {pkceSessions, [pkceSessions EXCEPT ![a] = params]}
    BY <1>4 DEF AuthorizeRequest, CreatePKCERequestSession, Authorize, callVars
  <2>2. a \notin refused
    BY <2>1 DEF RefusedInv
  <2>3. \A b \in refused : authorizeCodes'[b] # None /\ pkceSessions'[b] = None
    BY <1>1, <2>1, <2>2 DEF RefusedInv, Context, TableStep, CodeStep, ExInv, ExTypeOK
  <2> QED
    BY <2>1, <2>3 DEF RefusedInv, RefusedOf, Passed, Redeeming
<1> QED
  BY <1>1, <1>2, <1>3, <1>4, BeginRefusals, PassedRefusals, PKCERefusals
     DEF ExNext, ExContinue

\* The PKCE handler deletes its session before it verifies: where PKCE is
\* enforced, a code that was refused once is worth nothing any more.
THEOREM RefusedCodesStayUnredeemed == ExSpec => []RefusedNeverRedeemed
<1>1. ExInit => RefusedInv
  BY DEF ExInit, Init, RefusedInv, RefusedOf
<1>2. AllInv /\ AllInv' /\ ExInv /\ RefusedInv /\ [ExNext]_exVars => RefusedInv'
  BY RefusedStep DEF AllInv
<1>3. AllInv /\ RefusedInv => RefusedNeverRedeemed
  BY DEF RefusedInv, RefusedOf, Passed, Redeeming, Enforced, RefusedNeverRedeemed
<1> QED
  BY <1>1, <1>2, <1>3, ExInvariant, PTL DEF ExSpec

-----------------------------------------------------------------------------
(* TokenValidity: the inductive invariant.                                 *)

\* The steps at which a call has generated its tokens.
Generated == {"code_invalidate", "code_create_at", "code_create_rt",
              "refresh_rotate_at", "refresh_create_at", "refresh_create_rt"}

\* The steps of an exchange after its first phase.
Populated == {"code_invalidate", "code_create_at", "code_create_rt"}

\* The steps of a call that exchanges a code.
Started == {"code_populate", "exchanged", "failed"} \union Populated

\* The steps of a call that refreshes.
Refreshing == Rotating \union {"refreshed"}

\* The session that a call stores its tokens with.
SessionOf(k) ==
    IF pc[k] \in {"code_create_rt", "exchanged"} THEN reqs[k].id ELSE k

\* A token is stored after it was minted, by the call or the authorize request
\* it is named after, and what is stored is the request of the call.
CodeMinted(a) ==
    /\ minted[Code(a)] # None <=> authorizeCodes[a] # None
    /\ minted[Code(a)] # None => minted[Code(a)].session = a
    /\ minted[Access(a)] # None =>
          authorizeCodes[a] # None /\ minted[Access(a)].session = a
    /\ accessTokens[a] # None => minted[Access(a)] # None
    /\ minted[Refresh(a)] = None

CallMinted(k) ==
    /\ minted[Code(k)] = None
    /\ minted[Access(k)] # None <=> pc[k] \in AccessStored
    /\ minted[Refresh(k)] # None => pc[k] \in RefreshStored
    /\ refreshTokens[k] # None => minted[Refresh(k)] # None
    /\ \A tok \in {Access(k), Refresh(k)} :
          minted[tok] # None => minted[tok].session = SessionOf(k)
    /\ accessTokens[k] # None => accessTokens[k] = reqs[k]
    /\ refreshTokens[k] # None => refreshTokens[k].req = reqs[k]

MintedInv ==
    /\ \A a \in AuthReqs : CodeMinted(a)
    /\ \A k \in Calls : CallMinted(k)

\* Both tokens of a call were generated under one secret, and an exchange has
\* set the expiry times before.
PhasesInv ==
    \A k \in Calls :
        /\ pc[k] \in Generated => keyOf[k] \in Secrets
        /\ pc[k] \in Populated \union {"exchanged"} => k \in ready
        /\ k \in ready => pc[k] \in Started

\* The lifespan of the refresh token of a new grant was set to be endless.
Endless(c) == GetEffectiveLifespan(c, "authorization_code", "refresh") < 0

\* An expiry time is within the longest lifespan that the client c may get.
Within(e, c, kind) == e <= now + LongestLifespan(c, kind) + Second \div 2

\* The session of a request has expiry times within the lifespans of its
\* client, once an exchange has set them.
SessionWithin(a) ==
    IF authorizeCodes[a] = None THEN expiresAt[a] = NoExpiries
    ELSE LET c == authorizeCodes[a].req.client IN
         /\ \A kind \in {"access", "refresh"} : Within(expiresAt[a][kind], c, kind)
         /\ \A k \in ready : reqs[k].id = a =>
               /\ expiresAt[a]["access"] > 0
               /\ expiresAt[a]["refresh"] = 0 => Endless(c)

\* Likewise the clone of a refresh call, and every session a refresh token is
\* stored with.
CloneWithin(k) ==
    LET c == authorizeCodes[reqs[k].id].req.client IN
    /\ pc[k] = "idle" => expiresAt[k] = NoExpiries
    /\ pc[k] \in Refreshing =>
          /\ \A kind \in {"access", "refresh"} : Within(expiresAt[k][kind], c, kind)
          /\ expiresAt[k]["access"] > 0
          /\ expiresAt[k]["refresh"] = 0 => Endless(c)

ExpiryInv ==
    /\ \A a \in AuthReqs : SessionWithin(a)
    /\ \A k \in Calls : CloneWithin(k)
    /\ \A tok \in extended : minted[tok] # None

\* The steps before a call of the introspection endpoint has an answer.
Unanswered == {"lookup", "expiry", "read1", "read2"}

\* The token was good when the call found it, or it is too late for it, or it
\* has got a later expiry in the meantime.
FoundGood(i, l) ==
    \/ i \in wasValid
    \/ l.token \in extended
    \/ minted[l.token].secret \notin Keys \union l.keys
    \/ l.step = "expiry" /\ Expired(ExpiryOf(l.token))

\* What an introspection knows while it goes through the tables.
Known(i, l) ==
    /\ minted[l.token] # None
    /\ DisableRefreshTokenValidation => l.table = "access" /\ ~l.retry
    /\ l.step \in {"expiry", "read1", "read2"} =>
          l.token.kind = l.table /\ FoundGood(i, l)
    /\ l.step # "read2" => minted[l.token].secret \notin l.keys
    /\ l.step = "read2" => minted[l.token].secret # global \/ global \in l.keys
    /\ l.step \in Unanswered =>
          /\ i \in (IF Valid(l.token) THEN wasValid ELSE wasInvalid)
          /\ ~l.retry /\ l.token.kind # l.table => i \in wasInvalid

\* What it may answer.
Answered(i, l) ==
    /\ l.step \in {"active", "authorized"} =>
          /\ i \in wasValid \/ l.token \in extended
          /\ l.asked \subseteq minted[l.token].scopes
          /\ l.authorizing => l.token.kind = "access"
    /\ l.step = "inactive" =>
          i \in wasInvalid \/ ~(l.asked \subseteq minted[l.token].scopes)
    /\ l.step = "unauthorized" => i \in wasInvalid \/ l.token.kind = "refresh"

LooksInv ==
    \A i \in Inspections : \A l \in Look :
        looks[i] = l => Known(i, l) /\ Answered(i, l)

ValidityInv ==
    /\ AllInv
    /\ ValidityTypeOK
    /\ MintedInv
    /\ PhasesInv
    /\ ExpiryInv
    /\ IssuedNotExtended
    /\ LooksInv

-----------------------------------------------------------------------------
(* Lifespans.                                                              *)

\* Rounding moves a time by half a second at most, and does not lead to the
\* zero time what is later than something it does not lead there.
LEMMA RoundBounds ==
    ASSUME NEW t \in Int
    PROVE  /\ Round(t) \in Int
           /\ Round(t) <= t + Second \div 2
           /\ t + Second \div 2 < Round(t) + Second
<1> DEFINE n == t + Second \div 2
<1>1. Second \in Nat \ {0} /\ n \in Int
  BY TimeAssumption
<1>2. /\ (n \div Second) \in Int
      /\ (n \div Second) * Second <= n /\ n < (n \div Second) * Second + Second
  BY <1>1
<1>3. QED
  BY <1>1, <1>2 DEF Round

LEMMA RoundPositive ==
    ASSUME NEW t \in Int, NEW u \in Int, t <= u, Round(t) > 0
    PROVE  Round(u) > 0 /\ t > 0
<1> DEFINE h == Second \div 2
           q == (t + h) \div Second
           r == (u + h) \div Second
<1>1. Second \in Nat \ {0} /\ h \in Nat /\ 2 * h <= Second
  BY TimeAssumption
<1>2. /\ q \in Int /\ q * Second <= t + h /\ t + h < q * Second + Second
      /\ r \in Int /\ r * Second <= u + h /\ u + h < r * Second + Second
  BY <1>1
<1>3. q * Second > 0
  BY DEF Round
<1>4. q >= 1
  BY <1>1, <1>2, <1>3
<1>5. q * Second >= Second
  BY <1>1, <1>2, <1>4
<1>6. r * Second > 0
  BY <1>1, <1>2, <1>5
<1>7. QED
  BY <1>1, <1>2, <1>5, <1>6 DEF Round

LEMMA LifespanType ==
    ASSUME NEW c \in Clients
    PROVE  /\ \A kind \in TokenKinds : GetLifespan(kind) \in Int
           /\ \A key \in LifespanKeys :
                 GetEffectiveLifespan(c, key[1], key[2]) \in Int
<1>1. \A kind \in TokenKinds : GetLifespan(kind) \in Int
  BY LifespanAssumption DEF GetLifespan
<1>2. ASSUME NEW key \in LifespanKeys
      PROVE  GetEffectiveLifespan(c, key[1], key[2]) \in Int
  <2>1. <<key[1], key[2]>> = key /\ key[2] \in TokenKinds
    BY DEF LifespanKeys, TokenKinds
  <2>2. ClientLifespans[c][key] \in Int \union {None}
    BY LifespanAssumption
  <2>3. QED
    BY <1>1, <2>1, <2>2 DEF GetEffectiveLifespan
<1>3. QED
  BY <1>1, <1>2

\* The keys by the kind of token.
LEMMA KeysOfKinds ==
    /\ {x \in LifespanKeys : x[2] = "access"} =
          {<<"authorization_code", "access">>, <<"refresh_token", "access">>,
           <<"implicit", "access">>}
    /\ {x \in LifespanKeys : x[2] = "refresh"} =
          {<<"authorization_code", "refresh">>, <<"refresh_token", "refresh">>}
BY DEF LifespanKeys

LEMMA LargestOfThree ==
    ASSUME NEW i \in Int, NEW j \in Int, NEW k \in Int
    PROVE  LET m == CHOOSE m \in {i, j, k} : \A n \in {i, j, k} : n <= m
           IN  m \in {i, j, k} /\ \A n \in {i, j, k} : n <= m
<1>1. \E m \in {i, j, k} : \A n \in {i, j, k} : n <= m
  OBVIOUS
<1>2. QED
  BY <1>1

LEMMA LongestIsLongest ==
    ASSUME NEW c \in Clients, NEW kind \in {"access", "refresh"}
    PROVE  /\ LongestLifespan(c, kind) \in Int
           /\ \A key \in LifespanKeys : key[2] = kind =>
                 GetEffectiveLifespan(c, key[1], kind) <= LongestLifespan(c, kind)
           /\ StartTime + LongestLifespan(c, kind) + Second \div 2 >= 0
<1> DEFINE span(key) == GetEffectiveLifespan(c, key[1], kind)
           spans == {span(key) : key \in {x \in LifespanKeys : x[2] = kind}}
<1>1. \A key \in LifespanKeys : key[2] = kind => span(key) \in Int
  BY LifespanType
<1>2. LongestLifespan(c, kind) \in spans /\ \A n \in spans : n <= LongestLifespan(c, kind)
  <2>1. PICK i \in Int, j \in Int, k \in Int : spans = {i, j, k}
    <3>1. CASE kind = "access"
      <4> DEFINE k1 == <<"authorization_code", "access">>
                 k2 == <<"refresh_token", "access">>
                 k3 == <<"implicit", "access">>
      <4>1. {x \in LifespanKeys : x[2] = kind} = {k1, k2, k3}
        BY <3>1, KeysOfKinds
      <4> HIDE DEF span, k1, k2, k3
      <4>2. \A key \in {k1, k2, k3} : span(key) \in Int
        BY <1>1, <4>1
      <4>3. spans = {span(k1), span(k2), span(k3)}
        BY <4>1
      <4> HIDE DEF spans
      <4>4. QED
        BY <4>2, <4>3
    <3>2. CASE kind = "refresh"
      <4> DEFINE k1 == <<"authorization_code", "refresh">>
                 k2 == <<"refresh_token", "refresh">>
      <4>1. {x \in LifespanKeys : x[2] = kind} = {k1, k2}
        BY <3>2, KeysOfKinds
      <4> HIDE DEF span, k1, k2
      <4>2. \A key \in {k1, k2} : span(key) \in Int
        BY <1>1, <4>1
      <4>3. spans = {span(k1), span(k2), span(k2)}
        BY <4>1
      <4> HIDE DEF spans
      <4>4. QED
        BY <4>2, <4>3
    <3>3. QED
      BY <3>1, <3>2
  <2>2. LongestLifespan(c, kind) = CHOOSE m \in spans : \A n \in spans : n <= m
    BY DEF LongestLifespan
  <2> HIDE DEF spans
  <2>3. QED
    BY <2>1, <2>2, LargestOfThree
<1>3. PICK key \in LifespanKeys : key[2] = kind /\ LongestLifespan(c, kind) = span(key)
  BY <1>2
<1>4. Round(StartTime + span(key)) > 0 /\ span(key) \in Int /\ StartTime \in Nat
  BY <1>1, <1>3, ZeroTimeAssumption, TimeAssumption
<1>5. StartTime + span(key) > 0
  <2> HIDE DEF span
  <2>1. StartTime + span(key) \in Int
    BY <1>4
  <2>2. QED
    BY <1>4, <2>1, RoundPositive
<1>6. Second \div 2 \in Nat
  BY TimeAssumption
<1>7. StartTime + LongestLifespan(c, kind) + Second \div 2 >= 0
  <2> HIDE DEF span
  <2>1. QED
    BY <1>3, <1>4, <1>5, <1>6
<1>8. QED
  BY <1>1, <1>2, <1>3, <1>7

\* An expiry time that is set is after the zero time and within the lifespans.
LEMMA SetExpiry ==
    ASSUME ValidityTypeOK, NEW c \in Clients, NEW key \in LifespanKeys,
           key[2] \in {"access", "refresh"},
           NEW e, e = Round(now + GetEffectiveLifespan(c, key[1], key[2]))
    PROVE  e \in Int /\ e > 0 /\ Within(e, c, key[2])
<1> DEFINE l == GetEffectiveLifespan(c, key[1], key[2])
           L == LongestLifespan(c, key[2])
<1>1. l \in Int /\ now \in Nat /\ StartTime \in Nat /\ now >= StartTime
  BY LifespanType, TimeAssumption DEF ValidityTypeOK
<1>2. L \in Int /\ l <= L /\ Round(StartTime + l) > 0 /\ Second \div 2 \in Nat
  BY LongestIsLongest, ZeroTimeAssumption, TimeAssumption
<1> HIDE DEF l, L
<1>3. e = Round(now + l)
  BY DEF l
<1>4. e \in Int /\ e > 0 /\ e <= now + l + Second \div 2
  BY <1>1, <1>2, <1>3, RoundBounds, RoundPositive
<1>5. e <= now + L + Second \div 2
  BY <1>1, <1>2, <1>4
<1>6. QED
  BY <1>4, <1>5 DEF Within, L

LEMMA ZeroWithin ==
    ASSUME ValidityTypeOK, NEW c \in Clients, NEW kind \in {"access", "refresh"}
    PROVE  Within(0, c, kind)
BY LongestIsLongest, TimeAssumption DEF ValidityTypeOK, Within

LEMMA LaterWithin ==
    ASSUME ValidityTypeOK, NEW c \in Clients, NEW kind \in {"access", "refresh"},
           NEW e \in Int, Within(e, c, kind), now' \in Nat, now' >= now
    PROVE  e <= now' + LongestLifespan(c, kind) + Second \div 2
<1>1. LongestLifespan(c, kind) \in Int /\ now \in Nat /\ Second \div 2 \in Nat
  BY LongestIsLongest, TimeAssumption DEF ValidityTypeOK
<1>2. e <= now + LongestLifespan(c, kind) + Second \div 2
  BY DEF Within
<1>3. QED
  BY <1>1, <1>2

\* The expiry times that the token endpoint sets.
LEMMA EndpointExpiries ==
    ASSUME ValidityTypeOK, NEW c \in Clients,
           NEW grant \in {"authorization_code", "refresh_token"},
           NEW e \in [TokenKinds -> Int],
           NEW f, f = TokenEndpointExpiries(e, c, grant)
    PROVE  /\ f \in [TokenKinds -> Int]
           /\ f["code"] = e["code"]
           /\ f["access"] > 0 /\ Within(f["access"], c, "access")
           /\ \/ f["refresh"] > 0 /\ Within(f["refresh"], c, "refresh")
              \/ /\ f["refresh"] = e["refresh"]
                 /\ GetEffectiveLifespan(c, grant, "refresh") < 0
<1> DEFINE rt == GetEffectiveLifespan(c, grant, "refresh")
           at == GetEffectiveLifespan(c, grant, "access")
           x == Round(now + at)
           y == Round(now + rt)
<1>1. <<grant, "access">> \in LifespanKeys /\ <<grant, "refresh">> \in LifespanKeys
  BY DEF LifespanKeys
<1>2. rt \in Int
  BY <1>1, LifespanType
<1>3. x \in Int /\ x > 0 /\ Within(x, c, "access")
  BY <1>1, SetExpiry
<1>4. y \in Int /\ y > 0 /\ Within(y, c, "refresh")
  BY <1>1, SetExpiry
<1>5. f = [e EXCEPT !["access"] = x, !["refresh"] = IF rt > -1 THEN y ELSE @]
  BY DEF TokenEndpointExpiries
<1> HIDE DEF x, y, rt, at
<1>6. /\ f["access"] = x /\ f["code"] = e["code"]
      /\ f["refresh"] = IF rt > -1 THEN y ELSE e["refresh"]
      /\ f \in [TokenKinds -> Int]
  BY <1>3, <1>4, <1>5 DEF TokenKinds
<1>7. QED
  BY <1>2, <1>3, <1>4, <1>6 DEF rt

-----------------------------------------------------------------------------
(* What the steps do to the calls.                                         *)

\* A step of this module is a step of TokenLifecycle or leaves its variables
\* alone.
LEMMA IsNext ==
    ASSUME [ValidityNext]_allVars
    PROVE  [Next]_vars
<1>1. CASE TokenStep
  BY <1>1 DEF TokenStep, Issue, Redeem, Rotate, SetExchangeExpiries, Populate,
              StoreExchanged, BeginRotation, StoreRefreshed, OtherStep, Next,
              Begin, Continue
<1>2. CASE RotateSecret \/ RetireSecret \/ Tick \/ InspectionStep
  BY <1>2 DEF RotateSecret, RetireSecret, Tick, InspectionStep
<1>3. CASE UNCHANGED allVars
  BY <1>3 DEF allVars
<1>4. QED
  BY <1>1, <1>2, <1>3 DEF ValidityNext

LEMMA LifecycleStep ==
    ASSUME AllInv, [ValidityNext]_allVars
    PROVE  AllInv' /\ TableStep
BY IsNext, TypeStep, GrantStep, FreshStep, SerialStep, TablesStep DEF AllInv

\* A call keeps its request, and its kind, once it has begun.
CallMoves(k) ==
    /\ pc[k] # "idle" => pc'[k] # "idle" /\ reqs'[k].id = reqs[k].id
    /\ pc[k] \in AccessStored => reqs'[k] = reqs[k]
    /\ pc[k] \in Started => pc'[k] \in Started
    /\ pc'[k] \in Refreshing =>
          \/ pc[k] \in Refreshing
          \/ pc[k] = "idle" /\ pc'[k] = "refresh_rotate_rt"

LEMMA CallsMove ==
    ASSUME TypeInv, [Next]_vars, NEW k \in Calls
    PROVE  CallMoves(k)
<1> USE DEF CallMoves, Started, Refreshing, Populated, Rotating, AccessStored
<1>0. /\ pc \in [Calls -> {"idle"} \union Running \union Returned]
      /\ reqs \in [Calls -> Requester \union {None}]
      /\ pc[k] # "idle" => reqs[k] \in Requester
  BY DEF TypeInv, TypeOK, CallsOK
<1>1. CASE pc'[k] = pc[k] /\ reqs'[k] = reqs[k]
  BY <1>1
<1>2. CASE UNCHANGED vars
  BY <1>1, <1>2 DEF vars, callVars
<1>3. ASSUME NEW a \in AuthReqs, NEW c \in Clients, NEW g \in SUBSET Scopes,
             NEW type \in ResponseTypes, Authorize(a, c, g, type)
      PROVE  CallMoves(k)
  BY <1>1, <1>3 DEF Authorize, callVars
<1>4. ASSUME NEW j \in Calls, NEW c \in Clients, Begin(j, c)
      PROVE  CallMoves(k)
  <2>1. \/ \E req : Start(j, req, "replay_at")
        \/ \E req : Start(j, req, "code_populate")
        \/ \E req : Start(j, req, "reuse_delete")
        \/ \E req : Start(j, req, "revoke_rt")
        \/ \E req : Start(j, req, "refresh_rotate_rt")
    BY <1>4 DEF Begin, ExchangeGet, RefreshGet, RevokeGetRefresh, RevokeGetAccess
  <2>2. PICK req : /\ pc[j] = "idle" /\ pc' = [pc EXCEPT ![j] = pc'[j]]
                   /\ pc'[j] \in {"replay_at", "code_populate", "reuse_delete",
                                  "revoke_rt", "refresh_rotate_rt"}
                   /\ reqs' = [reqs EXCEPT ![j] = req]
    BY <1>0, <2>1 DEF Start, Goto
  <2>3. CASE j # k
    BY <1>0, <1>1, <2>2, <2>3
  <2>4. CASE j = k
    BY <1>0, <2>2, <2>4
  <2>5. QED
    BY <2>3, <2>4
<1>5. ASSUME NEW j \in Calls, Continue(j)
      PROVE  CallMoves(k)
  <2>1. CASE j # k
    <3>1. pc'[k] = pc[k] /\ reqs'[k] = reqs[k]
      BY <1>0, <1>5, <2>1 DEF Continue, ReplayRevokeAccess, ReplayRevokeRefresh,
         ExchangePopulate, ExchangeInvalidate, Drop, ExchangeCreateAccess,
         ExchangeCreateRefresh, RotateRevokeRefresh, RotateRevokeAccess,
         RefreshCreateAccess, RefreshCreateRefresh, ReuseDelete,
         ReuseRevokeRefresh, ReuseRevokeAccess, RevokeRefresh, RevokeAccess, Goto
    <3>2. QED
      BY <1>1, <3>1
  <2>2. CASE j = k
    <3>1. CASE ExchangePopulate(k)
      BY <1>0, <3>1 DEF ExchangePopulate, Goto, Requester
    <3>2. CASE Continue(k) /\ ~ExchangePopulate(k)
      BY <1>0, <3>2 DEF Continue, ReplayRevokeAccess, ReplayRevokeRefresh,
         ExchangeInvalidate, Drop, ExchangeCreateAccess,
         ExchangeCreateRefresh, RotateRevokeRefresh, RotateRevokeAccess,
         RefreshCreateAccess, RefreshCreateRefresh, ReuseDelete,
         ReuseRevokeRefresh, ReuseRevokeAccess, RevokeRefresh, RevokeAccess, Goto
    <3>3. QED
      BY <1>5, <2>2, <3>1, <3>2
  <2>3. QED
    BY <2>1, <2>2
<1>6. QED
  BY <1>2, <1>3, <1>4, <1>5 DEF Next

\* The call that takes a step, and where it takes it.
Moves(k, from, to) ==
    /\ pc[k] \in from /\ pc'[k] \in to
    /\ \A j \in Calls : j # k => pc'[j] = pc[j] /\ reqs'[j] = reqs[j]

\* A step that stores no token: no call moves over the storing steps, no code
\* is issued.
QuietCall(k) ==
    \/ pc'[k] = pc[k] /\ reqs'[k] = reqs[k]
    \/ pc[k] \notin AccessStored /\ pc'[k] \notin AccessStored

Quiet ==
    /\ minted' = minted
    /\ \A k \in Calls : QuietCall(k)
    /\ \A a \in AuthReqs : authorizeCodes[a] = None => authorizeCodes'[a] = None

\* A step that does not concern the keys and the expiry times of the calls.
Aside ==
    /\ UNCHANGED sessionVars
    /\ \A k \in Calls :
          /\ pc'[k] \in Generated => pc[k] \in Generated
          /\ pc'[k] \in Populated \union {"exchanged"} =>
                pc[k] \in Populated \union {"exchanged"}
          /\ pc'[k] \in Refreshing => pc[k] \in Refreshing

LEMMA OtherQuiet ==
    ASSUME TypeInv, OtherStep
    PROVE  Quiet /\ Aside
<1> USE DEF Quiet, QuietCall, Aside, Refreshing, Populated, Rotating,
            AccessStored, Generated, Moves
<1>0. /\ pc \in [Calls -> {"idle"} \union Running \union Returned]
      /\ reqs \in [Calls -> Requester \union {None}]
      /\ authorizeCodes \in [AuthReqs -> CodeSession \union {None}]
  BY DEF TypeInv, TypeOK, StoreTypeOK
<1>1. UNCHANGED sessionVars
  BY DEF OtherStep
<1>2. minted' = minted
  BY <1>1 DEF sessionVars
<1>3. \A a \in AuthReqs : authorizeCodes[a] = None => authorizeCodes'[a] = None
  BY <1>0 DEF OtherStep, RevokeGetRefresh, RevokeGetAccess, ReplayRevokeAccess,
     ReplayRevokeRefresh, ExchangeInvalidate, InvalidateAuthorizeCodeSession,
     RotateRevokeAccess, ReuseDelete, ReuseRevokeRefresh, ReuseRevokeAccess,
     RevokeRefresh, RevokeAccess, Drop, storeVars
<1>4. PICK k \in Calls :
         \/ Moves(k, {"idle"}, {"revoke_rt"})
         \/ Moves(k, {"replay_at", "replay_rt", "reuse_delete", "reuse_rt",
                      "reuse_at", "revoke_rt", "revoke_at", "code_populate",
                      "refresh_rotate_rt"},
                  {"replay_rt", "replayed", "reuse_rt", "reuse_at", "reused",
                   "revoke_at", "revoked", "failed"})
         \/ Moves(k, {"code_invalidate"}, {"code_create_at"})
         \/ Moves(k, {"refresh_rotate_at"}, {"refresh_create_at"})
  BY <1>0 DEF OtherStep, RevokeGetRefresh, RevokeGetAccess, Start,
     ReplayRevokeAccess, ReplayRevokeRefresh, ExchangeInvalidate,
     RotateRevokeAccess, ReuseDelete, ReuseRevokeRefresh, ReuseRevokeAccess,
     RevokeRefresh, RevokeAccess, Drop, Goto
<1>5. QED
  BY <1>1, <1>2, <1>3, <1>4

LEMMA RedeemQuiet ==
    ASSUME TypeInv, NEW k \in Calls, NEW a \in AuthReqs, NEW c \in Clients,
           Redeem(k, a, c)
    PROVE  Quiet /\ Aside
<1>0. /\ pc \in [Calls -> {"idle"} \union Running \union Returned]
      /\ reqs \in [Calls -> Requester \union {None}]
  BY DEF TypeInv, TypeOK
<1>1. UNCHANGED sessionVars /\ ExchangeGet(k, a, c)
  BY DEF Redeem
<1>2. /\ minted' = minted
      /\ authorizeCodes' = authorizeCodes
  BY <1>1 DEF sessionVars, ExchangeGet, storeVars
<1>3. Moves(k, {"idle"}, {"replay_at", "code_populate"})
  BY <1>0, <1>1 DEF ExchangeGet, Start, Goto, Moves
<1>4. QED
  BY <1>1, <1>2, <1>3
     DEF Quiet, QuietCall, Aside, Refreshing, Populated, Rotating, AccessStored,
         Generated, Moves

LEMMA PopulateMoves ==
    ASSUME TypeInv, NEW k \in Calls, Populate(k)
    PROVE  /\ Quiet
           /\ Moves(k, {"code_populate"}, {"failed", "code_invalidate"})
<1>0. /\ pc \in [Calls -> {"idle"} \union Running \union Returned]
      /\ reqs \in [Calls -> Requester \union {None}]
  BY DEF TypeInv, TypeOK
<1>1. minted' = minted /\ ExchangePopulate(k)
  BY DEF Populate
<1>2. authorizeCodes' = authorizeCodes
  BY <1>1 DEF ExchangePopulate, storeVars
<1>3. Moves(k, {"code_populate"}, {"failed", "code_invalidate"})
  BY <1>0, <1>1 DEF ExchangePopulate, Goto, Moves
<1>4. QED
  BY <1>1, <1>2, <1>3 DEF Quiet, QuietCall, AccessStored, Moves

LEMMA BeginRotationMoves ==
    ASSUME TypeInv, NEW k \in Calls, BeginRotation(k)
    PROVE  /\ Quiet
           /\ Moves(k, {"refresh_rotate_rt"}, {"failed", "refresh_rotate_at"})
<1>0. /\ pc \in [Calls -> {"idle"} \union Running \union Returned]
      /\ reqs \in [Calls -> Requester \union {None}]
  BY DEF TypeInv, TypeOK
<1>1. minted' = minted /\ RotateRevokeRefresh(k)
  BY DEF BeginRotation
<1>2. authorizeCodes' = authorizeCodes
  BY <1>1 DEF RotateRevokeRefresh
<1>3. Moves(k, {"refresh_rotate_rt"}, {"failed", "refresh_rotate_at"})
  BY <1>0, <1>1 DEF RotateRevokeRefresh, Goto, Moves
<1>4. QED
  BY <1>1, <1>2, <1>3 DEF Quiet, QuietCall, AccessStored, Moves

LEMMA RotateMoves ==
    ASSUME TypeInv, NEW k \in Calls, NEW t \in Calls, NEW c \in Clients, Rotate(k, t, c)
    PROVE  /\ Quiet
           /\ UNCHANGED <<storeVars, keyOf, ready>>
           /\ Moves(k, {"idle"}, {"reuse_delete", "refresh_rotate_rt"})
           /\ pc'[k] = "reuse_delete" => UNCHANGED <<expiresAt, extended>>
           /\ pc'[k] = "refresh_rotate_rt" =>
                 /\ refreshTokens[t] # None
                 /\ refreshTokens[t].req.client = c
                 /\ reqs'[k].id = refreshTokens[t].req.id
                 /\ SetExpiries(k, TokenEndpointExpiries(
                        expiresAt[minted[Refresh(t)].session], c, "refresh_token"))
<1>0. /\ pc \in [Calls -> {"idle"} \union Running \union Returned]
      /\ reqs \in [Calls -> Requester \union {None}]
  BY DEF TypeInv, TypeOK
<1>1. /\ UNCHANGED <<minted, keyOf, ready>> /\ RefreshGet(k, t, c)
      /\ pc'[k] = "reuse_delete" => UNCHANGED <<expiresAt, extended>>
      /\ pc'[k] = "refresh_rotate_rt" =>
             SetExpiries(k, TokenEndpointExpiries(
                expiresAt[minted[Refresh(t)].session], c, "refresh_token"))
  BY DEF Rotate
<1>2. UNCHANGED storeVars /\ authorizeCodes' = authorizeCodes
  BY <1>1 DEF RefreshGet, storeVars
<1>3. Moves(k, {"idle"}, {"reuse_delete", "refresh_rotate_rt"})
  BY <1>0, <1>1 DEF RefreshGet, Start, Goto, Moves
<1>4. pc'[k] = "refresh_rotate_rt" =>
         /\ refreshTokens[t] # None
         /\ refreshTokens[t].req.client = c
         /\ reqs'[k].id = refreshTokens[t].req.id
  BY <1>0, <1>1 DEF RefreshGet, Start, Goto, GetRefreshTokenError
<1>5. QED
  BY <1>1, <1>2, <1>3, <1>4 DEF Quiet, QuietCall, AccessStored, Moves

LEMMA StandstillQuiet ==
    ASSUME UNCHANGED <<vars, sessionVars>>
    PROVE  Quiet /\ Aside
BY DEF vars, storeVars, callVars, sessionVars, Quiet, QuietCall, Aside

LEMMA SetExchangeExpiriesQuiet ==
    ASSUME NEW k \in Calls, SetExchangeExpiries(k)
    PROVE  Quiet
BY DEF SetExchangeExpiries, vars, storeVars, callVars, Quiet, QuietCall

-----------------------------------------------------------------------------
(* Which tokens have been minted.                                          *)

\* A quiet step mints nothing, and stores nothing.
LEMMA QuietMinted ==
    ASSUME TypeInv, FreshInv, TableStep, MintedInv, Quiet
    PROVE  MintedInv'
<1>1. ASSUME NEW a \in AuthReqs
      PROVE  CodeMinted(a)'
  <2>1. CodeMinted(a) /\ CodeStep(a) /\ AccessStep(a) /\ a \notin Calls
    BY NamesAssumption DEF MintedInv, TableStep, AccessSignatures
  <2>2. authorizeCodes'[a] = None <=> authorizeCodes[a] = None
    BY <2>1 DEF Quiet, CodeStep
  <2>3. accessTokens'[a] \in {accessTokens[a], None}
    BY <2>1, <2>2 DEF AccessStep
  <2>4. QED
    BY <2>1, <2>2, <2>3 DEF Quiet, CodeMinted
<1>2. ASSUME NEW k \in Calls
      PROVE  CallMinted(k)'
  <2>1. /\ CallMinted(k) /\ AccessStep(k) /\ RefreshStep(k) /\ k \notin AuthReqs
        /\ QuietCall(k) /\ minted' = minted
    BY NamesAssumption DEF MintedInv, TableStep, AccessSignatures, Quiet
  <2>2. accessTokens'[k] \in {accessTokens[k], None}
    BY <2>1 DEF AccessStep, QuietCall, AccessStored
  <2>3. \/ refreshTokens'[k] \in {refreshTokens[k], None}
        \/ /\ refreshTokens[k] # None
           /\ refreshTokens'[k] = [refreshTokens[k] EXCEPT !.active = FALSE]
    BY <2>1 DEF RefreshStep, QuietCall, AccessStored
  <2>4. refreshTokens[k] # None => refreshTokens[k] \in RefreshSession
    BY DEF TypeInv, TypeOK, StoreTypeOK
  <2>5. refreshTokens'[k] # None =>
           refreshTokens[k] # None /\ refreshTokens'[k].req = refreshTokens[k].req
    BY <2>3, <2>4 DEF RefreshSession
  <2>6. CASE pc'[k] = pc[k] /\ reqs'[k] = reqs[k]
    <3>1. SessionOf(k)' = SessionOf(k)
      BY <2>6 DEF SessionOf
    <3>2. QED
      BY <2>1, <2>2, <2>5, <2>6, <3>1 DEF CallMinted
  <2>7. CASE pc[k] \notin AccessStored /\ pc'[k] \notin AccessStored
    <3>1. minted[Access(k)] = None /\ minted[Refresh(k)] = None
      BY <2>1, <2>7 DEF CallMinted, AccessStored, RefreshStored
    <3>2. accessTokens[k] = None /\ refreshTokens[k] = None
      BY <2>1, <2>7, <3>1 DEF CallMinted, FreshInv, CallFresh
    <3>3. QED
      BY <2>1, <2>2, <2>5, <2>7, <3>1, <3>2 DEF CallMinted, RefreshStored, AccessStored
  <2>8. QED
    BY <2>1, <2>6, <2>7 DEF QuietCall
<1>3. QED
  BY <1>1, <1>2 DEF MintedInv

\* A call stores one token.
Stores(k, tok, o) ==
    /\ minted' = [minted EXCEPT ![tok] =
            [secret |-> keyOf[k], session |-> o, scopes |-> reqs[k].scopes]]
    /\ UNCHANGED <<expiresAt, extended, keyOf, ready, reqs, authorizeCodes>>

LEMMA MintOne ==
    ASSUME ValidityTypeOK, NEW tok \in AnyToken, NEW o \in Objects, NEW key, NEW g,
           Mint({tok}, o, expiresAt[o], key, g)
    PROVE  /\ minted' = [minted EXCEPT ![tok] =
                            [secret |-> key, session |-> o, scopes |-> g]]
           /\ expiresAt' = expiresAt
<1>1. /\ minted \in [AnyToken -> Minting \union {None}]
      /\ expiresAt \in [Objects -> [TokenKinds -> Int]]
  BY DEF ValidityTypeOK
<1>2. QED
  BY <1>1 DEF Mint

LEMMA StoreExchangedStores ==
    ASSUME AllInv, ValidityTypeOK, MintedInv, NEW k \in Calls, StoreExchanged(k)
    PROVE  /\ reqs[k].id \in AuthReqs /\ authorizeCodes[reqs[k].id] # None
           /\ \/ /\ Stores(k, Access(k), reqs[k].id)
                 /\ Moves(k, {"code_create_at"}, {"code_create_rt", "exchanged"})
                 /\ accessTokens' = [accessTokens EXCEPT ![k] = reqs[k]]
                 /\ refreshTokens' = refreshTokens
              \/ /\ Stores(k, Refresh(k), reqs[k].id)
                 /\ Moves(k, {"code_create_rt"}, {"exchanged"})
                 /\ refreshTokens' = [refreshTokens EXCEPT ![k] =
                                        [active |-> TRUE, req |-> reqs[k]]]
                 /\ accessTokens' = accessTokens
<1> DEFINE a == reqs[k].id
           o == minted[Code(a)].session
<1>0. /\ pc \in [Calls -> {"idle"} \union Running \union Returned]
      /\ reqs \in [Calls -> Requester \union {None}]
      /\ pc[k] # "idle" => reqs[k] \in Requester /\ authorizeCodes[a] # None
  BY DEF AllInv, TypeInv, TypeOK, CallsOK, GrantInv, CallBound
<1>1. pc[k] # "idle"
  BY DEF StoreExchanged, ExchangeCreateAccess, ExchangeCreateRefresh
<1>2. a \in AuthReqs /\ authorizeCodes[a] # None
  BY <1>0, <1>1 DEF Requester
<1>3. o = a /\ a \in Objects
  BY <1>2 DEF MintedInv, CodeMinted, Objects
<1>4. UNCHANGED <<keyOf, ready, extended>>
  BY DEF StoreExchanged
<1>5. Access(k) \in AnyToken /\ Refresh(k) \in AnyToken
  BY DEF Access, Refresh, AnyToken, TokenKinds, AccessSignatures
<1>6. CASE /\ ExchangeCreateAccess(k)
           /\ Mint({Access(k)}, o, expiresAt[o], keyOf[k], reqs[k].scopes)
  <2>1. /\ UNCHANGED <<authorizeCodes, reqs>>
        /\ accessTokens' = [accessTokens EXCEPT ![k] = reqs[k]]
        /\ refreshTokens' = refreshTokens
    BY <1>6 DEF ExchangeCreateAccess, CreateAccessTokenSession, refreshVars
  <2>2. Stores(k, Access(k), a)
    <3> HIDE DEF a, o
    <3>1. Mint({Access(k)}, a, expiresAt[a], keyOf[k], reqs[k].scopes)
      BY <1>3, <1>6
    <3>2. QED
      BY <1>3, <1>4, <1>5, <2>1, <3>1, MintOne DEF Stores
  <2>3. Moves(k, {"code_create_at"}, {"code_create_rt", "exchanged"})
    BY <1>0, <1>6 DEF ExchangeCreateAccess, Goto, Moves
  <2>4. QED
    BY <1>2, <2>1, <2>2, <2>3
<1>7. CASE /\ ExchangeCreateRefresh(k)
           /\ Mint({Refresh(k)}, o, expiresAt[o], keyOf[k], reqs[k].scopes)
  <2>1. /\ UNCHANGED <<authorizeCodes, reqs>>
        /\ refreshTokens' = [refreshTokens EXCEPT ![k] =
                                [active |-> TRUE, req |-> reqs[k]]]
        /\ accessTokens' = accessTokens
    BY <1>7 DEF ExchangeCreateRefresh, CreateRefreshTokenSession, accessVars
  <2>2. Stores(k, Refresh(k), a)
    <3> HIDE DEF a, o
    <3>1. Mint({Refresh(k)}, a, expiresAt[a], keyOf[k], reqs[k].scopes)
      BY <1>3, <1>7
    <3>2. QED
      BY <1>3, <1>4, <1>5, <2>1, <3>1, MintOne DEF Stores
  <2>3. Moves(k, {"code_create_rt"}, {"exchanged"})
    BY <1>0, <1>7 DEF ExchangeCreateRefresh, Goto, Moves
  <2>4. QED
    BY <1>2, <2>1, <2>2, <2>3
<1>8. QED
  BY <1>6, <1>7 DEF StoreExchanged

LEMMA StoreRefreshedStores ==
    ASSUME AllInv, ValidityTypeOK, NEW k \in Calls, StoreRefreshed(k)
    PROVE  \/ /\ Stores(k, Access(k), k)
              /\ Moves(k, {"refresh_create_at"}, {"refresh_create_rt"})
              /\ accessTokens' = [accessTokens EXCEPT ![k] = reqs[k]]
              /\ refreshTokens' = refreshTokens
           \/ /\ Stores(k, Refresh(k), k)
              /\ Moves(k, {"refresh_create_rt"}, {"refreshed"})
              /\ refreshTokens' = [refreshTokens EXCEPT ![k] =
                                     [active |-> TRUE, req |-> reqs[k]]]
              /\ accessTokens' = accessTokens
<1>0. /\ pc \in [Calls -> {"idle"} \union Running \union Returned]
      /\ reqs \in [Calls -> Requester \union {None}]
  BY DEF AllInv, TypeInv, TypeOK
<1>1. UNCHANGED <<keyOf, ready, extended>>
  BY DEF StoreRefreshed
<1>2. Access(k) \in AnyToken /\ Refresh(k) \in AnyToken /\ k \in Objects
  BY DEF Access, Refresh, AnyToken, TokenKinds, AccessSignatures, Objects
<1>3. CASE /\ RefreshCreateAccess(k)
           /\ Mint({Access(k)}, k, expiresAt[k], keyOf[k], reqs[k].scopes)
  <2>1. /\ UNCHANGED <<authorizeCodes, reqs>>
        /\ accessTokens' = [accessTokens EXCEPT ![k] = reqs[k]]
        /\ refreshTokens' = refreshTokens
    BY <1>3 DEF RefreshCreateAccess, CreateAccessTokenSession, refreshVars
  <2>2. Stores(k, Access(k), k)
    BY <1>1, <1>2, <1>3, <2>1, MintOne DEF Stores
  <2>3. Moves(k, {"refresh_create_at"}, {"refresh_create_rt"})
    BY <1>0, <1>3 DEF RefreshCreateAccess, Goto, Moves
  <2>4. QED
    BY <2>1, <2>2, <2>3
<1>4. CASE /\ RefreshCreateRefresh(k)
           /\ Mint({Refresh(k)}, k, expiresAt[k], keyOf[k], reqs[k].scopes)
  <2>1. /\ UNCHANGED <<authorizeCodes, reqs>>
        /\ refreshTokens' = [refreshTokens EXCEPT ![k] =
                                [active |-> TRUE, req |-> reqs[k]]]
        /\ accessTokens' = accessTokens
    BY <1>4 DEF RefreshCreateRefresh, CreateRefreshTokenSession, accessVars
  <2>2. Stores(k, Refresh(k), k)
    BY <1>1, <1>2, <1>4, <2>1, MintOne DEF Stores
  <2>3. Moves(k, {"refresh_create_rt"}, {"refreshed"})
    BY <1>0, <1>4 DEF RefreshCreateRefresh, Goto, Moves
  <2>4. QED
    BY <2>1, <2>2, <2>3
<1>5. QED
  BY <1>3, <1>4 DEF StoreRefreshed

\* Tokens of different kinds, or with different signatures, are different.
LEMMA TokensDiffer ==
    ASSUME NEW s \in AccessSignatures, NEW t \in AccessSignatures
    PROVE  /\ Code(s) \in AnyToken /\ Access(s) \in AnyToken /\ Refresh(s) \in AnyToken
           /\ Code(s) # Access(t) /\ Code(s) # Refresh(t) /\ Access(s) # Refresh(t)
           /\ s # t => Code(s) # Code(t) /\ Access(s) # Access(t) /\ Refresh(s) # Refresh(t)
BY DEF Code, Access, Refresh, AnyToken, TokenKinds

\* What is minted is not the absent entry.
LEMMA MintedIsThere ==
    ASSUME NEW tok \in AnyToken, NEW key, NEW o, NEW g,
           minted'[tok] = [secret |-> key, session |-> o, scopes |-> g],
           key \in Secrets, o \in Objects, g \in SUBSET Scopes
    PROVE  minted'[tok] # None
BY NoMintingAssumption DEF Minting

\* A step that stores an access token.
LEMMA AccessMinted ==
    ASSUME ValidityTypeOK, TypeInv, MintedInv, NEW k \in Calls, NEW o \in Objects,
           Stores(k, Access(k), o), minted'[Access(k)] # None,
           pc[k] \notin AccessStored, pc'[k] \in AccessStored, SessionOf(k)' = o,
           \A j \in Calls : j # k => pc'[j] = pc[j],
           accessTokens' = [accessTokens EXCEPT ![k] = reqs[k]],
           refreshTokens' = refreshTokens
    PROVE  MintedInv'
<1>0. /\ minted \in [AnyToken -> Minting \union {None}]
      /\ k \in AccessSignatures /\ Access(k) \in AnyToken
      /\ UNCHANGED <<reqs, authorizeCodes>>
      /\ accessTokens \in [AccessSignatures -> Requester \union {None}]
      /\ pc[k] \notin RefreshStored
  BY TokensDiffer DEF ValidityTypeOK, AccessSignatures, Stores, TypeInv, TypeOK,
                      StoreTypeOK, AccessStored, RefreshStored
<1>1. \A tok \in AnyToken : tok # Access(k) => minted'[tok] = minted[tok]
  BY <1>0 DEF Stores
<1>2. minted'[Access(k)].session = o
  BY <1>0 DEF Stores
<1>3. ASSUME NEW a \in AuthReqs
      PROVE  CodeMinted(a)'
  <2>1. CodeMinted(a) /\ a # k /\ a \in AccessSignatures
    BY NamesAssumption DEF MintedInv, AccessSignatures
  <2>2. /\ minted'[Code(a)] = minted[Code(a)]
        /\ minted'[Access(a)] = minted[Access(a)]
        /\ minted'[Refresh(a)] = minted[Refresh(a)]
    BY <1>0, <1>1, <2>1, TokensDiffer
  <2>3. accessTokens'[a] = accessTokens[a] /\ authorizeCodes'[a] = authorizeCodes[a]
    BY <1>0, <2>1
  <2>4. QED
    BY <2>1, <2>2, <2>3 DEF CodeMinted
<1>4. ASSUME NEW j \in Calls, j # k
      PROVE  CallMinted(j)'
  <2>1. CallMinted(j) /\ j \in AccessSignatures
    BY DEF MintedInv, AccessSignatures
  <2>2. /\ minted'[Code(j)] = minted[Code(j)]
        /\ minted'[Access(j)] = minted[Access(j)]
        /\ minted'[Refresh(j)] = minted[Refresh(j)]
    BY <1>0, <1>1, <1>4, <2>1, TokensDiffer
  <2>3. /\ accessTokens'[j] = accessTokens[j] /\ refreshTokens'[j] = refreshTokens[j]
        /\ pc'[j] = pc[j] /\ reqs'[j] = reqs[j] /\ SessionOf(j)' = SessionOf(j)
    BY <1>0, <1>4 DEF SessionOf
  <2>4. QED
    BY <2>1, <2>2, <2>3 DEF CallMinted
<1>5. CallMinted(k)'
  <2>1. CallMinted(k)
    BY DEF MintedInv
  <2>2. /\ minted'[Code(k)] = minted[Code(k)] /\ minted[Code(k)] = None
        /\ minted'[Refresh(k)] = minted[Refresh(k)] /\ minted[Refresh(k)] = None
        /\ refreshTokens'[k] = None
    BY <1>0, <1>1, <2>1, TokensDiffer DEF CallMinted
  <2>3. accessTokens'[k] = reqs[k] /\ reqs'[k] = reqs[k]
    BY <1>0
  <2>4. QED
    BY <1>2, <2>2, <2>3 DEF CallMinted
<1>6. QED
  BY <1>3, <1>4, <1>5 DEF MintedInv

\* A step that stores a refresh token.
LEMMA RefreshMinted ==
    ASSUME ValidityTypeOK, TypeInv, MintedInv, NEW k \in Calls, NEW o \in Objects,
           Stores(k, Refresh(k), o), minted'[Refresh(k)] # None,
           pc[k] \in AccessStored, pc'[k] \in RefreshStored, pc'[k] \in AccessStored,
           SessionOf(k)' = o, SessionOf(k) = o,
           \A j \in Calls : j # k => pc'[j] = pc[j],
           refreshTokens' = [refreshTokens EXCEPT ![k] =
                                [active |-> TRUE, req |-> reqs[k]]],
           accessTokens' = accessTokens
    PROVE  MintedInv'
<1>0. /\ minted \in [AnyToken -> Minting \union {None}]
      /\ k \in AccessSignatures /\ Refresh(k) \in AnyToken
      /\ UNCHANGED <<reqs, authorizeCodes>>
      /\ refreshTokens \in [Calls -> RefreshSession \union {None}]
  BY TokensDiffer DEF ValidityTypeOK, AccessSignatures, Stores, TypeInv, TypeOK,
                      StoreTypeOK
<1>1. \A tok \in AnyToken : tok # Refresh(k) => minted'[tok] = minted[tok]
  BY <1>0 DEF Stores
<1>2. minted'[Refresh(k)].session = o
  BY <1>0 DEF Stores
<1>3. ASSUME NEW a \in AuthReqs
      PROVE  CodeMinted(a)'
  <2>1. CodeMinted(a) /\ a # k /\ a \in AccessSignatures
    BY NamesAssumption DEF MintedInv, AccessSignatures
  <2>2. /\ minted'[Code(a)] = minted[Code(a)]
        /\ minted'[Access(a)] = minted[Access(a)]
        /\ minted'[Refresh(a)] = minted[Refresh(a)]
    BY <1>0, <1>1, <2>1, TokensDiffer
  <2>3. accessTokens'[a] = accessTokens[a] /\ authorizeCodes'[a] = authorizeCodes[a]
    BY <1>0
  <2>4. QED
    BY <2>1, <2>2, <2>3 DEF CodeMinted
<1>4. ASSUME NEW j \in Calls, j # k
      PROVE  CallMinted(j)'
  <2>1. CallMinted(j) /\ j \in AccessSignatures
    BY DEF MintedInv, AccessSignatures
  <2>2. /\ minted'[Code(j)] = minted[Code(j)]
        /\ minted'[Access(j)] = minted[Access(j)]
        /\ minted'[Refresh(j)] = minted[Refresh(j)]
    BY <1>0, <1>1, <1>4, <2>1, TokensDiffer
  <2>3. /\ accessTokens'[j] = accessTokens[j] /\ refreshTokens'[j] = refreshTokens[j]
        /\ pc'[j] = pc[j] /\ reqs'[j] = reqs[j] /\ SessionOf(j)' = SessionOf(j)
    BY <1>0, <1>4 DEF SessionOf
  <2>4. QED
    BY <2>1, <2>2, <2>3 DEF CallMinted
<1>5. CallMinted(k)'
  <2>1. CallMinted(k)
    BY DEF MintedInv
  <2>2. /\ minted'[Code(k)] = minted[Code(k)]
        /\ minted'[Access(k)] = minted[Access(k)]
    BY <1>0, <1>1, <2>1, TokensDiffer
  <2>3. refreshTokens'[k].req = reqs[k] /\ reqs'[k] = reqs[k]
    BY <1>0
  <2>4. QED
    BY <1>2, <2>1, <2>2, <2>3 DEF CallMinted
<1>6. QED
  BY <1>3, <1>4, <1>5 DEF MintedInv

\* Issuing a code, and in the hybrid flow an access token with it.
IssueStep(a, c, g, e) ==
    LET r == [secret |-> global, session |-> a, scopes |-> g]
        req == [id |-> a, client |-> c, scopes |-> g] IN
    /\ authorizeCodes[a] = None
    /\ authorizeCodes'[a] # None /\ authorizeCodes'[a].req = req
    /\ \A b \in AuthReqs : b # a => authorizeCodes'[b] = authorizeCodes[b]
    /\ UNCHANGED <<refreshTokens, pc, reqs, keyOf, ready, extended>>
    /\ expiresAt' = [expiresAt EXCEPT ![a] = e]
    /\ e \in [TokenKinds -> Int]
    /\ e["refresh"] = 0
    /\ minted'[Code(a)] = r
    /\ \A t \in AnyToken : t \notin {Code(a), Access(a)} => minted'[t] = minted[t]
    /\ \A s \in AccessSignatures : s # a => accessTokens'[s] = accessTokens[s]
    /\ \/ /\ minted'[Access(a)] = r
          /\ accessTokens'[a] = req
          /\ e["access"] > 0 /\ Within(e["access"], c, "access")
       \/ /\ minted'[Access(a)] = minted[Access(a)]
          /\ accessTokens'[a] = accessTokens[a]
          /\ e["access"] = 0

LEMMA IssueSteps ==
    ASSUME TypeInv, ValidityTypeOK, ExpiryInv, NEW a \in AuthReqs, NEW c \in Clients,
           NEW g \in SUBSET Scopes, NEW type \in ResponseTypes, Issue(a, c, g, type)
    PROVE  \E e : IssueStep(a, c, g, e)
<1> DEFINE req == [id |-> a, client |-> c, scopes |-> g]
           r == [secret |-> global, session |-> a, scopes |-> g]
           code == now + GetLifespan("code")
           at == Round(now + GetEffectiveLifespan(c, "implicit", "access"))
<1>0. /\ authorizeCodes \in [AuthReqs -> CodeSession \union {None}]
      /\ accessTokens \in [AccessSignatures -> Requester \union {None}]
      /\ minted \in [AnyToken -> Minting \union {None}]
      /\ expiresAt \in [Objects -> [TokenKinds -> Int]]
      /\ now \in Int /\ a \in Objects /\ a \in AccessSignatures
  BY DEF TypeInv, TypeOK, StoreTypeOK, ValidityTypeOK, Objects, AccessSignatures
<1>1. Authorize(a, c, g, type) /\ UNCHANGED <<keyOf, ready, extended>>
  BY DEF Issue
<1>2. /\ authorizeCodes[a] = None
      /\ authorizeCodes' = [authorizeCodes EXCEPT ![a] =
            [active |-> TRUE, req |-> req, responseType |-> type]]
      /\ UNCHANGED <<refreshTokens, pc, reqs>>
  BY <1>1 DEF Authorize, CreateAuthorizeCodeSession, refreshVars, callVars
<1>3. [active |-> TRUE, req |-> req, responseType |-> type] # None
  <2>1. req \in Requester
    BY DEF Requester
  <2> HIDE DEF req
  <2>2. [active |-> TRUE, req |-> req, responseType |-> type] \in CodeSession
    BY <2>1 DEF CodeSession
  <2>3. QED
    BY <2>2, NoneAssumption
<1>4. /\ authorizeCodes'[a] # None /\ authorizeCodes'[a].req = req
      /\ \A b \in AuthReqs : b # a => authorizeCodes'[b] = authorizeCodes[b]
  BY <1>0, <1>2, <1>3
<1>5. expiresAt[a] = NoExpiries
  BY <1>2 DEF ExpiryInv, SessionWithin
<1>6. code \in Int /\ Round(code) \in Int
  BY <1>0, LifespanType, RoundBounds DEF TokenKinds
<1>7. at \in Int /\ at > 0 /\ Within(at, c, "access")
  <2>1. <<"implicit", "access">> \in LifespanKeys
    BY DEF LifespanKeys
  <2>2. QED
    BY <2>1, SetExpiry
<1>8. /\ Code(a) \in AnyToken /\ Access(a) \in AnyToken /\ Code(a) # Access(a)
  BY <1>0, TokensDiffer
<1>9. CASE type = "code"
  <2> DEFINE e == [expiresAt[a] EXCEPT !["code"] = code]
  <2>1. Mint({Code(a)}, a, e, global, g)
    BY <1>9 DEF Issue
  <2>2. accessTokens' = accessTokens
    BY <1>1, <1>9 DEF Authorize, accessVars
  <2>3. /\ e \in [TokenKinds -> Int] /\ e["refresh"] = 0 /\ e["access"] = 0
    BY <1>0, <1>5, <1>6 DEF TokenKinds, NoExpiries
  <2> HIDE DEF e
  <2>4. /\ expiresAt' = [expiresAt EXCEPT ![a] = e]
        /\ minted'[Code(a)] = r
        /\ \A t \in AnyToken : t # Code(a) => minted'[t] = minted[t]
    BY <1>8, <2>1 DEF Mint
  <2>5. IssueStep(a, c, g, e)
    <3>1. minted'[Access(a)] = minted[Access(a)]
      BY <1>8, <2>4
    <3>2. QED
      BY <1>1, <1>2, <1>4, <2>2, <2>3, <2>4, <3>1 DEF IssueStep
  <2>6. QED
    BY <2>5
<1>10. CASE type = "code token"
  <2> DEFINE e == [expiresAt[a] EXCEPT !["code"] = Round(code),
                                       !["access"] = IF @ = 0 THEN at ELSE @]
  <2>1. Mint({Code(a), Access(a)}, a, e, global, g)
    BY <1>10 DEF Issue
  <2>2. accessTokens' = [accessTokens EXCEPT ![a] = req]
    BY <1>1, <1>10 DEF Authorize, CreateAccessTokenSession
  <2>3. /\ e \in [TokenKinds -> Int] /\ e["refresh"] = 0 /\ e["access"] = at
    <3> HIDE DEF at, code
    <3>1. QED
      BY <1>0, <1>5, <1>6, <1>7 DEF TokenKinds, NoExpiries
  <2> HIDE DEF e, at
  <2>4. /\ expiresAt' = [expiresAt EXCEPT ![a] = e]
        /\ minted'[Code(a)] = r /\ minted'[Access(a)] = r
        /\ \A t \in AnyToken : t \notin {Code(a), Access(a)} => minted'[t] = minted[t]
    BY <1>8, <2>1 DEF Mint
  <2>5. /\ accessTokens'[a] = req
        /\ \A s \in AccessSignatures : s # a => accessTokens'[s] = accessTokens[s]
    BY <1>0, <2>2
  <2>6. IssueStep(a, c, g, e)
    BY <1>1, <1>2, <1>4, <1>7, <2>3, <2>4, <2>5 DEF IssueStep
  <2>7. QED
    BY <2>6
<1>11. QED
  BY <1>9, <1>10 DEF ResponseTypes

LEMMA IssueMinted ==
    ASSUME TypeInv, ValidityTypeOK, MintedInv, NEW a \in AuthReqs, NEW c \in Clients,
           NEW g \in SUBSET Scopes, NEW e, IssueStep(a, c, g, e)
    PROVE  MintedInv'
<1> DEFINE r == [secret |-> global, session |-> a, scopes |-> g]
<1>0. a \in AccessSignatures /\ a \notin Calls /\ a \in Objects /\ global \in Secrets
  BY NamesAssumption DEF AccessSignatures, Objects, ValidityTypeOK
<1>1. /\ minted'[Code(a)] = r
      /\ authorizeCodes'[a] # None
      /\ \A b \in AuthReqs : b # a => authorizeCodes'[b] = authorizeCodes[b]
      /\ \A t \in AnyToken : t \notin {Code(a), Access(a)} => minted'[t] = minted[t]
      /\ \A s \in AccessSignatures : s # a => accessTokens'[s] = accessTokens[s]
      /\ UNCHANGED <<refreshTokens, pc, reqs>>
      /\ \/ minted'[Access(a)] = r
         \/ /\ minted'[Access(a)] = minted[Access(a)]
            /\ accessTokens'[a] = accessTokens[a]
  BY DEF IssueStep
<1>2. r # None /\ r.session = a
  BY <1>0, NoMintingAssumption DEF Minting
<1>3. CodeMinted(a)'
  <2>1. CodeMinted(a)
    BY DEF MintedInv
  <2>2. minted'[Refresh(a)] = minted[Refresh(a)]
    BY <1>0, <1>1, TokensDiffer
  <2> HIDE DEF r
  <2>3. QED
    BY <1>1, <1>2, <2>1, <2>2 DEF CodeMinted
<1>4. ASSUME NEW s \in AccessSignatures, s # a
      PROVE  /\ minted'[Code(s)] = minted[Code(s)]
             /\ minted'[Access(s)] = minted[Access(s)]
             /\ minted'[Refresh(s)] = minted[Refresh(s)]
             /\ accessTokens'[s] = accessTokens[s]
  BY <1>0, <1>1, <1>4, TokensDiffer
<1>5. ASSUME NEW b \in AuthReqs, b # a
      PROVE  CodeMinted(b)'
  <2>1. CodeMinted(b) /\ b \in AccessSignatures
    BY DEF MintedInv, AccessSignatures
  <2>2. QED
    BY <1>1, <1>4, <1>5, <2>1 DEF CodeMinted
<1>6. ASSUME NEW k \in Calls
      PROVE  CallMinted(k)'
  <2>1. CallMinted(k) /\ k \in AccessSignatures /\ k # a
    BY <1>0 DEF MintedInv, AccessSignatures
  <2>2. SessionOf(k)' = SessionOf(k)
    BY <1>1 DEF SessionOf
  <2>3. QED
    BY <1>1, <1>4, <2>1, <2>2 DEF CallMinted
<1>7. QED
  BY <1>3, <1>5, <1>6 DEF MintedInv

\* A step issues a code, stores a token, or is quiet.
LEMMA QuietOrNot ==
    ASSUME TypeInv, [ValidityNext]_allVars
    PROVE  \/ \E a \in AuthReqs, c \in Clients, g \in SUBSET Scopes,
                 type \in ResponseTypes : Issue(a, c, g, type)
           \/ \E k \in Calls : StoreExchanged(k) \/ StoreRefreshed(k)
           \/ Quiet
<1>1. ASSUME NEW k \in Calls, SetExchangeExpiries(k) \/ Populate(k) \/ BeginRotation(k)
      PROVE  Quiet
  BY <1>1, SetExchangeExpiriesQuiet, PopulateMoves, BeginRotationMoves
<1>2. ASSUME NEW k \in Calls, NEW t \in Calls, NEW c \in Clients, Rotate(k, t, c)
      PROVE  Quiet
  BY <1>2, RotateMoves
<1>3. ASSUME NEW k \in Calls, NEW a \in AuthReqs, NEW c \in Clients, Redeem(k, a, c)
      PROVE  Quiet
  BY <1>3, RedeemQuiet
<1>4. CASE OtherStep
  BY <1>4, OtherQuiet
<1>5. CASE RotateSecret \/ RetireSecret \/ Tick \/ InspectionStep \/ UNCHANGED allVars
  <2>1. UNCHANGED <<vars, sessionVars>>
    BY <1>5 DEF RotateSecret, RetireSecret, Tick, InspectionStep, allVars, validityVars
  <2>2. QED
    BY <2>1, StandstillQuiet
<1>6. QED
  BY <1>1, <1>2, <1>3, <1>4, <1>5 DEF ValidityNext, TokenStep

\* The stores of a call, with what they mint.
LEMMA StoresMinted ==
    ASSUME AllInv, ValidityTypeOK, MintedInv, PhasesInv, NEW k \in Calls,
           StoreExchanged(k) \/ StoreRefreshed(k)
    PROVE  MintedInv'
<1>0. /\ k \in AccessSignatures /\ Access(k) \in AnyToken /\ Refresh(k) \in AnyToken
      /\ minted \in [AnyToken -> Minting \union {None}]
      /\ k \in Objects /\ TypeInv
      /\ pc[k] # "idle" => reqs[k] \in Requester
  BY TokensDiffer DEF AccessSignatures, ValidityTypeOK, Objects, AllInv, TypeInv, CallsOK
<1>1. pc[k] \in Generated
  BY DEF StoreExchanged, StoreRefreshed, ExchangeCreateAccess, ExchangeCreateRefresh,
         RefreshCreateAccess, RefreshCreateRefresh, Generated
<1>2. keyOf[k] \in Secrets /\ reqs[k].scopes \in SUBSET Scopes
  BY <1>0, <1>1 DEF PhasesInv, Generated, Requester
<1>3. ASSUME NEW tok \in AnyToken, NEW o \in Objects, Stores(k, tok, o)
      PROVE  minted'[tok] # None
  BY <1>0, <1>2, <1>3, MintedIsThere DEF Stores
<1>4. CASE StoreExchanged(k)
  <2>1. reqs[k].id \in Objects
    BY <1>4, StoreExchangedStores DEF Objects
  <2>2. CASE /\ Stores(k, Access(k), reqs[k].id)
             /\ Moves(k, {"code_create_at"}, {"code_create_rt", "exchanged"})
             /\ accessTokens' = [accessTokens EXCEPT ![k] = reqs[k]]
             /\ refreshTokens' = refreshTokens
    <3>1. /\ pc[k] \notin AccessStored /\ pc'[k] \in AccessStored
          /\ SessionOf(k)' = reqs[k].id
          /\ \A j \in Calls : j # k => pc'[j] = pc[j]
      BY <2>2 DEF Moves, AccessStored, SessionOf, Stores
    <3>2. QED
      BY <1>0, <1>3, <2>1, <2>2, <3>1, AccessMinted
  <2>3. CASE /\ Stores(k, Refresh(k), reqs[k].id)
             /\ Moves(k, {"code_create_rt"}, {"exchanged"})
             /\ refreshTokens' = [refreshTokens EXCEPT ![k] =
                                    [active |-> TRUE, req |-> reqs[k]]]
             /\ accessTokens' = accessTokens
    <3>1. /\ pc[k] \in AccessStored /\ pc'[k] \in AccessStored
          /\ pc'[k] \in RefreshStored
          /\ SessionOf(k)' = reqs[k].id /\ SessionOf(k) = reqs[k].id
          /\ \A j \in Calls : j # k => pc'[j] = pc[j]
      BY <2>3 DEF Moves, AccessStored, RefreshStored, SessionOf, Stores
    <3>2. QED
      BY <1>0, <1>3, <2>1, <2>3, <3>1, RefreshMinted
  <2>4. QED
    BY <1>4, <2>2, <2>3, StoreExchangedStores
<1>5. CASE StoreRefreshed(k)
  <2>1. CASE /\ Stores(k, Access(k), k)
             /\ Moves(k, {"refresh_create_at"}, {"refresh_create_rt"})
             /\ accessTokens' = [accessTokens EXCEPT ![k] = reqs[k]]
             /\ refreshTokens' = refreshTokens
    <3>1. /\ pc[k] \notin AccessStored /\ pc'[k] \in AccessStored
          /\ SessionOf(k)' = k
          /\ \A j \in Calls : j # k => pc'[j] = pc[j]
      BY <2>1 DEF Moves, AccessStored, SessionOf
    <3>2. QED
      BY <1>0, <1>3, <2>1, <3>1, AccessMinted
  <2>2. CASE /\ Stores(k, Refresh(k), k)
             /\ Moves(k, {"refresh_create_rt"}, {"refreshed"})
             /\ refreshTokens' = [refreshTokens EXCEPT ![k] =
                                    [active |-> TRUE, req |-> reqs[k]]]
             /\ accessTokens' = accessTokens
    <3>1. /\ pc[k] \in AccessStored /\ pc'[k] \in AccessStored
          /\ pc'[k] \in RefreshStored
          /\ SessionOf(k)' = k /\ SessionOf(k) = k
          /\ \A j \in Calls : j # k => pc'[j] = pc[j]
      BY <2>2 DEF Moves, AccessStored, RefreshStored, SessionOf
    <3>2. QED
      BY <1>0, <1>3, <2>2, <3>1, RefreshMinted
  <2>3. QED
    BY <1>5, <2>1, <2>2, StoreRefreshedStores
<1>6. QED
  BY <1>4, <1>5

\* The tokens that have been minted are known after every step.
LEMMA MintedStep ==
    ASSUME AllInv, ValidityTypeOK, MintedInv, PhasesInv, ExpiryInv,
           [ValidityNext]_allVars
    PROVE  MintedInv'
<1>1. TypeInv /\ FreshInv /\ TableStep
  BY LifecycleStep DEF AllInv
<1>2. ASSUME NEW a \in AuthReqs, NEW c \in Clients, NEW g \in SUBSET Scopes,
             NEW type \in ResponseTypes, Issue(a, c, g, type)
      PROVE  MintedInv'
  BY <1>1, <1>2, IssueSteps, IssueMinted
<1>3. QED
  BY <1>1, <1>2, QuietOrNot, StoresMinted, QuietMinted

-----------------------------------------------------------------------------
(* The phases of a call.                                                   *)

\* What a step does to the key of a call, and to its first phase.
PhaseStep(k) ==
    /\ \/ keyOf'[k] = keyOf[k] /\ (pc'[k] \in Generated => pc[k] \in Generated)
       \/ keyOf'[k] = global
    /\ \/ pc'[k] \in Populated \union {"exchanged"} => k \in ready'
       \/ /\ ready \subseteq ready'
          /\ pc'[k] \in Populated \union {"exchanged"} =>
                pc[k] \in Populated \union {"exchanged"}
    /\ k \in ready' => k \in ready \/ pc'[k] = "code_populate"

LEMMA PhaseSteps ==
    ASSUME AllInv, ValidityTypeOK, MintedInv, ExpiryInv, [ValidityNext]_allVars,
           NEW k \in Calls
    PROVE  PhaseStep(k)
<1> USE DEF PhaseStep, Generated, Populated
<1>0. /\ TypeInv /\ keyOf \in [Calls -> Secrets \union {None}]
      /\ pc \in [Calls -> {"idle"} \union Running \union Returned]
  BY DEF AllInv, ValidityTypeOK, TypeInv, TypeOK
<1>1. ASSUME UNCHANGED sessionVars, Aside PROVE PhaseStep(k)
  BY <1>1 DEF Aside, sessionVars
<1>2. ASSUME NEW a \in AuthReqs, NEW c \in Clients, NEW g \in SUBSET Scopes,
             NEW type \in ResponseTypes, Issue(a, c, g, type)
      PROVE  PhaseStep(k)
  <2>1. PICK e : IssueStep(a, c, g, e)
    BY <1>0, <1>2, IssueSteps
  <2>2. UNCHANGED <<pc, keyOf, ready>>
    BY <2>1 DEF IssueStep
  <2>3. QED
    BY <2>2
<1>3. ASSUME NEW j \in Calls, NEW a \in AuthReqs, NEW c \in Clients, Redeem(j, a, c)
      PROVE  PhaseStep(k)
  BY <1>0, <1>1, <1>3, RedeemQuiet DEF Aside
<1>4. ASSUME NEW j \in Calls, SetExchangeExpiries(j)
      PROVE  PhaseStep(k)
  <2>1. /\ pc[j] = "code_populate" /\ ready' = ready \union {j}
        /\ UNCHANGED <<pc, keyOf>>
    BY <1>4 DEF SetExchangeExpiries, vars, callVars
  <2>2. QED
    BY <2>1
<1>5. ASSUME NEW j \in Calls, Populate(j)
      PROVE  PhaseStep(k)
  <2>1. /\ j \in ready /\ keyOf' = [keyOf EXCEPT ![j] = global] /\ ready' = ready
    BY <1>5 DEF Populate, Generate
  <2>2. Moves(j, {"code_populate"}, {"failed", "code_invalidate"})
    BY <1>0, <1>5, PopulateMoves
  <2>3. QED
    BY <1>0, <2>1, <2>2 DEF Moves
<1>6. ASSUME NEW j \in Calls, BeginRotation(j)
      PROVE  PhaseStep(k)
  <2>1. keyOf' = [keyOf EXCEPT ![j] = global] /\ ready' = ready
    BY <1>6 DEF BeginRotation, Generate
  <2>2. Moves(j, {"refresh_rotate_rt"}, {"failed", "refresh_rotate_at"})
    BY <1>0, <1>6, BeginRotationMoves
  <2>3. QED
    BY <1>0, <2>1, <2>2 DEF Moves
<1>7. ASSUME NEW j \in Calls, NEW t \in Calls, NEW c \in Clients, Rotate(j, t, c)
      PROVE  PhaseStep(k)
  <2>1. /\ UNCHANGED <<keyOf, ready>>
        /\ Moves(j, {"idle"}, {"reuse_delete", "refresh_rotate_rt"})
    BY <1>0, <1>7, RotateMoves
  <2>2. QED
    BY <1>0, <2>1 DEF Moves
<1>8. ASSUME NEW j \in Calls, StoreExchanged(j) \/ StoreRefreshed(j)
      PROVE  PhaseStep(k)
  <2>1. /\ UNCHANGED <<keyOf, ready>>
        /\ \/ Moves(j, {"code_create_at"}, {"code_create_rt", "exchanged"})
           \/ Moves(j, {"code_create_rt"}, {"exchanged"})
           \/ Moves(j, {"refresh_create_at"}, {"refresh_create_rt"})
           \/ Moves(j, {"refresh_create_rt"}, {"refreshed"})
    BY <1>8, StoreExchangedStores, StoreRefreshedStores DEF Stores
  <2>2. QED
    BY <1>0, <2>1 DEF Moves
<1>9. CASE OtherStep
  BY <1>0, <1>1, <1>9, OtherQuiet DEF Aside
<1>10. CASE RotateSecret \/ RetireSecret \/ Tick \/ InspectionStep \/ UNCHANGED allVars
  <2>1. UNCHANGED <<vars, sessionVars>>
    BY <1>10 DEF RotateSecret, RetireSecret, Tick, InspectionStep, allVars, validityVars
  <2>2. QED
    BY <1>1, <2>1, StandstillQuiet DEF Aside
<1>11. QED
  BY <1>2, <1>3, <1>4, <1>5, <1>6, <1>7, <1>8, <1>9, <1>10 DEF ValidityNext, TokenStep

\* A call generates under a secret of the configuration, after its first phase.
LEMMA PhasesStep ==
    ASSUME AllInv, ValidityTypeOK, MintedInv, PhasesInv, ExpiryInv,
           [ValidityNext]_allVars
    PROVE  PhasesInv'
<1>1. ASSUME NEW k \in Calls
      PROVE  /\ pc'[k] \in Generated => keyOf'[k] \in Secrets
             /\ pc'[k] \in Populated \union {"exchanged"} => k \in ready'
             /\ k \in ready' => pc'[k] \in Started
  <2>1. PhaseStep(k)
    BY PhaseSteps
  <2>2. CallMoves(k)
    BY IsNext, CallsMove DEF AllInv
  <2>3. /\ pc[k] \in Generated => keyOf[k] \in Secrets
        /\ pc[k] \in Populated \union {"exchanged"} => k \in ready
        /\ k \in ready => pc[k] \in Started
    BY DEF PhasesInv
  <2>4. global \in Secrets
    BY DEF ValidityTypeOK
  <2>5. pc'[k] = "code_populate" => pc'[k] \in Started
    BY DEF Started
  <2>6. QED
    BY <2>1, <2>2, <2>3, <2>4, <2>5 DEF PhaseStep, CallMoves
<1>2. QED
  BY <1>1 DEF PhasesInv

-----------------------------------------------------------------------------
(* The expiry times.                                                       *)

\* What the rest of the first phase of an exchange does.
LEMMA SetExchangeExpiriesSets ==
    ASSUME AllInv, ValidityTypeOK, MintedInv, NEW k \in Calls, SetExchangeExpiries(k)
    PROVE  LET a == reqs[k].id
               c == authorizeCodes[a].req.client IN
           /\ a \in AuthReqs /\ authorizeCodes[a] # None /\ c \in Clients
           /\ pc[k] = "code_populate" /\ k \notin ready
           /\ ready' = ready \union {k}
           /\ UNCHANGED <<vars, minted, keyOf>>
           /\ SetExpiries(a, TokenEndpointExpiries(expiresAt[a], c, "authorization_code"))
<1> DEFINE a == reqs[k].id
<1>1. pc[k] = "code_populate"
  BY DEF SetExchangeExpiries
<1>2. /\ reqs[k] \in Requester /\ a \in AuthReqs /\ authorizeCodes[a] # None
      /\ reqs[k].client = authorizeCodes[a].req.client /\ reqs[k].client \in Clients
  BY <1>1 DEF AllInv, TypeInv, CallsOK, GrantInv, CallBound, Requester
<1>3. minted[Code(a)].session = a
  BY <1>2 DEF MintedInv, CodeMinted
<1>4. QED
  BY <1>1, <1>2, <1>3 DEF SetExchangeExpiries

\* The session that a refresh clones is within the lifespans of its client.
LEMMA RotateSets ==
    ASSUME AllInv, ValidityTypeOK, MintedInv, PhasesInv, ExpiryInv, NEW k \in Calls,
           NEW t \in Calls, NEW c \in Clients, Rotate(k, t, c),
           pc'[k] = "refresh_rotate_rt"
    PROVE  /\ authorizeCodes[reqs'[k].id] # None
           /\ c = authorizeCodes[reqs'[k].id].req.client
           /\ \E e \in [TokenKinds -> Int] :
                 /\ SetExpiries(k, TokenEndpointExpiries(e, c, "refresh_token"))
                 /\ Within(e["refresh"], c, "refresh")
                 /\ e["refresh"] = 0 => Endless(c)
<1> DEFINE o == minted[Refresh(t)].session
<1>1. /\ refreshTokens[t] # None
      /\ refreshTokens[t].req.client = c
      /\ reqs'[k].id = refreshTokens[t].req.id
      /\ SetExpiries(k, TokenEndpointExpiries(expiresAt[o], c, "refresh_token"))
  BY RotateMoves DEF AllInv
<1>2. /\ CallMinted(t) /\ BoundTo(refreshTokens[t].req)
      /\ expiresAt \in [Objects -> [TokenKinds -> Int]]
  BY <1>1 DEF MintedInv, AllInv, GrantInv, TokensBoundToGrant, ValidityTypeOK
<1>3. /\ o = SessionOf(t) /\ pc[t] \in RefreshStored
      /\ refreshTokens[t].req = reqs[t] /\ reqs'[k].id = reqs[t].id
  BY <1>1, <1>2 DEF CallMinted
<1>4. /\ authorizeCodes[reqs[t].id] # None
      /\ c = authorizeCodes[reqs[t].id].req.client
  BY <1>1, <1>2, <1>3 DEF BoundTo
<1>5. /\ o \in Objects
      /\ Within(expiresAt[o]["refresh"], c, "refresh")
      /\ expiresAt[o]["refresh"] = 0 => Endless(c)
  <2>1. CASE pc[t] = "exchanged"
    <3>1. reqs[t].id \in AuthReqs
      BY <2>1 DEF AllInv, TypeInv, CallsOK, Requester
    <3>2. t \in ready
      BY <2>1 DEF PhasesInv
    <3>3. o = reqs[t].id /\ SessionWithin(o)
      BY <1>3, <2>1, <3>1 DEF SessionOf, ExpiryInv
    <3>4. QED
      BY <1>4, <3>1, <3>2, <3>3 DEF SessionWithin, Objects
  <2>2. CASE pc[t] = "refreshed"
    <3>1. o = t /\ CloneWithin(t) /\ pc[t] \in Refreshing
      BY <1>3, <2>2 DEF SessionOf, ExpiryInv, Refreshing
    <3>2. QED
      BY <1>4, <3>1 DEF CloneWithin, Objects
  <2>3. QED
    BY <1>3, <2>1, <2>2 DEF RefreshStored
<1>6. expiresAt[o] \in [TokenKinds -> Int]
  BY <1>2, <1>5
<1>7. QED
  BY <1>1, <1>3, <1>4, <1>5, <1>6

\* What a step does to the session objects.
ExpiryStep ==
    \/ /\ UNCHANGED <<expiresAt, extended>>
       /\ \A k \in Calls : pc'[k] \in Refreshing => pc[k] \in Refreshing
       /\ ready' = ready
       /\ \A a \in AuthReqs : authorizeCodes[a] = None => authorizeCodes'[a] = None
    \/ \E a \in AuthReqs, c \in Clients, g \in SUBSET Scopes : \E e :
          IssueStep(a, c, g, e) /\ now' = now
    \/ \E k \in Calls : SetExchangeExpiries(k) /\ now' = now
    \/ \E k, t \in Calls, c \in Clients :
          Rotate(k, t, c) /\ pc'[k] = "refresh_rotate_rt" /\ now' = now

LEMMA ExpirySteps ==
    ASSUME AllInv, ValidityTypeOK, MintedInv, ExpiryInv, [ValidityNext]_allVars
    PROVE  ExpiryStep
<1> USE DEF ExpiryStep
<1>0. TypeInv
  BY DEF AllInv
<1>1. ASSUME Aside, Quiet PROVE ExpiryStep
  BY <1>1 DEF Aside, Quiet, sessionVars
<1>2. ASSUME NEW a \in AuthReqs, NEW c \in Clients, NEW g \in SUBSET Scopes,
             NEW type \in ResponseTypes, Issue(a, c, g, type), now' = now
      PROVE  ExpiryStep
  BY <1>0, <1>2, IssueSteps
<1>3. ASSUME NEW k \in Calls, NEW a \in AuthReqs, NEW c \in Clients, Redeem(k, a, c)
      PROVE  ExpiryStep
  BY <1>0, <1>1, <1>3, RedeemQuiet
<1>4. ASSUME NEW k \in Calls, Populate(k)
      PROVE  ExpiryStep
  <2>1. UNCHANGED <<expiresAt, extended, ready>>
    BY <1>4 DEF Populate
  <2>2. Quiet /\ Moves(k, {"code_populate"}, {"failed", "code_invalidate"})
    BY <1>0, <1>4, PopulateMoves
  <2>3. QED
    BY <2>1, <2>2 DEF Moves, Quiet, Refreshing, Rotating
<1>5. ASSUME NEW k \in Calls, BeginRotation(k)
      PROVE  ExpiryStep
  <2>1. UNCHANGED <<expiresAt, extended, ready>>
    BY <1>5 DEF BeginRotation
  <2>2. Quiet /\ Moves(k, {"refresh_rotate_rt"}, {"failed", "refresh_rotate_at"})
    BY <1>0, <1>5, BeginRotationMoves
  <2>3. QED
    BY <2>1, <2>2 DEF Moves, Quiet, Refreshing, Rotating
<1>6. ASSUME NEW k \in Calls, NEW t \in Calls, NEW c \in Clients, Rotate(k, t, c),
             now' = now
      PROVE  ExpiryStep
  <2>1. /\ Quiet /\ ready' = ready
        /\ Moves(k, {"idle"}, {"reuse_delete", "refresh_rotate_rt"})
        /\ pc'[k] = "reuse_delete" => UNCHANGED <<expiresAt, extended>>
    BY <1>0, <1>6, RotateMoves
  <2>2. CASE pc'[k] = "reuse_delete"
    BY <2>1, <2>2 DEF Moves, Quiet, Refreshing, Rotating
  <2>3. CASE pc'[k] = "refresh_rotate_rt"
    BY <1>6, <2>3
  <2>4. QED
    BY <2>1, <2>2, <2>3 DEF Moves
<1>7. ASSUME NEW k \in Calls, StoreExchanged(k) \/ StoreRefreshed(k)
      PROVE  ExpiryStep
  <2>1. /\ UNCHANGED <<expiresAt, extended, ready, authorizeCodes>>
        /\ \/ Moves(k, {"code_create_at"}, {"code_create_rt", "exchanged"})
           \/ Moves(k, {"code_create_rt"}, {"exchanged"})
           \/ Moves(k, {"refresh_create_at"}, {"refresh_create_rt"})
           \/ Moves(k, {"refresh_create_rt"}, {"refreshed"})
    BY <1>7, StoreExchangedStores, StoreRefreshedStores DEF Stores
  <2>2. QED
    BY <2>1 DEF Moves, Refreshing, Rotating
<1>8. CASE OtherStep
  BY <1>0, <1>1, <1>8, OtherQuiet
<1>9. CASE RotateSecret \/ RetireSecret \/ Tick \/ InspectionStep \/ UNCHANGED allVars
  <2>1. UNCHANGED <<vars, sessionVars>>
    BY <1>9 DEF RotateSecret, RetireSecret, Tick, InspectionStep, allVars, validityVars
  <2>2. QED
    BY <1>1, <2>1, StandstillQuiet
<1>10. CASE TokenStep
  <2>1. now' = now
    BY <1>10 DEF TokenStep
  <2>2. QED
    BY <1>2, <1>3, <1>4, <1>5, <1>6, <1>7, <1>8, <1>10, <2>1 DEF TokenStep
<1>11. QED
  BY <1>9, <1>10 DEF ValidityNext

LEMMA ClockStep ==
    ASSUME ValidityTypeOK, [ValidityNext]_allVars
    PROVE  now' \in Nat /\ now' >= now /\ now' >= StartTime
BY TimeAssumption
   DEF ValidityTypeOK, ValidityNext, TokenStep, RotateSecret, RetireSecret, Tick,
       InspectionStep, allVars, validityVars

\* A session that a step leaves alone stays within the lifespans.
LEMMA SessionKept ==
    ASSUME ValidityTypeOK, NEW a \in AuthReqs, SessionWithin(a), CodeStep(a),
           authorizeCodes[a] = None => authorizeCodes'[a] = None,
           expiresAt'[a] = expiresAt[a], now' \in Nat, now' >= now,
           \A k \in ready' : reqs'[k].id = a => k \in ready /\ reqs[k].id = a
    PROVE  SessionWithin(a)'
<1>1. CASE authorizeCodes[a] = None
  BY <1>1 DEF SessionWithin, NoExpiries
<1>2. CASE authorizeCodes[a] # None
  <2> DEFINE c == authorizeCodes[a].req.client
  <2>1. authorizeCodes'[a] # None /\ authorizeCodes'[a].req.client = c
    BY <1>2 DEF CodeStep
  <2>2. /\ c \in Clients
        /\ expiresAt[a]["access"] \in Int /\ expiresAt[a]["refresh"] \in Int
    <3>1. authorizeCodes[a].req \in Requester /\ expiresAt[a] \in [TokenKinds -> Int]
      BY <1>2 DEF ValidityTypeOK, TypeOK, StoreTypeOK, CodeSession, Objects
    <3>2. QED
      BY <3>1 DEF Requester, TokenKinds
  <2>3. \A kind \in {"access", "refresh"} :
           expiresAt[a][kind] \in Int /\ Within(expiresAt[a][kind], c, kind)
    BY <1>2, <2>2 DEF SessionWithin
  <2>4. \A k \in ready : reqs[k].id = a =>
           /\ expiresAt[a]["access"] > 0
           /\ expiresAt[a]["refresh"] = 0 => Endless(c)
    BY <1>2 DEF SessionWithin
  <2> HIDE DEF c
  <2>5. \A kind \in {"access", "refresh"} :
           expiresAt'[a][kind] <= now' + LongestLifespan(c, kind) + Second \div 2
    BY <2>2, <2>3, LaterWithin
  <2>6. QED
    BY <2>1, <2>4, <2>5 DEF SessionWithin, Within, Endless
<1>3. QED
  BY <1>1, <1>2

LEMMA CloneKept ==
    ASSUME AllInv, ValidityTypeOK, TableStep, NEW k \in Calls, CloneWithin(k), CallMoves(k),
           expiresAt'[k] = expiresAt[k], now' \in Nat, now' >= now,
           pc'[k] \in Refreshing => pc[k] \in Refreshing
    PROVE  CloneWithin(k)'
<1>1. pc'[k] = "idle" => expiresAt'[k] = NoExpiries
  BY DEF CallMoves, CloneWithin
<1>2. CASE pc'[k] \in Refreshing
  <2> DEFINE a == reqs[k].id
             c == authorizeCodes[a].req.client
  <2>1. pc[k] \in Refreshing /\ pc[k] # "idle"
    BY <1>2 DEF Refreshing, Rotating
  <2>2. a \in AuthReqs /\ authorizeCodes[a] # None
    BY <2>1 DEF AllInv, TypeInv, CallsOK, GrantInv, CallBound, Requester
  <2>3. reqs'[k].id = a /\ authorizeCodes'[a].req.client = c
    BY <2>1, <2>2 DEF CallMoves, TableStep, CodeStep
  <2>4. /\ c \in Clients
        /\ expiresAt[k]["access"] \in Int /\ expiresAt[k]["refresh"] \in Int
    <3>1. authorizeCodes[a].req \in Requester /\ expiresAt[k] \in [TokenKinds -> Int]
      BY <2>2 DEF ValidityTypeOK, TypeOK, StoreTypeOK, CodeSession, Objects
    <3>2. QED
      BY <3>1 DEF Requester, TokenKinds
  <2>5. /\ \A kind \in {"access", "refresh"} :
              expiresAt[k][kind] \in Int /\ Within(expiresAt[k][kind], c, kind)
        /\ expiresAt[k]["access"] > 0
        /\ expiresAt[k]["refresh"] = 0 => Endless(c)
    BY <2>1, <2>4 DEF CloneWithin
  <2> HIDE DEF c
  <2>6. \A kind \in {"access", "refresh"} :
           expiresAt'[k][kind] <= now' + LongestLifespan(c, kind) + Second \div 2
    BY <2>4, <2>5, LaterWithin
  <2> HIDE DEF a
  <2>7. QED
    BY <1>1, <2>3, <2>5, <2>6 DEF CloneWithin, Within, Endless
<1>3. CASE pc'[k] \notin Refreshing
  BY <1>1, <1>3 DEF CloneWithin
<1>4. QED
  BY <1>2, <1>3

\* A call that has finished its first phase works for the same request after
\* the step.
LEMMA ReadyKept ==
    ASSUME AllInv, PhasesInv, [ValidityNext]_allVars, NEW k \in ready, k \in Calls
    PROVE  reqs'[k].id = reqs[k].id /\ authorizeCodes[reqs[k].id] # None
<1>1. pc[k] # "idle"
  BY DEF PhasesInv, Started, Populated
<1>2. QED
  BY <1>1, IsNext, CallsMove DEF AllInv, CallMoves, GrantInv, CallBound

\* The expiry times stay within the lifespans.
LEMMA ExpiryInvStep ==
    ASSUME AllInv, ValidityTypeOK, MintedInv, PhasesInv, ExpiryInv,
           [ValidityNext]_allVars
    PROVE  (\A a \in AuthReqs : SessionWithin(a))' /\ (\A k \in Calls : CloneWithin(k))'
<1>0. /\ TableStep /\ now' \in Nat /\ now' >= now /\ TypeInv
      /\ \A k \in Calls : CallMoves(k)
      /\ \A k \in ready : reqs'[k].id = reqs[k].id /\ authorizeCodes[reqs[k].id] # None
      /\ expiresAt \in [Objects -> [TokenKinds -> Int]] /\ ready \subseteq Calls
  BY LifecycleStep, ClockStep, IsNext, CallsMove, ReadyKept DEF AllInv, ValidityTypeOK
<1>1. \A a \in AuthReqs : CodeStep(a) /\ SessionWithin(a) /\ a \in Objects /\ a \notin Calls
  BY <1>0, NamesAssumption DEF TableStep, ExpiryInv, Objects
<1>2. \A k \in Calls : CloneWithin(k) /\ k \in Objects
  BY DEF ExpiryInv, Objects
<1>3. CASE /\ UNCHANGED <<expiresAt, extended>>
           /\ \A k \in Calls : pc'[k] \in Refreshing => pc[k] \in Refreshing
           /\ ready' = ready
           /\ \A a \in AuthReqs : authorizeCodes[a] = None => authorizeCodes'[a] = None
  <2>1. ASSUME NEW a \in AuthReqs PROVE SessionWithin(a)'
    BY <1>0, <1>1, <1>3, SessionKept
  <2>2. ASSUME NEW k \in Calls PROVE CloneWithin(k)'
    BY <1>0, <1>2, <1>3, CloneKept
  <2>3. QED
    BY <2>1, <2>2
<1>4. ASSUME NEW b \in AuthReqs, NEW c \in Clients, NEW g \in SUBSET Scopes, NEW e,
             IssueStep(b, c, g, e), now' = now
      PROVE  (\A a \in AuthReqs : SessionWithin(a))' /\ (\A k \in Calls : CloneWithin(k))'
  <2>1. /\ authorizeCodes[b] = None
        /\ authorizeCodes'[b] # None /\ authorizeCodes'[b].req.client = c
        /\ \A a \in AuthReqs : a # b => authorizeCodes'[a] = authorizeCodes[a]
        /\ UNCHANGED <<pc, reqs, ready>>
        /\ expiresAt' = [expiresAt EXCEPT ![b] = e]
        /\ e["refresh"] = 0
        /\ e["access"] = 0 \/ Within(e["access"], c, "access")
    BY <1>4 DEF IssueStep
  <2>2. \A o \in Objects : o # b => expiresAt'[o] = expiresAt[o]
    BY <1>0, <2>1
  <2>3. expiresAt'[b] = e
    BY <1>0, <1>1, <2>1
  <2>4. ASSUME NEW a \in AuthReqs PROVE SessionWithin(a)'
    <3>1. CASE a # b
      BY <1>0, <1>1, <2>1, <2>2, <3>1, SessionKept
    <3>2. CASE a = b
      <4>1. \A k \in ready' : reqs'[k].id # b
        BY <1>0, <2>1
      <4>2. Within(0, c, "access") /\ Within(0, c, "refresh")
        BY ZeroWithin
      <4>3. \A kind \in {"access", "refresh"} : Within(e[kind], c, kind)
        BY <2>1, <4>2
      <4>4. \A kind \in {"access", "refresh"} :
               expiresAt'[b][kind] <= now' + LongestLifespan(c, kind) + Second \div 2
        BY <1>4, <2>3, <4>3 DEF Within
      <4>5. QED
        BY <2>1, <3>2, <4>1, <4>4 DEF SessionWithin, Within
    <3>3. QED
      BY <3>1, <3>2
  <2>5. ASSUME NEW k \in Calls PROVE CloneWithin(k)'
    <3>1. expiresAt'[k] = expiresAt[k] /\ pc'[k] = pc[k]
      BY <1>1, <1>2, <2>1, <2>2
    <3>2. QED
      BY <1>0, <1>2, <3>1, CloneKept
  <2>6. QED
    BY <2>4, <2>5
<1>5. ASSUME NEW j \in Calls, SetExchangeExpiries(j), now' = now
      PROVE  (\A a \in AuthReqs : SessionWithin(a))' /\ (\A k \in Calls : CloneWithin(k))'
  <2> DEFINE b == reqs[j].id
             c == authorizeCodes[b].req.client
             f == TokenEndpointExpiries(expiresAt[b], c, "authorization_code")
  <2>1. /\ b \in AuthReqs /\ authorizeCodes[b] # None /\ c \in Clients
        /\ ready' = ready \union {j}
        /\ UNCHANGED vars
        /\ SetExpiries(b, f)
    BY <1>5, SetExchangeExpiriesSets
  <2>2. UNCHANGED <<authorizeCodes, reqs, pc>>
    BY <2>1 DEF vars, storeVars, callVars
  <2>3. expiresAt' = [expiresAt EXCEPT ![b] = f]
    BY <2>1 DEF SetExpiries
  <2>4. /\ f["access"] > 0 /\ Within(f["access"], c, "access")
        /\ \/ f["refresh"] > 0 /\ Within(f["refresh"], c, "refresh")
           \/ f["refresh"] = expiresAt[b]["refresh"] /\ Endless(c)
    <3>1. expiresAt[b] \in [TokenKinds -> Int]
      BY <1>0, <2>1 DEF Objects
    <3>2. QED
      BY <2>1, <3>1, EndpointExpiries DEF Endless
  <2>5. Within(expiresAt[b]["refresh"], c, "refresh")
    BY <1>1, <2>1 DEF SessionWithin
  <2> HIDE DEF f, c, b
  <2>6. ASSUME NEW a \in AuthReqs PROVE SessionWithin(a)'
    <3>1. CASE a # b
      <4>1. expiresAt'[a] = expiresAt[a]
        BY <1>0, <1>1, <2>3, <3>1
      <4>2. \A k \in ready' : reqs'[k].id = a => k \in ready /\ reqs[k].id = a
        BY <2>1, <2>2, <3>1 DEF b
      <4>3. QED
        BY <1>0, <1>1, <2>2, <4>1, <4>2, SessionKept
    <3>2. CASE a = b
      <4>1. expiresAt'[a] = f
        BY <1>0, <1>1, <2>3, <3>2
      <4>2. authorizeCodes'[a] # None /\ authorizeCodes'[a].req.client = c
        BY <2>1, <2>2, <3>2 DEF c
      <4>3. \A kind \in {"access", "refresh"} : Within(f[kind], c, kind)
        BY <2>4, <2>5
      <4>4. \A kind \in {"access", "refresh"} :
               expiresAt'[a][kind] <= now' + LongestLifespan(c, kind) + Second \div 2
        BY <1>5, <4>1, <4>3 DEF Within
      <4>5. f["refresh"] = 0 => Endless(c)
        BY <2>4
      <4>6. QED
        BY <2>4, <4>1, <4>2, <4>4, <4>5 DEF SessionWithin, Within, Endless
    <3>3. QED
      BY <3>1, <3>2
  <2>7. ASSUME NEW k \in Calls PROVE CloneWithin(k)'
    <3>1. expiresAt'[k] = expiresAt[k] /\ pc'[k] = pc[k]
      BY <1>0, <1>1, <1>2, <2>1, <2>2, <2>3
    <3>2. QED
      BY <1>0, <1>2, <3>1, CloneKept
  <2>8. QED
    BY <2>6, <2>7
<1>6. ASSUME NEW j \in Calls, NEW t \in Calls, NEW c \in Clients, Rotate(j, t, c),
             pc'[j] = "refresh_rotate_rt", now' = now
      PROVE  (\A a \in AuthReqs : SessionWithin(a))' /\ (\A k \in Calls : CloneWithin(k))'
  <2>1. /\ UNCHANGED <<authorizeCodes, ready>>
        /\ Moves(j, {"idle"}, {"reuse_delete", "refresh_rotate_rt"})
    BY <1>0, <1>6, RotateMoves DEF storeVars
  <2>2. /\ c = authorizeCodes[reqs'[j].id].req.client
        /\ \E e \in [TokenKinds -> Int] :
              /\ SetExpiries(j, TokenEndpointExpiries(e, c, "refresh_token"))
              /\ Within(e["refresh"], c, "refresh")
              /\ e["refresh"] = 0 => Endless(c)
    BY <1>6, RotateSets
  <2>3. PICK e \in [TokenKinds -> Int] :
           /\ SetExpiries(j, TokenEndpointExpiries(e, c, "refresh_token"))
           /\ Within(e["refresh"], c, "refresh")
           /\ e["refresh"] = 0 => Endless(c)
    BY <2>2
  <2> DEFINE f == TokenEndpointExpiries(e, c, "refresh_token")
  <2>4. expiresAt' = [expiresAt EXCEPT ![j] = f]
    BY <2>3 DEF SetExpiries
  <2>5. /\ f["access"] > 0 /\ Within(f["access"], c, "access")
        /\ \/ f["refresh"] > 0 /\ Within(f["refresh"], c, "refresh")
           \/ f["refresh"] = e["refresh"]
    BY EndpointExpiries
  <2> HIDE DEF f
  <2>6. ASSUME NEW a \in AuthReqs PROVE SessionWithin(a)'
    <3>1. expiresAt'[a] = expiresAt[a]
      BY <1>0, <1>1, <2>4
    <3>2. QED
      BY <1>0, <1>1, <2>1, <3>1, SessionKept
  <2>7. ASSUME NEW k \in Calls PROVE CloneWithin(k)'
    <3>1. CASE k # j
      <4>1. expiresAt'[k] = expiresAt[k] /\ pc'[k] = pc[k]
        BY <1>0, <1>2, <2>1, <2>4, <3>1 DEF Moves
      <4>2. QED
        BY <1>0, <1>2, <4>1, CloneKept
    <3>2. CASE k = j
      <4>1. expiresAt'[k] = f
        BY <1>0, <1>2, <2>4, <3>2
      <4>2. authorizeCodes'[reqs'[k].id].req.client = c
        BY <2>1, <2>2, <3>2
      <4>3. \A kind \in {"access", "refresh"} : Within(f[kind], c, kind)
        BY <2>3, <2>5
      <4>4. \A kind \in {"access", "refresh"} :
               expiresAt'[k][kind] <= now' + LongestLifespan(c, kind) + Second \div 2
        BY <1>6, <4>1, <4>3 DEF Within
      <4>5. f["refresh"] = 0 => Endless(c)
        BY <2>3, <2>5
      <4>6. QED
        BY <1>6, <2>5, <3>2, <4>1, <4>2, <4>4, <4>5 DEF CloneWithin, Within, Endless
    <3>3. QED
      BY <3>1, <3>2
  <2>8. QED
    BY <2>6, <2>7
<1>7. QED
  BY <1>3, <1>4, <1>5, <1>6, ExpirySteps DEF ExpiryStep

\* The session of a token is that of an authorize request, or a clone.
LEMMA SessionsTaken ==
    ASSUME AllInv, MintedInv, NEW tok \in AnyToken, minted[tok] # None
    PROVE  LET o == minted[tok].session IN
           \/ o \in AuthReqs /\ authorizeCodes[o] # None
           \/ o \in Calls /\ pc[o] # "idle"
<1>1. PICK s \in AccessSignatures : tok \in {Code(s), Access(s), Refresh(s)}
  BY DEF AnyToken, TokenKinds, Code, Access, Refresh
<1>2. CASE s \in AuthReqs
  BY <1>1, <1>2 DEF MintedInv, CodeMinted
<1>3. CASE s \in Calls
  <2>1. CallMinted(s) /\ tok \in {Access(s), Refresh(s)}
    BY <1>1, <1>3 DEF MintedInv, CallMinted
  <2>2. minted[tok].session = SessionOf(s) /\ pc[s] # "idle"
    BY <2>1 DEF CallMinted, AccessStored, RefreshStored
  <2>3. reqs[s].id \in AuthReqs /\ authorizeCodes[reqs[s].id] # None
    BY <1>3, <2>2 DEF AllInv, TypeInv, CallsOK, GrantInv, CallBound, Requester
  <2>4. QED
    BY <1>3, <2>2, <2>3 DEF SessionOf
<1>4. QED
  BY <1>2, <1>3 DEF AccessSignatures

\* A token keeps its secret, its session and its scopes.
LEMMA MintedKept ==
    ASSUME AllInv, ValidityTypeOK, MintedInv, ExpiryInv, [ValidityNext]_allVars,
           NEW tok \in AnyToken, minted[tok] # None
    PROVE  minted'[tok] = minted[tok]
<1>0. TypeInv /\ minted \in [AnyToken -> Minting \union {None}]
  BY DEF AllInv, ValidityTypeOK
<1>1. ASSUME NEW a \in AuthReqs, NEW c \in Clients, NEW g \in SUBSET Scopes,
             NEW type \in ResponseTypes, Issue(a, c, g, type)
      PROVE  minted'[tok] = minted[tok]
  <2>1. PICK e : IssueStep(a, c, g, e)
    BY <1>0, <1>1, IssueSteps
  <2>2. authorizeCodes[a] = None /\ CodeMinted(a)
    BY <2>1 DEF IssueStep, MintedInv
  <2>3. tok \notin {Code(a), Access(a)}
    BY <2>2 DEF CodeMinted
  <2>4. QED
    BY <2>1, <2>3 DEF IssueStep
<1>2. ASSUME NEW k \in Calls, StoreExchanged(k) \/ StoreRefreshed(k)
      PROVE  minted'[tok] = minted[tok]
  <2>1. PICK o : \/ Stores(k, Access(k), o) /\ pc[k] \notin AccessStored
                 \/ Stores(k, Refresh(k), o) /\ pc[k] \notin RefreshStored
    BY <1>2, StoreExchangedStores, StoreRefreshedStores
       DEF Moves, AccessStored, RefreshStored
  <2>2. CallMinted(k)
    BY DEF MintedInv
  <2>3. \/ Stores(k, Access(k), o) /\ tok # Access(k)
        \/ Stores(k, Refresh(k), o) /\ tok # Refresh(k)
    BY <2>1, <2>2 DEF CallMinted
  <2>4. QED
    BY <1>0, <2>3 DEF Stores
<1>3. CASE Quiet
  BY <1>3 DEF Quiet
<1>4. QED
  BY <1>0, <1>1, <1>2, <1>3, QuietOrNot

\* What extending a session does to a token.
LEMMA SetExpiriesKeeps ==
    ASSUME AllInv, ValidityTypeOK, MintedInv, PhasesInv, ExpiryInv, NEW tok \in AnyToken,
           minted[tok] # None, minted'[tok] = minted[tok],
           NEW k \in Calls, now' = now,
           \/ SetExchangeExpiries(k)
           \/ \E t \in Calls, c \in Clients :
                 Rotate(k, t, c) /\ pc'[k] = "refresh_rotate_rt"
    PROVE  /\ extended \subseteq extended' /\ extended' \subseteq extended \union AnyToken
           /\ Expired(ExpiryOf(tok)) => Expired(ExpiryOf(tok))' \/ tok \in extended'
           /\ tok \in extended' \ extended =>
                 SetExchangeExpiries(k) /\ minted[tok].session = reqs[k].id
<1> DEFINE o == minted[tok].session
<1>0. /\ o \in Objects /\ expiresAt \in [Objects -> [TokenKinds -> Int]]
      /\ tok.kind \in TokenKinds /\ now \in Int
      /\ \/ o \in AuthReqs /\ authorizeCodes[o] # None
         \/ o \in Calls /\ pc[o] # "idle"
  BY SessionsTaken DEF AnyToken, ValidityTypeOK, Objects
<1>1. CASE SetExchangeExpiries(k)
  <2> DEFINE b == reqs[k].id
             c == authorizeCodes[b].req.client
             f == TokenEndpointExpiries(expiresAt[b], c, "authorization_code")
  <2>1. b \in AuthReqs /\ c \in Clients /\ SetExpiries(b, f)
    BY <1>1, SetExchangeExpiriesSets
  <2>2. /\ f \in [TokenKinds -> Int]
        /\ f["code"] = expiresAt[b]["code"]
        /\ f["access"] > 0
        /\ f["refresh"] > 0 \/ f["refresh"] = expiresAt[b]["refresh"]
    <3>1. expiresAt[b] \in [TokenKinds -> Int]
      BY <1>0, <2>1 DEF Objects
    <3>2. QED
      BY <2>1, <3>1, EndpointExpiries
  <2> HIDE DEF f
  <2>3. /\ expiresAt' = [expiresAt EXCEPT ![b] = f]
        /\ extended' = extended \union
              {t \in AnyToken : /\ minted[t] # None
                                /\ minted[t].session = b
                                /\ f[t.kind] > ExpiryOf(t)}
    BY <2>1 DEF SetExpiries
  <2>4. tok \in extended' \ extended => o = b
    BY <2>3
  <2>5. ASSUME Expired(ExpiryOf(tok)), tok \notin extended'
        PROVE  Expired(ExpiryOf(tok))'
    <3>1. CASE o # b
      <4>1. ExpiryOf(tok)' = ExpiryOf(tok)
        BY <1>0, <2>3, <3>1 DEF ExpiryOf
      <4>2. QED
        BY <2>5, <4>1 DEF Expired
    <3>2. CASE o = b
      <4> DEFINE old == expiresAt[b][tok.kind]
                 new == f[tok.kind]
      <4>1. ExpiryOf(tok) = old /\ ExpiryOf(tok)' = new
        BY <1>0, <2>3, <3>2 DEF ExpiryOf
      <4>2. ~(new > old) /\ old # 0 /\ old < now
        BY <2>3, <2>5, <3>2, <4>1 DEF Expired
      <4>3. /\ new \in Int /\ old \in Int
            /\ new > 0 \/ new = old
        BY <1>0, <2>2, <3>2 DEF TokenKinds
      <4> HIDE DEF old, new
      <4>4. new # 0 /\ new < now'
        BY <1>0, <4>2, <4>3
      <4>5. QED
        BY <4>1, <4>4 DEF Expired
    <3>3. QED
      BY <3>1, <3>2
  <2>6. QED
    BY <1>1, <2>3, <2>4, <2>5
<1>2. ASSUME NEW t \in Calls, NEW c \in Clients, Rotate(k, t, c),
             pc'[k] = "refresh_rotate_rt"
      PROVE  /\ extended \subseteq extended' /\ extended' \subseteq extended \union AnyToken
             /\ Expired(ExpiryOf(tok)) => Expired(ExpiryOf(tok))'
             /\ tok \in extended' => tok \in extended
  <2>1. pc[k] = "idle" /\ k \notin AuthReqs
    BY <1>2, RotateMoves, NamesAssumption DEF Moves, AllInv
  <2>2. o # k
    BY <1>0, <2>1
  <2>3. PICK e : SetExpiries(k, e)
    BY <1>2, RotateSets
  <2>4. ExpiryOf(tok)' = ExpiryOf(tok)
    BY <1>0, <2>2, <2>3 DEF ExpiryOf, SetExpiries
  <2>5. QED
    BY <2>2, <2>3, <2>4 DEF Expired, SetExpiries
<1>3. QED
  BY <1>1, <1>2

\* A token that has expired stays expired, unless it is extended.
LEMMA ExpiredStays ==
    ASSUME AllInv, ValidityTypeOK, MintedInv, PhasesInv, ExpiryInv,
           [ValidityNext]_allVars, NEW tok \in AnyToken, minted[tok] # None
    PROVE  /\ extended \subseteq extended'
           /\ Expired(ExpiryOf(tok)) => Expired(ExpiryOf(tok))' \/ tok \in extended'
           /\ tok \in extended' \ extended =>
                 \E k \in Calls :
                    SetExchangeExpiries(k) /\ minted[tok].session = reqs[k].id
<1>0. /\ minted'[tok] = minted[tok] /\ now' \in Nat /\ now' >= now
      /\ expiresAt \in [Objects -> [TokenKinds -> Int]] /\ now \in Nat
      /\ minted[tok].session \in Objects /\ tok.kind \in TokenKinds
  BY MintedKept, ClockStep DEF AnyToken, Minting, ValidityTypeOK
<1>1. CASE UNCHANGED <<expiresAt, extended>>
  <2>1. ExpiryOf(tok)' = ExpiryOf(tok) /\ ExpiryOf(tok) \in Int
    BY <1>0, <1>1 DEF ExpiryOf
  <2>2. QED
    BY <1>0, <1>1, <2>1 DEF Expired
<1>2. ASSUME NEW a \in AuthReqs, NEW c \in Clients, NEW g \in SUBSET Scopes, NEW e,
             IssueStep(a, c, g, e), now' = now
      PROVE  extended' = extended /\ ExpiryOf(tok)' = ExpiryOf(tok)
  <2>1. /\ expiresAt' = [expiresAt EXCEPT ![a] = e] /\ extended' = extended
        /\ authorizeCodes[a] = None
    BY <1>2 DEF IssueStep
  <2>2. minted[tok].session # a
    BY <2>1, SessionsTaken, NamesAssumption
  <2>3. QED
    BY <1>0, <2>1, <2>2 DEF ExpiryOf
<1>3. ASSUME NEW k \in Calls, now' = now,
             \/ SetExchangeExpiries(k)
             \/ \E t \in Calls, c \in Clients :
                   Rotate(k, t, c) /\ pc'[k] = "refresh_rotate_rt"
      PROVE  /\ extended \subseteq extended'
             /\ Expired(ExpiryOf(tok)) => Expired(ExpiryOf(tok))' \/ tok \in extended'
             /\ tok \in extended' \ extended =>
                   SetExchangeExpiries(k) /\ minted[tok].session = reqs[k].id
  BY <1>0, <1>3, SetExpiriesKeeps
<1>4. CASE \E a \in AuthReqs, c \in Clients, g \in SUBSET Scopes : \E e :
              IssueStep(a, c, g, e) /\ now' = now
  BY <1>2, <1>4 DEF Expired
<1>5. QED
  BY <1>1, <1>3, <1>4, ExpirySteps DEF ExpiryStep

\* Only tokens that exist are extended.
LEMMA ExtendedMinted ==
    ASSUME AllInv, ValidityTypeOK, MintedInv, PhasesInv, ExpiryInv,
           [ValidityNext]_allVars, NEW tok \in extended'
    PROVE  tok \in AnyToken /\ minted[tok] # None /\ minted'[tok] # None
<1>1. tok \in extended => tok \in AnyToken /\ minted[tok] # None
  BY DEF ExpiryInv, ValidityTypeOK
<1>2. ASSUME NEW o, NEW e, SetExpiries(o, e)
      PROVE  tok \in AnyToken /\ minted[tok] # None
  BY <1>1, <1>2 DEF SetExpiries
<1>3. ASSUME extended' = extended
      PROVE  tok \in AnyToken /\ minted[tok] # None
  BY <1>1, <1>3
<1>4. ASSUME NEW a \in AuthReqs, NEW c \in Clients, NEW g \in SUBSET Scopes, NEW e,
             IssueStep(a, c, g, e)
      PROVE  extended' = extended
  BY <1>4 DEF IssueStep
<1>5. ASSUME NEW k \in Calls, SetExchangeExpiries(k)
      PROVE  \E o : \E e : SetExpiries(o, e)
  BY <1>5, SetExchangeExpiriesSets
<1>6. ASSUME NEW k \in Calls, NEW t \in Calls, NEW c \in Clients, Rotate(k, t, c),
             pc'[k] = "refresh_rotate_rt"
      PROVE  \E o : \E e : SetExpiries(o, e)
  BY <1>6, RotateSets
<1>7. tok \in AnyToken /\ minted[tok] # None
  BY <1>2, <1>3, <1>4, <1>5, <1>6, ExpirySteps DEF ExpiryStep
<1>8. QED
  BY <1>7, MintedKept

LEMMA RacedStays ==
    ASSUME [Next]_vars PROVE raced \subseteq raced'
BY RacedGrows DEF vars

\* A live token that the token endpoint issued is not extended.
LEMMA IssuedStep ==
    ASSUME AllInv, ValidityTypeOK, MintedInv, PhasesInv, ExpiryInv,
           IssuedNotExtended, [ValidityNext]_allVars
    PROVE  IssuedNotExtended'
<1> SUFFICES ASSUME NEW t \in extended' \intersect Token, t.sig \in Calls,
                    reqs'[t.sig].id \notin raced'
             PROVE  ~Live(t)'
  BY DEF IssuedNotExtended
<1> DEFINE j == t.sig
           a == reqs[j].id
<1>0. /\ AccessStep(j) /\ RefreshStep(j) /\ CallMoves(j) /\ raced \subseteq raced'
      /\ j \in Calls /\ CallMinted(j) /\ TypeInv
      /\ refreshTokens[j] # None => refreshTokens[j] \in RefreshSession
  BY LifecycleStep, IsNext, CallsMove, RacedStays
     DEF AllInv, TableStep, AccessSignatures, MintedInv, TypeInv, TypeOK, StoreTypeOK
<1>1. /\ t \in AnyToken /\ minted[t] # None
      /\ t \in Token
  BY ExtendedMinted
<1>2. \/ t = Access(j) /\ t.kind = "access"
      \/ t = Refresh(j) /\ t.kind = "refresh"
  BY <1>1 DEF Token, Access, Refresh
<1>3. /\ pc[j] \in AccessStored
      /\ t.kind = "refresh" => pc[j] \in RefreshStored
      /\ minted[t].session = SessionOf(j)
  BY <1>0, <1>1, <1>2 DEF CallMinted, AccessStored, RefreshStored
<1>4. reqs'[j] = reqs[j] /\ a \notin raced
  BY <1>0, <1>3 DEF CallMoves
<1>5. ~Live(t)
  <2>1. CASE t \in extended
    BY <1>0, <1>1, <1>4, <2>1 DEF IssuedNotExtended
  <2>2. CASE t \notin extended
    <3>1. PICK k \in Calls : SetExchangeExpiries(k) /\ minted[t].session = reqs[k].id
      BY <1>1, <2>2, ExpiredStays
    <3>2. reqs[k].id \in AuthReqs /\ pc[k] = "code_populate"
      BY <3>1, SetExchangeExpiriesSets
    <3>3. a = reqs[k].id /\ a \in AuthReqs
      BY <1>0, <1>3, <3>1, <3>2, NamesAssumption DEF SessionOf
    <3>4. InFlight(k, a)
      BY <3>2, <3>3 DEF InFlight, Running
    <3>5. NoActiveRefresh(a) /\ NoBackChannelAccess(a)
      BY <1>4, <3>2, <3>3, <3>4
         DEF AllInv, SerialInv, Serial, Progress, RefreshGone, Exchanging, AccessGone
    <3>6. accessTokens[j] = None
      BY <1>0, <3>5 DEF CallMinted, NoBackChannelAccess, LiveAccess
    <3>7. refreshTokens[j] # None => ~refreshTokens[j].active
      BY <1>0, <3>5 DEF CallMinted, NoActiveRefresh, ActiveRefresh
    <3>8. QED
      BY <1>2, <3>6, <3>7 DEF Live, GetRefreshTokenError
  <2>3. QED
    BY <2>1, <2>2
<1>6. CASE t.kind = "access"
  <2>1. accessTokens[j] = None
    BY <1>5, <1>6 DEF Live
  <2>2. j \notin AuthReqs
    BY <1>0, NamesAssumption
  <2>3. accessTokens'[j] = None
    BY <1>0, <1>3, <2>1, <2>2 DEF AccessStep, AccessStored
  <2>4. QED
    BY <1>6, <2>3 DEF Live
<1>7. CASE t.kind = "refresh"
  <2>1. pc[j] \notin {"code_create_rt", "refresh_create_rt"}
    BY <1>3, <1>7 DEF RefreshStored
  <2>2. refreshTokens[j] = None \/ ~refreshTokens[j].active
    BY <1>5, <1>7 DEF Live, GetRefreshTokenError
  <2>3. refreshTokens'[j] = None \/ ~refreshTokens'[j].active
    BY <1>0, <2>1, <2>2 DEF RefreshStep, RefreshSession
  <2>4. QED
    BY <1>7, <2>3 DEF Live, GetRefreshTokenError
<1>8. QED
  BY <1>2, <1>6, <1>7

-----------------------------------------------------------------------------
(* Types.                                                                  *)

\* The tokens, the keys and the phases of the calls stay well-typed.
LEMMA SessionTypes ==
    ASSUME AllInv, ValidityTypeOK, MintedInv, PhasesInv, ExpiryInv,
           [ValidityNext]_allVars
    PROVE  /\ expiresAt' \in [Objects -> [TokenKinds -> Int]]
           /\ minted' \in [AnyToken -> Minting \union {None}]
           /\ keyOf' \in [Calls -> Secrets \union {None}]
           /\ ready' \subseteq Calls
           /\ extended' \subseteq AnyToken
<1>0. /\ expiresAt \in [Objects -> [TokenKinds -> Int]]
      /\ minted \in [AnyToken -> Minting \union {None}]
      /\ keyOf \in [Calls -> Secrets \union {None}]
      /\ ready \subseteq Calls
      /\ global \in Secrets
      /\ TypeInv
  BY DEF ValidityTypeOK, AllInv
<1>1. extended' \subseteq AnyToken
  BY ExtendedMinted
<1>2. expiresAt' \in [Objects -> [TokenKinds -> Int]]
  <2>1. ASSUME NEW o \in Objects, NEW e \in [TokenKinds -> Int],
               expiresAt' = [expiresAt EXCEPT ![o] = e]
        PROVE  expiresAt' \in [Objects -> [TokenKinds -> Int]]
    BY <1>0, <2>1
  <2>2. CASE UNCHANGED expiresAt
    BY <1>0, <2>2
  <2>3. ASSUME NEW a \in AuthReqs, NEW c \in Clients, NEW g \in SUBSET Scopes, NEW e,
               IssueStep(a, c, g, e)
        PROVE  expiresAt' \in [Objects -> [TokenKinds -> Int]]
    BY <2>1, <2>3 DEF IssueStep, Objects
  <2>4. ASSUME NEW k \in Calls, SetExchangeExpiries(k)
        PROVE  expiresAt' \in [Objects -> [TokenKinds -> Int]]
    <3> DEFINE a == reqs[k].id
               c == authorizeCodes[a].req.client
               f == TokenEndpointExpiries(expiresAt[a], c, "authorization_code")
    <3>1. /\ a \in Objects /\ c \in Clients
          /\ expiresAt' = [expiresAt EXCEPT ![a] = f]
      BY <2>4, SetExchangeExpiriesSets DEF SetExpiries, Objects
    <3>2. expiresAt[a] \in [TokenKinds -> Int]
      BY <1>0, <3>1
    <3>3. f \in [TokenKinds -> Int]
      BY <3>1, <3>2, EndpointExpiries
    <3> HIDE DEF f
    <3>4. QED
      BY <2>1, <3>1, <3>3
  <2>5. ASSUME NEW k \in Calls, NEW t \in Calls, NEW c \in Clients, Rotate(k, t, c),
               pc'[k] = "refresh_rotate_rt"
        PROVE  expiresAt' \in [Objects -> [TokenKinds -> Int]]
    <3>1. PICK e \in [TokenKinds -> Int] :
             SetExpiries(k, TokenEndpointExpiries(e, c, "refresh_token"))
      BY <2>5, RotateSets
    <3> DEFINE f == TokenEndpointExpiries(e, c, "refresh_token")
    <3>2. expiresAt' = [expiresAt EXCEPT ![k] = f] /\ k \in Objects
      BY <3>1 DEF SetExpiries, Objects
    <3>3. f \in [TokenKinds -> Int]
      BY EndpointExpiries
    <3> HIDE DEF f
    <3>4. QED
      BY <2>1, <3>2, <3>3
  <2>6. QED
    BY <2>2, <2>3, <2>4, <2>5, ExpirySteps DEF ExpiryStep
<1>3. minted' \in [AnyToken -> Minting \union {None}]
  <2>1. ASSUME NEW a \in AuthReqs, NEW c \in Clients, NEW g \in SUBSET Scopes,
               NEW type \in ResponseTypes, Issue(a, c, g, type)
        PROVE  minted' \in [AnyToken -> Minting \union {None}]
    <3>1. [secret |-> global, session |-> a, scopes |-> g] \in Minting
      BY <1>0 DEF Minting, Objects
    <3>2. QED
      BY <1>0, <2>1, <3>1 DEF Issue, Mint
  <2>2. ASSUME NEW k \in Calls, StoreExchanged(k) \/ StoreRefreshed(k)
        PROVE  minted' \in [AnyToken -> Minting \union {None}]
    <3>1. pc[k] \in Generated
      BY <2>2 DEF StoreExchanged, StoreRefreshed, ExchangeCreateAccess,
         ExchangeCreateRefresh, RefreshCreateAccess, RefreshCreateRefresh, Generated
    <3>2. keyOf[k] \in Secrets /\ reqs[k].scopes \in SUBSET Scopes
      BY <1>0, <3>1 DEF PhasesInv, Generated, Requester, TypeInv, CallsOK
    <3>3. PICK tok, o : Stores(k, tok, o) /\ o \in Objects
      BY <2>2, StoreExchangedStores, StoreRefreshedStores DEF Objects
    <3>4. [secret |-> keyOf[k], session |-> o, scopes |-> reqs[k].scopes] \in Minting
      BY <3>2, <3>3 DEF Minting
    <3>5. QED
      BY <1>0, <3>3, <3>4 DEF Stores
  <2>3. CASE Quiet
    BY <1>0, <2>3 DEF Quiet
  <2>4. QED
    BY <1>0, <2>1, <2>2, <2>3, QuietOrNot
<1>4. CASE TokenStep
  <2>1. ASSUME NEW k \in Calls, Populate(k) \/ BeginRotation(k)
        PROVE  keyOf' \in [Calls -> Secrets \union {None}] /\ ready' \subseteq Calls
    BY <1>0, <2>1 DEF Populate, BeginRotation, Generate
  <2>2. ASSUME NEW k \in Calls, SetExchangeExpiries(k)
        PROVE  keyOf' = keyOf /\ ready' \subseteq Calls
    BY <1>0, <2>2 DEF SetExchangeExpiries
  <2>3. ASSUME NEW k \in Calls, StoreExchanged(k) \/ StoreRefreshed(k)
        PROVE  UNCHANGED <<keyOf, ready>>
    BY <2>3 DEF StoreExchanged, StoreRefreshed
  <2>4. ASSUME NEW k \in Calls, NEW t \in Calls, NEW c \in Clients, Rotate(k, t, c)
        PROVE  UNCHANGED <<keyOf, ready>>
    BY <2>4 DEF Rotate
  <2>5. ASSUME NEW k \in Calls, NEW a \in AuthReqs, NEW c \in Clients, Redeem(k, a, c)
        PROVE  UNCHANGED <<keyOf, ready>>
    BY <2>5 DEF Redeem, sessionVars
  <2>6. ASSUME NEW a \in AuthReqs, NEW c \in Clients, NEW g \in SUBSET Scopes,
               NEW type \in ResponseTypes, Issue(a, c, g, type)
        PROVE  UNCHANGED <<keyOf, ready>>
    BY <2>6 DEF Issue
  <2>7. ASSUME OtherStep
        PROVE  UNCHANGED <<keyOf, ready>>
    BY <2>7 DEF OtherStep, sessionVars
  <2>8. keyOf' \in [Calls -> Secrets \union {None}] /\ ready' \subseteq Calls
    BY <1>0, <1>4, <2>1, <2>2, <2>3, <2>4, <2>5, <2>6, <2>7 DEF TokenStep
  <2>9. QED
    BY <1>1, <1>2, <1>3, <2>8
<1>5. CASE RotateSecret \/ RetireSecret \/ Tick \/ InspectionStep \/ UNCHANGED allVars
  <2>1. UNCHANGED <<keyOf, ready>>
    BY <1>5 DEF RotateSecret, RetireSecret, Tick, InspectionStep, allVars,
                validityVars, sessionVars
  <2>2. QED
    BY <1>0, <1>1, <1>2, <1>3, <2>1
<1>6. QED
  BY <1>4, <1>5 DEF ValidityNext

\* The configured secrets, and what a step does to the keys of a token.
LEMMA KeysStep ==
    ASSUME ValidityTypeOK, [ValidityNext]_allVars
    PROVE  /\ global' \in Secrets /\ rotated' \subseteq Secrets
           /\ \A tok \in AnyToken : minted[tok] # None =>
                 /\ minted[tok].secret \notin Keys => minted[tok].secret \notin Keys'
                 /\ global' # global => minted[tok].secret # global'
<1>0. global \in Secrets /\ rotated \subseteq Secrets
  BY DEF ValidityTypeOK
<1>1. CASE RotateSecret
  BY <1>0, <1>1 DEF RotateSecret, Keys
<1>2. CASE RetireSecret
  BY <1>0, <1>2 DEF RetireSecret, Keys
<1>3. CASE TokenStep \/ Tick \/ InspectionStep \/ UNCHANGED allVars
  <2>1. UNCHANGED <<global, rotated>>
    BY <1>3 DEF TokenStep, Tick, InspectionStep, allVars, validityVars, secretVars
  <2>2. QED
    BY <1>0, <2>1 DEF Keys
<1>4. QED
  BY <1>1, <1>2, <1>3 DEF ValidityNext

-----------------------------------------------------------------------------
(* Introspection.                                                          *)

\* The history grows with the search of a call and stays until it returns.
Observed(i) ==
    /\ i \in wasValid /\ looks'[i] # None /\ (Searching(i)' => Searching(i))
          => i \in wasValid'
    /\ i \in wasInvalid /\ looks'[i] # None /\ (Searching(i)' => Searching(i))
          => i \in wasInvalid'
    /\ \A l \in Look : looks'[i] = l /\ l.step \in Unanswered =>
          i \in (IF Valid(l.token)' THEN wasValid' ELSE wasInvalid')

LEMMA ObserveStep ==
    ASSUME Observe, NEW i \in Inspections
    PROVE  Observed(i)
<1> DEFINE Keeps(j) == looks'[j] # None /\ ~Searching(j)'
           Starts(j) == Searching(j)' /\ (looks[j] = None \/ ~Searching(j))
           Sees(seen, outcome) ==
              {j \in Inspections :
                  \/ j \in seen /\ (Keeps(j) \/ (Searching(j)' /\ ~Starts(j)))
                  \/ Searching(j)' /\ Valid(looks[j].token)' = outcome}
<1>1. wasValid' = Sees(wasValid, TRUE) /\ wasInvalid' = Sees(wasInvalid, FALSE)
  BY DEF Observe
<1>2. looks'[i] # None /\ (Searching(i)' => Searching(i)) =>
         Keeps(i) \/ (Searching(i)' /\ ~Starts(i))
  BY DEF Searching
<1>3. /\ i \in wasValid /\ looks'[i] # None /\ (Searching(i)' => Searching(i))
            => i \in wasValid'
      /\ i \in wasInvalid /\ looks'[i] # None /\ (Searching(i)' => Searching(i))
            => i \in wasInvalid'
  BY <1>1, <1>2
<1>4. ASSUME NEW l \in Look, looks'[i] = l, l.step \in Unanswered
      PROVE  i \in (IF Valid(l.token)' THEN wasValid' ELSE wasInvalid')
  <2>1. Searching(i)'
    BY <1>4, NoMintingAssumption DEF Searching, Unanswered
  <2>2. Valid(looks[i].token)' <=> Valid(l.token)'
    BY <1>4 DEF Valid, Live, GetRefreshTokenError, Expired, ExpiryOf, Keys
  <2>3. Valid(looks[i].token)' \in BOOLEAN
    BY DEF Valid
  <2>4. CASE Valid(l.token)'
    BY <1>1, <2>1, <2>2, <2>3, <2>4
  <2>5. CASE ~Valid(l.token)'
    BY <1>1, <2>1, <2>2, <2>3, <2>5
  <2>6. QED
    BY <2>4, <2>5
<1>5. QED
  BY <1>3, <1>4 DEF Observed

LEMMA ObservedStep ==
    ASSUME ValidityTypeOK, LooksInv, [ValidityNext]_allVars, NEW i \in Inspections
    PROVE  Observed(i)
<1>1. CASE Observe
  BY <1>1, ObserveStep
<1>2. CASE UNCHANGED allVars
  <2>1. UNCHANGED <<looks, wasValid, wasInvalid, accessTokens, refreshTokens, now,
                    expiresAt, minted, global, rotated>>
    BY <1>2 DEF allVars, vars, storeVars, accessVars, refreshVars, validityVars,
                sessionVars, secretVars, observed
  <2>2. \A l \in Look : Valid(l.token)' <=> Valid(l.token)
    BY <2>1 DEF Valid, Live, GetRefreshTokenError, Expired, ExpiryOf, Keys
  <2>3. \A l \in Look : looks[i] = l /\ l.step \in Unanswered =>
           i \in (IF Valid(l.token) THEN wasValid ELSE wasInvalid)
    BY DEF LooksInv, Known
  <2>4. QED
    BY <2>1, <2>2, <2>3 DEF Observed
<1>3. QED
  BY <1>1, <1>2 DEF ValidityNext

\* What holds of a call of the introspection endpoint is not disturbed by the
\* steps of the others.
LEMMA LookKept ==
    ASSUME AllInv, ValidityTypeOK, MintedInv, PhasesInv, ExpiryInv, LooksInv,
           [ValidityNext]_allVars, NEW i \in Inspections, NEW l \in Look,
           looks[i] = l, looks'[i] = l
    PROVE  Known(i, l)' /\ Answered(i, l)'
<1> DEFINE tok == l.token
<1>1. Known(i, l) /\ Answered(i, l)
  BY DEF LooksInv
<1>2. tok \in AnyToken /\ minted[tok] # None
  BY <1>1 DEF Known, Look, Token, AnyToken, TokenKinds
<1>3. minted'[tok] = minted[tok]
  BY <1>2, MintedKept
<1>4. /\ extended \subseteq extended'
      /\ Expired(ExpiryOf(tok)) => Expired(ExpiryOf(tok))' \/ tok \in extended'
  BY <1>2, ExpiredStays
<1>5. /\ minted[tok].secret \notin Keys => minted[tok].secret \notin Keys'
      /\ global' # global => minted[tok].secret # global'
  BY <1>2, KeysStep
<1>6. Observed(i) /\ (Searching(i)' <=> Searching(i)) /\ looks'[i] # None
  BY ObservedStep, NoMintingAssumption DEF Searching
<1>7. /\ i \in wasValid => i \in wasValid'
      /\ i \in wasInvalid => i \in wasInvalid'
      /\ l.step \in Unanswered =>
            i \in (IF Valid(tok)' THEN wasValid' ELSE wasInvalid')
  BY <1>6 DEF Observed
<1>8. FoundGood(i, l) => FoundGood(i, l)'
  BY <1>3, <1>4, <1>5, <1>7 DEF FoundGood
<1>9. Known(i, l)'
  BY <1>1, <1>2, <1>3, <1>5, <1>7, <1>8 DEF Known
<1>10. Answered(i, l)'
  BY <1>1, <1>3, <1>4, <1>7 DEF Answered
<1>11. QED
  BY <1>9, <1>10

\* An introspection changes nothing but its own state.
Still == UNCHANGED <<accessTokens, refreshTokens, now, expiresAt, minted, global,
                     rotated, extended>>

LEMMA InspectionStill ==
    ASSUME InspectionStep PROVE Still
BY DEF InspectionStep, Still, vars, storeVars, accessVars, refreshVars, sessionVars,
       secretVars

LEMMA StillValid ==
    ASSUME Still, NEW tok
    PROVE  /\ Valid(tok)' <=> Valid(tok)
           /\ Expired(ExpiryOf(tok))' <=> Expired(ExpiryOf(tok))
           /\ Keys' = Keys
BY DEF Still, Valid, Live, GetRefreshTokenError, Expired, ExpiryOf, Keys

\* The next state m of a call that was in the state l and looks on.
Goes(i, l, m) == looks[i] = l /\ looks' = [looks EXCEPT ![i] = m] /\ m.token = l.token

NextLook(l, m) ==
    /\ m.keys = l.keys /\ m.asked = l.asked /\ m.authorizing = l.authorizing
    /\ ~m.retry
    /\ l.retry => m.step = "lookup" /\ m.table # l.table
    /\ ~l.retry => /\ m.step = IF l.authorizing THEN "unauthorized" ELSE "inactive"
                   /\ m.table = l.table

OnLook(l, m, step) ==
    /\ m.keys = l.keys /\ m.asked = l.asked /\ m.authorizing = l.authorizing
    /\ m.retry = l.retry /\ m.table = l.table /\ m.step = step

LEMMA NextTableGoes ==
    ASSUME ValidityTypeOK, NEW i \in Inspections, looks[i] # None, NextTable(i)
    PROVE  \E l, m \in Look : Goes(i, l, m) /\ NextLook(l, m)
<1> DEFINE l == looks[i]
<1>1. looks \in [Inspections -> Look \union {None}] /\ l \in Look
  BY DEF ValidityTypeOK
<1>2. CASE l.retry
  <2> DEFINE m == [l EXCEPT !.step = "lookup", !.retry = FALSE,
                            !.table = IF @ = "access" THEN "refresh" ELSE "access"]
  <2>1. m \in Look /\ m.token = l.token /\ NextLook(l, m)
    BY <1>1, <1>2 DEF Look, Steps, NextLook
  <2>2. looks' = [looks EXCEPT ![i] = m]
    BY <1>1, <1>2 DEF NextTable, LookOn
  <2>3. QED
    BY <1>1, <2>1, <2>2 DEF Goes
<1>3. CASE ~l.retry
  <2> DEFINE m == [l EXCEPT !.step = IF l.authorizing THEN "unauthorized" ELSE "inactive"]
  <2>1. m \in Look /\ m.token = l.token /\ NextLook(l, m)
    BY <1>1, <1>3 DEF Look, Steps, NextLook
  <2>2. looks' = [looks EXCEPT ![i] = m]
    BY <1>1, <1>3 DEF NextTable, LookOn
  <2>3. QED
    BY <1>1, <2>1, <2>2 DEF Goes
<1>4. QED
  BY <1>2, <1>3

LEMMA LookOnGoes ==
    ASSUME ValidityTypeOK, NEW i \in Inspections, looks[i] # None, NEW step \in Steps,
           LookOn(i, step)
    PROVE  \E l, m \in Look : Goes(i, l, m) /\ OnLook(l, m, step)
<1> DEFINE l == looks[i]
           m == [l EXCEPT !.step = step]
<1>1. looks \in [Inspections -> Look \union {None}] /\ l \in Look
  BY DEF ValidityTypeOK
<1>2. m \in Look /\ m.token = l.token /\ OnLook(l, m, step)
  BY <1>1 DEF Look, OnLook
<1>3. looks' = [looks EXCEPT ![i] = m]
  BY <1>1 DEF LookOn
<1>4. QED
  BY <1>1, <1>2, <1>3 DEF Goes

\* What holds of the call when it goes on to a state m.
LEMMA GoesOn ==
    ASSUME ValidityTypeOK, LooksInv, Still, [ValidityNext]_allVars,
           NEW i \in Inspections, NEW l \in Look, NEW m \in Look, Goes(i, l, m)
    PROVE  /\ Known(i, l)
           /\ m.step \in Unanswered =>
                 i \in (IF Valid(m.token)' THEN wasValid' ELSE wasInvalid')
           /\ l.step \in Unanswered =>
                 /\ i \in wasValid => i \in wasValid'
                 /\ i \in wasInvalid => i \in wasInvalid'
                 /\ Valid(l.token) \/ i \in wasInvalid
<1>1. Known(i, l)
  BY DEF LooksInv, Goes
<1>2. looks'[i] = m /\ looks[i] = l /\ m # None /\ l # None
  BY NoMintingAssumption DEF Goes, ValidityTypeOK
<1>3. Observed(i)
  BY ObservedStep
<1>4. l.step \in Unanswered => Searching(i)
  BY <1>2 DEF Searching, Unanswered
<1>5. QED
  BY <1>1, <1>2, <1>3, <1>4 DEF Observed, Known

\* Every step of a call of the introspection endpoint keeps what it knows, and
\* the answer it comes to was true.
LEMMA InspectGoes ==
    ASSUME AllInv, ValidityTypeOK, LooksInv, Still, [ValidityNext]_allVars,
           NEW i \in Inspections, NEW tok \in Token, Inspect(i, tok)
    PROVE  \E m \in Look : /\ looks' = [looks EXCEPT ![i] = m]
                           /\ Known(i, m)' /\ Answered(i, m)'
<1>1. looks \in [Inspections -> Look \union {None}] /\ None \notin Look
  BY NoMintingAssumption DEF ValidityTypeOK
<1>2. PICK b \in BOOLEAN, table \in {"access", "refresh"} :
         StartLook(i, tok, b, table)
  BY DEF Inspect
<1> DEFINE m == [token |-> tok, authorizing |-> b, step |-> "lookup",
                 table |-> IF DisableRefreshTokenValidation THEN "access" ELSE table,
                 retry |-> ~DisableRefreshTokenValidation, keys |-> {}, asked |-> {}]
<1>3. m \in Look
  BY LifespanAssumption DEF Look, Steps
<1>4. looks' = [looks EXCEPT ![i] = m] /\ looks'[i] = m
  BY <1>1, <1>2 DEF StartLook
<1>5. minted'[tok] # None
  BY DEF Inspect, Still
<1>6. /\ m.token = tok /\ m.step = "lookup" /\ m.keys = {}
      /\ m.retry = ~DisableRefreshTokenValidation
      /\ DisableRefreshTokenValidation => m.table = "access"
  OBVIOUS
<1> HIDE DEF m
<1>7. i \in (IF Valid(m.token)' THEN wasValid' ELSE wasInvalid')
  BY <1>3, <1>4, <1>6, ObservedStep DEF Observed, Unanswered
<1>8. ~m.retry /\ m.token.kind # m.table => ~Valid(m.token)'
  BY <1>6 DEF Valid, Token
<1>9. Known(i, m)'
  BY <1>5, <1>6, <1>7, <1>8 DEF Known
<1>10. Answered(i, m)'
  BY <1>6 DEF Answered
<1>11. QED
  BY <1>3, <1>4, <1>9, <1>10

\* The table that was just tried gave no answer.
LEMMA NextLookKnown ==
    ASSUME ValidityTypeOK, LooksInv, Still, [ValidityNext]_allVars,
           NEW i \in Inspections, NEW l \in Look, NEW m \in Look,
           Goes(i, l, m), NextLook(l, m), l.step \in Unanswered,
           l.token.kind = l.table => ~Valid(l.token),
           minted[l.token].secret \notin l.keys
    PROVE  Known(i, m)' /\ Answered(i, m)'
<1>1. /\ Known(i, l)
      /\ m.step \in Unanswered =>
            i \in (IF Valid(m.token)' THEN wasValid' ELSE wasInvalid')
      /\ i \in wasInvalid => i \in wasInvalid'
      /\ Valid(l.token) \/ i \in wasInvalid
  BY GoesOn
<1>2. /\ minted' = minted /\ m.token = l.token /\ m.keys = l.keys /\ ~m.retry
      /\ l.token.kind \in {"access", "refresh"}
      /\ l.table \in {"access", "refresh"} /\ m.table \in {"access", "refresh"}
  BY DEF Still, Goes, NextLook, Look, Token
<1>3. l.token.kind = l.table \/ ~l.retry => i \in wasInvalid'
  BY <1>1 DEF Known
<1>4. CASE l.retry
  <2>1. m.step = "lookup" /\ m.table # l.table /\ ~DisableRefreshTokenValidation
    BY <1>1, <1>4 DEF NextLook, Known
  <2>2. m.token.kind # m.table => i \in wasInvalid'
    BY <1>2, <1>3, <2>1
  <2>3. QED
    BY <1>1, <1>2, <2>1, <2>2 DEF Known, Answered, Unanswered
<1>5. CASE ~l.retry
  <2>1. m.step \in {"inactive", "unauthorized"} /\ m.table = l.table
    BY <1>5 DEF NextLook
  <2>2. i \in wasInvalid'
    BY <1>3, <1>5
  <2>3. QED
    BY <1>1, <1>2, <2>1, <2>2 DEF Known, Answered, Unanswered
<1>6. QED
  BY <1>4, <1>5

LEMMA LookUpGoes ==
    ASSUME ValidityTypeOK, LooksInv, Still, [ValidityNext]_allVars,
           NEW i \in Inspections, LookUp(i)
    PROVE  \E m \in Look : /\ looks' = [looks EXCEPT ![i] = m]
                           /\ Known(i, m)' /\ Answered(i, m)'
<1>1. looks[i] # None /\ looks[i].step = "lookup"
  BY DEF LookUp, Looking
<1>2. CASE Found(i) /\ LookOn(i, "expiry")
  <2>1. PICK l, m \in Look : Goes(i, l, m) /\ OnLook(l, m, "expiry")
    BY <1>1, <1>2, LookOnGoes DEF Steps
  <2>2. /\ l.step = "lookup" /\ m.step = "expiry" /\ m.token = l.token
        /\ m.keys = l.keys /\ m.table = l.table /\ m.retry = l.retry
        /\ looks' = [looks EXCEPT ![i] = m]
    BY <1>1, <2>1 DEF Goes, OnLook
  <2>3. /\ Known(i, l)
        /\ i \in (IF Valid(m.token)' THEN wasValid' ELSE wasInvalid')
        /\ i \in wasInvalid => i \in wasInvalid'
    BY <2>1, <2>2, GoesOn DEF Unanswered
  <2>4. l.token.kind = l.table /\ Live(l.token)
    BY <1>2, <2>1 DEF Found, Goes
  <2>5. l.token.kind = "refresh" => ~DisableRefreshTokenValidation
    BY <2>3, <2>4 DEF Known
  <2>6. \/ Valid(l.token) \/ Expired(ExpiryOf(l.token))
        \/ minted[l.token].secret \notin Keys
    BY <2>4, <2>5 DEF Valid
  <2>7. minted[l.token].secret \notin l.keys
    BY <2>2, <2>3 DEF Known
  <2>8. FoundGood(i, m)'
    BY <2>2, <2>3, <2>6, <2>7, StillValid DEF FoundGood, Still
  <2>9. Known(i, m)' /\ Answered(i, m)'
    BY <2>2, <2>3, <2>4, <2>7, <2>8 DEF Known, Answered, Still, Unanswered
  <2>10. QED
    BY <2>2, <2>9
<1>3. CASE ~Found(i) /\ NextTable(i)
  <2>1. PICK l, m \in Look : Goes(i, l, m) /\ NextLook(l, m)
    BY <1>1, <1>3, NextTableGoes
  <2>2. l.step = "lookup" /\ looks' = [looks EXCEPT ![i] = m]
    BY <1>1, <2>1 DEF Goes
  <2>3. l.token.kind = l.table => ~Valid(l.token)
    BY <1>3, <2>1 DEF Found, Goes, Valid
  <2>4. minted[l.token].secret \notin l.keys
    BY <2>1, <2>2, GoesOn DEF Known
  <2>5. Known(i, m)' /\ Answered(i, m)'
    BY <2>1, <2>2, <2>3, <2>4, NextLookKnown DEF Unanswered
  <2>6. QED
    BY <2>2, <2>5
<1>4. QED
  BY <1>2, <1>3 DEF LookUp

LEMMA CheckExpiryGoes ==
    ASSUME ValidityTypeOK, LooksInv, Still, [ValidityNext]_allVars,
           NEW i \in Inspections, CheckExpiry(i)
    PROVE  \E m \in Look : /\ looks' = [looks EXCEPT ![i] = m]
                           /\ Known(i, m)' /\ Answered(i, m)'
<1>1. looks[i] # None /\ looks[i].step = "expiry"
  BY DEF CheckExpiry, Looking
<1>2. CASE ~Expired(ExpiryOf(looks[i].token)) /\ LookOn(i, "read1")
  <2>1. PICK l, m \in Look : Goes(i, l, m) /\ OnLook(l, m, "read1")
    BY <1>1, <1>2, LookOnGoes DEF Steps
  <2>2. /\ l.step = "expiry" /\ m.step = "read1" /\ m.token = l.token
        /\ m.keys = l.keys /\ m.table = l.table /\ m.retry = l.retry
        /\ looks' = [looks EXCEPT ![i] = m] /\ looks[i] = l
    BY <1>1, <2>1 DEF Goes, OnLook
  <2>3. /\ Known(i, l)
        /\ i \in (IF Valid(m.token)' THEN wasValid' ELSE wasInvalid')
        /\ i \in wasValid => i \in wasValid'
        /\ i \in wasInvalid => i \in wasInvalid'
    BY <2>1, <2>2, GoesOn DEF Unanswered
  <2>4. ~Expired(ExpiryOf(l.token)) /\ FoundGood(i, l) /\ l.token.kind = l.table
    BY <1>2, <2>2, <2>3 DEF Known
  <2>5. FoundGood(i, m)'
    BY <2>2, <2>3, <2>4, StillValid DEF FoundGood, Still
  <2>6. Known(i, m)' /\ Answered(i, m)'
    BY <2>2, <2>3, <2>4, <2>5 DEF Known, Answered, Still, Unanswered
  <2>7. QED
    BY <2>2, <2>6
<1>3. CASE Expired(ExpiryOf(looks[i].token)) /\ NextTable(i)
  <2>1. PICK l, m \in Look : Goes(i, l, m) /\ NextLook(l, m)
    BY <1>1, <1>3, NextTableGoes
  <2>2. l.step = "expiry" /\ looks' = [looks EXCEPT ![i] = m] /\ looks[i] = l
    BY <1>1, <2>1 DEF Goes
  <2>3. ~Valid(l.token)
    BY <1>3, <2>2 DEF Valid
  <2>4. minted[l.token].secret \notin l.keys
    BY <2>1, <2>2, GoesOn DEF Known
  <2>5. Known(i, m)' /\ Answered(i, m)'
    BY <2>1, <2>2, <2>3, <2>4, NextLookKnown DEF Unanswered
  <2>6. QED
    BY <2>2, <2>5
<1>4. QED
  BY <1>2, <1>3 DEF CheckExpiry

LEMMA ReadGlobalSecretGoes ==
    ASSUME ValidityTypeOK, LooksInv, Still, [ValidityNext]_allVars,
           NEW i \in Inspections, ReadGlobalSecret(i)
    PROVE  \E m \in Look : /\ looks' = [looks EXCEPT ![i] = m]
                           /\ Known(i, m)' /\ Answered(i, m)'
<1> DEFINE l == looks[i]
           m == [l EXCEPT !.step = "read2", !.keys = {global}]
<1>1. /\ looks \in [Inspections -> Look \union {None}] /\ l \in Look /\ l.step = "read1"
      /\ global \in Secrets
  BY DEF ValidityTypeOK, ReadGlobalSecret, Looking
<1>2. /\ m \in Look /\ m.token = l.token /\ m.step = "read2" /\ m.keys = {global}
      /\ m.table = l.table /\ m.retry = l.retry
  BY <1>1 DEF Look, Steps
<1>3. looks' = [looks EXCEPT ![i] = m]
  BY <1>1 DEF ReadGlobalSecret, Read
<1> HIDE DEF m
<1>4. PICK n \in Look : n = l
  BY <1>1
<1>5. Goes(i, n, m)
  BY <1>2, <1>3, <1>4 DEF Goes
<1>6. PICK p \in Look : p = m
  BY <1>2
<1>7. /\ Known(i, n)
      /\ i \in (IF Valid(p.token)' THEN wasValid' ELSE wasInvalid')
      /\ i \in wasValid => i \in wasValid'
      /\ i \in wasInvalid => i \in wasInvalid'
  BY <1>1, <1>2, <1>4, <1>5, <1>6, GoesOn DEF Unanswered
<1>8. /\ p.token = n.token /\ p.step = "read2" /\ n.step = "read1" /\ p.keys = {global}
      /\ p.table = n.table /\ p.retry = n.retry /\ looks' = [looks EXCEPT ![i] = p]
  BY <1>1, <1>2, <1>3, <1>4, <1>6
<1>9. FoundGood(i, n) /\ n.token.kind = n.table
  BY <1>7, <1>8 DEF Known
<1>10. FoundGood(i, p)'
  BY <1>7, <1>8, <1>9, StillValid DEF FoundGood, Still, Keys
<1>11. Known(i, p)' /\ Answered(i, p)'
  BY <1>7, <1>8, <1>9, <1>10 DEF Known, Answered, Still, Unanswered
<1>12. QED
  BY <1>8, <1>11

\* The call has tried the keys.
Concludes(i, wanted, step) ==
    looks' = [looks EXCEPT ![i].step = step, ![i].asked = wanted,
                           ![i].keys = {}, ![i].retry = FALSE]

Signed(i) == minted[looks[i].token].secret \in looks[i].keys \union Read(2)

LEMMA ReadRotatedSecretsCases ==
    ASSUME NEW i \in Inspections, ReadRotatedSecrets(i)
    PROVE  \/ ~Signed(i) /\ NextTable(i)
           \/ /\ Signed(i) /\ ~looks[i].authorizing
              /\ \E scopes \in SUBSET Scopes :
                    \/ /\ scopes \subseteq minted[looks[i].token].scopes
                       /\ Concludes(i, scopes, "active")
                    \/ /\ ~(scopes \subseteq minted[looks[i].token].scopes)
                       /\ Concludes(i, scopes, "inactive")
           \/ /\ Signed(i) /\ looks[i].authorizing
              /\ Concludes(i, {}, IF looks[i].table = "access" THEN "authorized"
                                  ELSE "unauthorized")
BY Zenon DEF ReadRotatedSecrets, MatchScopes, Concludes, Signed

LEMMA ReadRotatedSecretsGoes ==
    ASSUME ValidityTypeOK, LooksInv, Still, [ValidityNext]_allVars,
           NEW i \in Inspections, ReadRotatedSecrets(i)
    PROVE  \E m \in Look : /\ looks' = [looks EXCEPT ![i] = m]
                           /\ Known(i, m)' /\ Answered(i, m)'
<1>0. Looking(i, "read2")
  BY Zenon DEF ReadRotatedSecrets
<1>1. /\ looks \in [Inspections -> Look \union {None}] /\ looks[i] # None
      /\ looks[i] \in Look /\ looks[i].step = "read2"
  BY <1>0 DEF ValidityTypeOK, Looking
<1> DEFINE tok == minted[looks[i].token]
<1>2. CASE ~Signed(i) /\ NextTable(i)
  <2>1. PICK l, m \in Look : Goes(i, l, m) /\ NextLook(l, m)
    BY <1>1, <1>2, NextTableGoes
  <2>2. l.step = "read2" /\ looks' = [looks EXCEPT ![i] = m] /\ looks[i] = l
    BY <1>1, <2>1 DEF Goes
  <2>3. minted[l.token].secret \notin l.keys \union rotated
    BY <1>2, <2>2 DEF Signed, Read
  <2>4. minted[l.token].secret # global
    BY <2>1, <2>2, <2>3, GoesOn DEF Known
  <2>5. ~Valid(l.token)
    BY <2>3, <2>4 DEF Valid, Keys
  <2>6. Known(i, m)' /\ Answered(i, m)'
    BY <2>1, <2>2, <2>3, <2>5, NextLookKnown DEF Unanswered
  <2>7. QED
    BY <2>2, <2>6
<1>3. ASSUME NEW wanted \in SUBSET Scopes, NEW step \in Steps, Signed(i),
             step \notin Unanswered, Concludes(i, wanted, step),
             step \in {"active", "authorized"} =>
                /\ wanted \subseteq tok.scopes
                /\ looks[i].authorizing => looks[i].table = "access",
             step = "inactive" => ~(wanted \subseteq tok.scopes),
             step = "unauthorized" => looks[i].table = "refresh"
      PROVE  \E m \in Look : /\ looks' = [looks EXCEPT ![i] = m]
                             /\ Known(i, m)' /\ Answered(i, m)'
  <2> DEFINE m == [looks[i] EXCEPT !.step = step, !.asked = wanted,
                                   !.keys = {}, !.retry = FALSE]
  <2>1. /\ m \in Look /\ m.token = looks[i].token /\ m.step = step /\ m.keys = {}
        /\ m.table = looks[i].table /\ ~m.retry /\ m.asked = wanted
        /\ m.authorizing = looks[i].authorizing
    BY <1>1 DEF Look
  <2>2. looks' = [looks EXCEPT ![i] = m]
    BY <1>1, <1>3 DEF Concludes
  <2> HIDE DEF m
  <2>3. PICK l \in Look : l = looks[i]
    BY <1>1
  <2>4. PICK p \in Look : p = m
    BY <2>1
  <2>5. Goes(i, l, p) /\ l.step = "read2"
    BY <1>1, <2>1, <2>2, <2>3, <2>4 DEF Goes
  <2>6. /\ p.token = l.token /\ p.step = step /\ p.keys = {} /\ p.table = l.table
        /\ ~p.retry /\ p.asked = wanted /\ p.authorizing = l.authorizing
    BY <2>1, <2>3, <2>4
  <2>7. Known(i, l) /\ (i \in wasValid => i \in wasValid')
    BY <2>5, GoesOn DEF Unanswered
  <2>8. l.token.kind = l.table /\ FoundGood(i, l)
    BY <2>5, <2>7 DEF Known
  <2>9. i \in wasValid \/ l.token \in extended
    BY <1>3, <2>3, <2>5, <2>8 DEF FoundGood, Keys, Signed, Read
  <2>10. i \in wasValid' \/ p.token \in extended'
    BY <2>6, <2>7, <2>9 DEF Still
  <2>11. Known(i, p)'
    BY <1>3, <2>6, <2>7 DEF Known, Still, Unanswered
  <2>12. /\ minted'[p.token].scopes = tok.scopes
         /\ looks[i].table = p.token.kind /\ looks[i].authorizing = p.authorizing
    BY <2>3, <2>6, <2>8 DEF Still
  <2>13. Answered(i, p)'
    <3> HIDE DEF tok
    <3>1. QED
      BY <1>3, <2>6, <2>10, <2>12 DEF Answered
  <2>14. QED
    BY <2>2, <2>4, <2>11, <2>13
<1>4. ASSUME NEW scopes \in SUBSET Scopes, Signed(i), ~looks[i].authorizing,
             \/ scopes \subseteq tok.scopes /\ Concludes(i, scopes, "active")
             \/ ~(scopes \subseteq tok.scopes) /\ Concludes(i, scopes, "inactive")
      PROVE  \E m \in Look : /\ looks' = [looks EXCEPT ![i] = m]
                             /\ Known(i, m)' /\ Answered(i, m)'
  <2>1. CASE scopes \subseteq tok.scopes /\ Concludes(i, scopes, "active")
    <3>1. "active" \in Steps /\ "active" \notin Unanswered
      BY DEF Steps, Unanswered
    <3>2. QED
      BY <1>3, <1>4, <2>1, <3>1
  <2>2. CASE ~(scopes \subseteq tok.scopes) /\ Concludes(i, scopes, "inactive")
    <3>1. "inactive" \in Steps /\ "inactive" \notin Unanswered
      BY DEF Steps, Unanswered
    <3>2. QED
      BY <1>3, <1>4, <2>2, <3>1
  <2>3. QED
    BY <1>4, <2>1, <2>2
<1>5. ASSUME Signed(i), looks[i].authorizing,
             Concludes(i, {}, IF looks[i].table = "access" THEN "authorized"
                          ELSE "unauthorized")
      PROVE  \E m \in Look : /\ looks' = [looks EXCEPT ![i] = m]
                             /\ Known(i, m)' /\ Answered(i, m)'
  <2>1. {} \in SUBSET Scopes /\ {} \subseteq tok.scopes
    OBVIOUS
  <2>2. CASE looks[i].table = "access"
    <3>1. "authorized" \in Steps /\ "authorized" \notin Unanswered
      BY DEF Steps, Unanswered
    <3>2. Concludes(i, {}, "authorized")
      BY <1>5, <2>2
    <3>3. QED
      BY <1>3, <1>5, <2>1, <2>2, <3>1, <3>2
  <2>3. CASE looks[i].table # "access"
    <3>1. "unauthorized" \in Steps /\ "unauthorized" \notin Unanswered
      BY DEF Steps, Unanswered
    <3>2. Concludes(i, {}, "unauthorized") /\ looks[i].table = "refresh"
      BY <1>1, <1>5, <2>3 DEF Look
    <3>3. QED
      BY <1>3, <1>5, <2>1, <3>1, <3>2
  <2>4. QED
    BY <2>2, <2>3
<1>6. QED
  BY <1>2, <1>4, <1>5, ReadRotatedSecretsCases

LEMMA InspectionGoes ==
    ASSUME AllInv, ValidityTypeOK, LooksInv, InspectionStep, [ValidityNext]_allVars
    PROVE  \E i \in Inspections : \E m \in Look \union {None} :
              /\ looks' = [looks EXCEPT ![i] = m]
              /\ m # None => Known(i, m)' /\ Answered(i, m)'
<1>1. Still
  BY InspectionStill
<1>2. PICK i \in Inspections :
         \/ \E tok \in Token : Inspect(i, tok)
         \/ LookUp(i) \/ CheckExpiry(i)
         \/ ReadGlobalSecret(i) \/ ReadRotatedSecrets(i)
         \/ WriteIntrospectionResponse(i)
  BY DEF InspectionStep
<1>3. CASE WriteIntrospectionResponse(i)
  BY <1>3 DEF WriteIntrospectionResponse
<1>4. CASE ~WriteIntrospectionResponse(i)
  BY <1>1, <1>2, <1>4, InspectGoes, LookUpGoes, CheckExpiryGoes,
     ReadGlobalSecretGoes, ReadRotatedSecretsGoes
<1>5. QED
  BY <1>3, <1>4

LEMMA LooksStay ==
    ASSUME [ValidityNext]_allVars, ~InspectionStep
    PROVE  looks' = looks
BY DEF ValidityNext, TokenStep, RotateSecret, RetireSecret, Tick, allVars, validityVars

\* What the introspections know stays true.
LEMMA LooksStep ==
    ASSUME AllInv, ValidityTypeOK, MintedInv, PhasesInv, ExpiryInv, LooksInv,
           [ValidityNext]_allVars
    PROVE  LooksInv' /\ looks' \in [Inspections -> Look \union {None}]
<1>1. looks \in [Inspections -> Look \union {None}]
  BY DEF ValidityTypeOK
<1>2. ASSUME NEW j \in Inspections, NEW l \in Look, looks'[j] = l, looks[j] = l
      PROVE  Known(j, l)' /\ Answered(j, l)'
  BY <1>2, LookKept
<1>3. CASE InspectionStep
  <2>1. PICK i \in Inspections, m \in Look \union {None} :
           /\ looks' = [looks EXCEPT ![i] = m]
           /\ m # None => Known(i, m)' /\ Answered(i, m)'
    BY <1>3, InspectionGoes
  <2>2. ASSUME NEW j \in Inspections, NEW l \in Look, looks'[j] = l
        PROVE  Known(j, l)' /\ Answered(j, l)'
    <3>1. CASE j = i
      <4>1. l = m /\ m # None
        BY <1>1, <2>1, <2>2, <3>1, NoMintingAssumption
      <4>2. QED
        BY <2>1, <3>1, <4>1
    <3>2. CASE j # i
      <4>1. looks[j] = l
        BY <1>1, <2>1, <2>2, <3>2
      <4>2. QED
        BY <1>2, <2>2, <4>1
    <3>3. QED
      BY <3>1, <3>2
  <2>3. QED
    BY <1>1, <2>1, <2>2 DEF LooksInv
<1>4. CASE ~InspectionStep
  BY <1>1, <1>2, <1>4, LooksStay DEF LooksInv
<1>5. QED
  BY <1>3, <1>4

-----------------------------------------------------------------------------
(* The inductive invariant, and what follows from it.                      *)

LEMMA ValidityInitially == ValidityInit => ValidityInv
<1> SUFFICES ASSUME ValidityInit PROVE ValidityInv
  OBVIOUS
<1>1. Init
  BY DEF ValidityInit
<1>2. AllInv
  BY <1>1, TypeInit, GrantInit, FreshInit, SerialInit DEF AllInv
<1>3. ValidityTypeOK
  <2>1. /\ StartTime \in Nat /\ NoExpiries \in [TokenKinds -> Int]
    BY TimeAssumption DEF NoExpiries
  <2>2. TypeOK
    BY <1>2 DEF AllInv, TypeInv
  <2>3. QED
    BY <2>1, <2>2 DEF ValidityInit, ValidityTypeOK
<1>4. /\ \A a \in AuthReqs : authorizeCodes[a] = None
      /\ \A s \in AccessSignatures : accessTokens[s] = None
      /\ \A k \in Calls : pc[k] = "idle" /\ refreshTokens[k] = None
      /\ \A t \in AnyToken : minted[t] = None
      /\ \A o \in Objects : expiresAt[o] = NoExpiries
  BY <1>1 DEF Init, StoreInit, ValidityInit
<1>5. MintedInv
  <2>1. ASSUME NEW s \in AccessSignatures
        PROVE  /\ minted[Code(s)] = None /\ minted[Access(s)] = None
               /\ minted[Refresh(s)] = None
    BY <1>4, TokensDiffer
  <2>2. AuthReqs \subseteq AccessSignatures /\ Calls \subseteq AccessSignatures
    BY DEF AccessSignatures
  <2>3. ASSUME NEW a \in AuthReqs PROVE CodeMinted(a)
    BY <1>4, <2>1, <2>2 DEF CodeMinted
  <2>4. ASSUME NEW k \in Calls PROVE CallMinted(k)
    BY <1>4, <2>1, <2>2 DEF CallMinted, AccessStored, RefreshStored
  <2>5. QED
    BY <2>3, <2>4 DEF MintedInv
<1>6. PhasesInv
  BY <1>4 DEF ValidityInit, PhasesInv, Generated, Populated
<1>7. ExpiryInv
  BY <1>4 DEF ValidityInit, ExpiryInv, SessionWithin, CloneWithin, Objects,
              Refreshing, Rotating
<1>8. IssuedNotExtended
  BY DEF ValidityInit, IssuedNotExtended
<1>9. LooksInv
  BY NoMintingAssumption DEF ValidityInit, LooksInv
<1>10. QED
  BY <1>2, <1>3, <1>5, <1>6, <1>7, <1>8, <1>9 DEF ValidityInv

LEMMA ValidityStep == ValidityInv /\ [ValidityNext]_allVars => ValidityInv'
<1> SUFFICES ASSUME ValidityInv, [ValidityNext]_allVars PROVE ValidityInv'
  OBVIOUS
<1>0. /\ AllInv /\ ValidityTypeOK /\ MintedInv /\ PhasesInv /\ ExpiryInv
      /\ IssuedNotExtended /\ LooksInv
  BY DEF ValidityInv
<1>1. AllInv'
  BY <1>0, LifecycleStep
<1>2. LooksInv' /\ looks' \in [Inspections -> Look \union {None}]
  BY <1>0, LooksStep
<1>3. MintedInv' /\ PhasesInv' /\ IssuedNotExtended'
  BY <1>0, MintedStep, PhasesStep, IssuedStep
<1>4. ExpiryInv'
  <2>1. (\A a \in AuthReqs : SessionWithin(a))' /\ (\A k \in Calls : CloneWithin(k))'
    BY <1>0, ExpiryInvStep
  <2>2. \A tok \in extended' : minted'[tok] # None
    BY <1>0, ExtendedMinted
  <2>3. QED
    BY <2>1, <2>2 DEF ExpiryInv
<1>5. ValidityTypeOK'
  <2>1. TypeOK'
    BY <1>1 DEF AllInv, TypeInv
  <2>2. now' \in Nat /\ now' >= StartTime
    BY <1>0, ClockStep, TimeAssumption DEF ValidityTypeOK
  <2>3. /\ expiresAt' \in [Objects -> [TokenKinds -> Int]]
        /\ minted' \in [AnyToken -> Minting \union {None}]
        /\ keyOf' \in [Calls -> Secrets \union {None}]
        /\ ready' \subseteq Calls
        /\ extended' \subseteq AnyToken
    BY <1>0, SessionTypes
  <2>4. global' \in Secrets /\ rotated' \subseteq Secrets
    BY <1>0, KeysStep
  <2>5. wasValid' \subseteq Inspections /\ wasInvalid' \subseteq Inspections
    <3>1. CASE Observe
      BY <3>1 DEF Observe
    <3>2. CASE UNCHANGED allVars
      BY <1>0, <3>2 DEF allVars, observed, ValidityTypeOK
    <3>3. QED
      BY <3>1, <3>2 DEF ValidityNext
  <2>6. QED
    BY <1>2, <2>1, <2>2, <2>3, <2>4, <2>5 DEF ValidityTypeOK
<1>6. QED
  BY <1>1, <1>2, <1>3, <1>4, <1>5 DEF ValidityInv

\* ValidityInv is an inductive invariant of the specification.
THEOREM ValidityInvariant == ValiditySpec => []ValidityInv
<1> QED
  BY ValidityInitially, ValidityStep, PTL DEF ValiditySpec

\* The sessions, the tokens and the introspections stay well-typed.
THEOREM ValidityTypes == ValiditySpec => []ValidityTypeOK
<1>1. ValidityInv => ValidityTypeOK
  BY DEF ValidityInv
<1> QED
  BY <1>1, ValidityInvariant, PTL

\* What holds of the answers of the introspection endpoint.
LEMMA AnswersAreTrue ==
    ASSUME ValidityInv
    PROVE  ActiveWasValid /\ InactiveWasInvalid
<1>1. ValidityTypeOK /\ LooksInv
  BY DEF ValidityInv
<1>2. ASSUME NEW i \in Inspections, looks[i] # None
      PROVE  Answered(i, looks[i])
  <2>1. looks[i] \in Look
    BY <1>1, <1>2 DEF ValidityTypeOK
  <2>2. QED
    BY <1>1, <2>1 DEF LooksInv
<1>3. ActiveWasValid
  BY <1>2 DEF ActiveWasValid, Looking, Answered
<1>4. InactiveWasInvalid
  BY <1>2 DEF InactiveWasInvalid, Looking, Answered
<1>5. QED
  BY <1>3, <1>4

\* The endpoint says "active" only of a token that was good at one moment of
\* the call, whatever moved between its four looks (introspectAccessToken,
\* introspectRefreshToken).
THEOREM ActiveTokensWereValid == ValiditySpec => []ActiveWasValid
<1>1. ValidityInv => ActiveWasValid
  BY AnswersAreTrue
<1> QED
  BY <1>1, ValidityInvariant, PTL

\* The endpoint says "inactive" only of a token that was not good at some
\* moment of the call: no secret is missed while it is rotated, no token is
\* hidden by the hint (HMACStrategy.Validate, CoreValidator.IntrospectToken).
THEOREM InactiveTokensWereInvalid == ValiditySpec => []InactiveWasInvalid
<1>1. ValidityInv => InactiveWasInvalid
  BY AnswersAreTrue
<1> QED
  BY <1>1, ValidityInvariant, PTL

\* A live token that the token endpoint issued keeps the expiry it was stored
\* with, although sessions are shared, as long as no two calls for its request
\* overlap.
THEOREM IssuedTokensNotExtended == ValiditySpec => []IssuedNotExtended
<1>1. ValidityInv => IssuedNotExtended
  BY DEF ValidityInv
<1> QED
  BY <1>1, ValidityInvariant, PTL

-----------------------------------------------------------------------------
(* No token is stored that lives longer than was configured.               *)

\* The token is new, and the times of its session are those of its client c.
StoredWithin(tok, c) ==
    LET e == ExpiryOf(tok)' IN
    /\ Within(e, c, tok.kind)
    /\ e = 0 => tok.kind = "refresh" /\ Endless(c)

\* The client whose lifespans decide.
ClientOf(tok) ==
    authorizeCodes'[IF tok.sig \in Calls THEN reqs[tok.sig].id ELSE tok.sig].req.client

LEMMA IssueStoredWithin ==
    ASSUME ValidityTypeOK, NEW a \in AuthReqs, NEW c \in Clients, NEW g \in SUBSET Scopes,
           NEW e, IssueStep(a, c, g, e),
           NEW tok \in Token, minted[tok] = None, minted'[tok] # None
    PROVE  StoredWithin(tok, ClientOf(tok))
<1>1. /\ tok \in AnyToken /\ a \in Objects /\ a \notin Calls
      /\ expiresAt \in [Objects -> [TokenKinds -> Int]]
  BY NamesAssumption DEF Token, AnyToken, TokenKinds, Objects, ValidityTypeOK
<1>2. tok \in {Code(a), Access(a)}
  BY <1>1 DEF IssueStep
<1>3. tok = Access(a) /\ tok.kind = "access" /\ tok.sig = a
  BY <1>2 DEF Token, Code, Access
<1>4. /\ minted'[tok] = [secret |-> global, session |-> a, scopes |-> g]
      /\ e["access"] > 0 /\ Within(e["access"], c, "access")
  BY <1>3 DEF IssueStep
<1>5. ExpiryOf(tok)' = e["access"] /\ e["access"] \in Int
  BY <1>1, <1>3, <1>4 DEF ExpiryOf, IssueStep, TokenKinds
<1>6. ClientOf(tok) = c
  BY <1>1, <1>3 DEF ClientOf, IssueStep
<1>7. QED
  BY <1>3, <1>4, <1>5, <1>6 DEF StoredWithin

LEMMA CallStoredWithin ==
    ASSUME AllInv, ValidityTypeOK, MintedInv, PhasesInv, ExpiryInv,
           NEW k \in Calls, StoreExchanged(k) \/ StoreRefreshed(k),
           NEW tok \in Token, minted[tok] = None, minted'[tok] # None
    PROVE  StoredWithin(tok, ClientOf(tok))
<1> DEFINE a == reqs[k].id
           c == authorizeCodes[a].req.client
<1>1. /\ tok \in AnyToken
      /\ minted \in [AnyToken -> Minting \union {None}]
      /\ expiresAt \in [Objects -> [TokenKinds -> Int]]
      /\ TypeInv
  BY DEF Token, AnyToken, TokenKinds, ValidityTypeOK, AllInv
<1>2. PICK new, o : /\ Stores(k, new, o) /\ new \in {Access(k), Refresh(k)}
                    /\ \/ o = a /\ StoreExchanged(k)
                       \/ o = k /\ StoreRefreshed(k)
  BY StoreExchangedStores, StoreRefreshedStores
<1>3. new = tok
  BY <1>1, <1>2 DEF Stores
<1>4. /\ tok.sig = k /\ tok.kind \in {"access", "refresh"}
      /\ minted'[tok].session = o
      /\ expiresAt' = expiresAt /\ authorizeCodes' = authorizeCodes
  BY <1>1, <1>2, <1>3 DEF Access, Refresh, Stores
<1>5. ClientOf(tok) = c /\ ExpiryOf(tok)' = expiresAt[o][tok.kind]
  BY <1>4 DEF ClientOf, ExpiryOf
<1>6. CASE o = a /\ StoreExchanged(k)
  <2>1. a \in AuthReqs /\ authorizeCodes[a] # None
    BY <1>6, StoreExchangedStores
  <2>2. pc[k] \in Populated
    BY <1>6 DEF StoreExchanged, ExchangeCreateAccess, ExchangeCreateRefresh, Populated
  <2>3. k \in ready
    BY <2>2 DEF PhasesInv
  <2>4. /\ \A kind \in {"access", "refresh"} : Within(expiresAt[a][kind], c, kind)
        /\ expiresAt[a]["access"] > 0
        /\ expiresAt[a]["refresh"] = 0 => Endless(c)
    BY <2>1, <2>3 DEF ExpiryInv, SessionWithin
  <2>5. expiresAt[a]["access"] # 0
    BY <1>1, <2>1, <2>4 DEF Objects, TokenKinds
  <2> HIDE DEF c
  <2>6. QED
    BY <1>4, <1>5, <1>6, <2>4, <2>5 DEF StoredWithin
<1>7. CASE o = k /\ StoreRefreshed(k)
  <2>1. pc[k] \in Refreshing
    BY <1>7 DEF StoreRefreshed, RefreshCreateAccess, RefreshCreateRefresh, Refreshing,
                Rotating
  <2>2. /\ \A kind \in {"access", "refresh"} : Within(expiresAt[k][kind], c, kind)
        /\ expiresAt[k]["access"] > 0
        /\ expiresAt[k]["refresh"] = 0 => Endless(c)
    BY <2>1 DEF ExpiryInv, CloneWithin
  <2>3. expiresAt[k]["access"] # 0
    BY <1>1, <2>2 DEF Objects, TokenKinds
  <2> HIDE DEF c, a
  <2>4. QED
    BY <1>4, <1>5, <1>7, <2>2, <2>3 DEF StoredWithin
<1>8. QED
  BY <1>2, <1>6, <1>7

LEMMA StepStoresWithin ==
    ASSUME ValidityInv, [ValidityNext]_allVars,
           NEW tok \in Token, minted[tok] = None, minted'[tok] # None
    PROVE  StoredWithin(tok, ClientOf(tok))
<1>0. /\ AllInv /\ ValidityTypeOK /\ MintedInv /\ PhasesInv /\ ExpiryInv /\ TypeInv
  BY DEF ValidityInv, AllInv
<1>1. ASSUME NEW a \in AuthReqs, NEW c \in Clients, NEW g \in SUBSET Scopes,
             NEW type \in ResponseTypes, Issue(a, c, g, type)
      PROVE  StoredWithin(tok, ClientOf(tok))
  BY <1>0, <1>1, IssueSteps, IssueStoredWithin
<1>2. ~Quiet
  BY DEF Quiet
<1>3. QED
  BY <1>0, <1>1, <1>2, CallStoredWithin, QuietOrNot

\* Every token is stored with an expiry within the lifespans configured for
\* its client, counted from the moment it is stored, and only a refresh token
\* without one, if its lifespan is negative (SetExpiresAt in the handlers of
\* the three grants, GetEffectiveLifespan).
THEOREM TokensExpireWithinLifespan == ValiditySpec => ExpiresWithinLifespan
<1> DEFINE Stored(tok) ==
        LET e == ExpiryOf(tok)' IN
        minted[tok] = None /\ minted'[tok] # None =>
           LET id == IF tok.sig \in Calls THEN reqs[tok.sig].id ELSE tok.sig
               c == authorizeCodes'[id].req.client IN
           /\ e <= now + LongestLifespan(c, tok.kind) + Second \div 2
           /\ e = 0 => /\ tok.kind = "refresh"
                       /\ GetEffectiveLifespan(c, "authorization_code", "refresh") < 0
<1>1. ASSUME ValidityInv, [ValidityNext]_allVars, NEW tok \in Token
      PROVE  Stored(tok)
  <2>1. CASE minted[tok] = None /\ minted'[tok] # None
    <3>1. StoredWithin(tok, ClientOf(tok))
      BY <1>1, <2>1, StepStoresWithin
    <3>2. QED
      BY <3>1 DEF StoredWithin, ClientOf, Within, Endless
  <2>2. QED
    BY <2>1
<1>2. ValidityInv /\ [ValidityNext]_allVars => [\A tok \in Token : Stored(tok)]_allVars
  BY <1>1
<1> QED
  BY <1>2, ValidityInvariant, PTL DEF ValiditySpec, ExpiresWithinLifespan
=============================================================================
