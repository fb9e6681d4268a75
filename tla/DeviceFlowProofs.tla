-------------------------- MODULE DeviceFlowProofs --------------------------
(***************************************************************************)
(* Proofs about DeviceFlow, for every set of devices, user codes, calls,   *)
(* clients and scopes, and for both kinds of store.  Calls that refresh or *)
(* revoke are steps of TokenLifecycle, and what those do to the types and  *)
(* tables is proved there.                                                 *)
(***************************************************************************)
EXTENDS DeviceFlow, TokenLifecycleProofs

-----------------------------------------------------------------------------
(* The inductive invariant.                                                *)

\* A request that may have tokens: accepted as it stands, and its code consumed.
Granted(req) == Approved(req) /\ deviceCodes[req.id] # "active"

TokensGranted ==
    /\ \A s \in AccessSignatures : accessTokens[s] # None => Granted(accessTokens[s])
    /\ \A t \in Calls : refreshTokens[t] # None => Granted(refreshTokens[t].req)

\* A device request is stored with its codes, and a user code leads to one.
DeviceOf(d) ==
    /\ devices[d] = None <=> shown[d] = None
    /\ devices[d] = None => deviceCodes[d] = "absent"
    /\ shown[d] # None => userCodes[shown[d]] \in AuthReqs

\* What a call may rely on at each stage.
StageOf(k) ==
    /\ pc[k] # "idle" <=> stage[k] = "core"
    /\ stage[k] = "core" => Granted(reqs[k])
    /\ stage[k] \in {"none", "replay_at", "replay_rt", "replayed"} => reqs[k] = None
    /\ stage[k] \in DeviceRunning =>
          /\ reqs[k] \in Requester
          /\ devices[reqs[k].id] # None
          /\ devices[reqs[k].id].state = "accepted"
          /\ reqs[k].client = devices[reqs[k].id].client
          /\ stage[k] # "populate" => Approved(reqs[k])
    /\ DeviceRedeeming(k) => reqs[k] \in Requester /\ Granted(reqs[k])
    /\ stage[k] = "oidc_issue" => openid \in devices[reqs[k].id].granted

IDTokenOf(k) ==
    idTokens[k] # None =>
        /\ stage[k] = "done" /\ reqs[k] # None
        /\ idTokens[k] = reqs[k]
        /\ openid \in idTokens[k].scopes

DeviceInv ==
    /\ TypeInv /\ DeviceTypeOK
    /\ \A a \in AuthReqs : authorizeCodes[a] = None
    /\ \A u \in UserCodes : userCodes[u] # None => devices[userCodes[u]] # None
    /\ TokensGranted
    /\ \A d \in AuthReqs : DeviceOf(d)
    /\ \A k \in Calls : StageOf(k) /\ IDTokenOf(k)

\* At the start there are no devices, no tokens and no calls.
LEMMA DeviceInitInv == DeviceInit => DeviceInv
<1> SUFFICES ASSUME DeviceInit PROVE DeviceInv
  OBVIOUS
<1>1. TypeInv
  BY TypeInit DEF DeviceInit
<1>2. DeviceTypeOK
  BY <1>1 DEF DeviceInit, DeviceTypeOK, Stages, TypeInv, MaxAttempts
<1> QED
  BY <1>1, <1>2 DEF DeviceInit, Init, StoreInit, DeviceInv, TokensGranted, DeviceOf,
                    StageOf, IDTokenOf, DeviceRunning, DeviceRedeeming

-----------------------------------------------------------------------------
(* What no step undoes.                                                    *)

\* A stored request stays, once accepted as it was, and a consumed code stays
\* consumed.
DeviceKept(d) ==
    devices[d] # None =>
        /\ devices'[d] # None
        /\ devices'[d].client = devices[d].client
        /\ devices[d].state = "accepted" =>
              /\ devices'[d].state = "accepted"
              /\ devices'[d].granted = devices[d].granted
        /\ deviceCodes[d] # "active" => deviceCodes'[d] # "active"

\* What was granted stays granted.
LEMMA GrantedKept ==
    ASSUME NEW req, req.id \in AuthReqs, DeviceKept(req.id)
    PROVE  /\ Approved(req) => /\ devices'[req.id] # None
                               /\ devices'[req.id].state = "accepted"
                               /\ req.client = devices'[req.id].client
                               /\ req.scopes = devices'[req.id].granted
           /\ Granted(req) => deviceCodes'[req.id] # "active"
BY DEF Granted, Approved, DeviceKept

\* A call that stands still keeps what it relies on.
LEMMA StageKept ==
    ASSUME DeviceInv, NEW k \in Calls, \A d \in AuthReqs : DeviceKept(d),
           stage'[k] = stage[k], reqs'[k] = reqs[k], pc'[k] = pc[k],
           idTokens'[k] = idTokens[k]
    PROVE  StageOf(k)' /\ IDTokenOf(k)'
<1>1. StageOf(k) /\ IDTokenOf(k) /\ (pc[k] # "idle" => reqs[k] \in Requester)
  BY DEF DeviceInv, TypeInv, CallsOK
<1>2. CASE reqs[k] \in Requester
  <2>1. reqs[k].id \in AuthReqs
    BY <1>2 DEF Requester
  <2>2. Granted(reqs[k]) => Granted(reqs[k])'
    BY <2>1 DEF Granted, Approved, DeviceKept
  <2>3. Approved(reqs[k]) => Approved(reqs[k])'
    BY <2>1 DEF Approved, DeviceKept
  <2> QED
    BY <1>1, <2>1, <2>2, <2>3
       DEF StageOf, IDTokenOf, DeviceRedeeming, DeviceRunning, DeviceKept
<1>3. CASE reqs[k] \notin Requester
  BY <1>1, <1>3 DEF StageOf, IDTokenOf, DeviceRedeeming, DeviceRunning
<1> QED
  BY <1>2, <1>3

\* Tokens stay granted if the new ones are.
LEMMA TokensKept ==
    ASSUME DeviceInv, \A d \in AuthReqs : DeviceKept(d),
           \A s \in AccessSignatures :
              \/ accessTokens'[s] \in {accessTokens[s], None}
              \/ accessTokens'[s].id \in AuthReqs /\ Granted(accessTokens'[s]),
           \A t \in Calls :
              \/ refreshTokens'[t] \in {refreshTokens[t], None}
              \/ refreshTokens[t] # None /\ refreshTokens'[t].req = refreshTokens[t].req
              \/ refreshTokens'[t].req.id \in AuthReqs /\ Granted(refreshTokens'[t].req)
    PROVE  TokensGranted'
<1>1. ASSUME NEW s \in AccessSignatures, accessTokens'[s] # None
      PROVE  Granted(accessTokens[s])'
  <2>1. accessTokens'[s].id \in AuthReqs /\ Granted(accessTokens'[s])
    BY <1>1 DEF DeviceInv, TypeInv, TypeOK, StoreTypeOK, Requester, TokensGranted
  <2> QED
    BY <2>1 DEF Granted, Approved, DeviceKept
<1>2. ASSUME NEW t \in Calls, refreshTokens'[t] # None
      PROVE  Granted(refreshTokens[t].req)'
  <2>1. refreshTokens[t] # None =>
           refreshTokens[t].req.id \in AuthReqs /\ Granted(refreshTokens[t].req)
    BY DEF DeviceInv, TypeInv, TypeOK, StoreTypeOK, RefreshSession, Requester, TokensGranted
  <2>2. refreshTokens'[t].req.id \in AuthReqs /\ Granted(refreshTokens'[t].req)
    BY <1>2, <2>1
  <2> QED
    BY <2>2 DEF Granted, Approved, DeviceKept
<1> QED
  BY <1>1, <1>2 DEF TokensGranted
-----------------------------------------------------------------------------
(* The steps of a call.                                                    *)

\* The calls other than k stand still.
OnlyMoves(k) ==
    \A j \in Calls : j # k =>
        /\ stage'[j] = stage[j] /\ reqs'[j] = reqs[j] /\ pc'[j] = pc[j]
        /\ idTokens'[j] = idTokens[j]

\* What is left to show of the step of a call.
LEMMA CallStep ==
    ASSUME DeviceInv, NEW k \in Calls, OnlyMoves(k), TypeInv', DeviceTypeOK',
           TokensGranted', StageOf(k)', IDTokenOf(k)', UNCHANGED authorizeCodes,
           UNCHANGED <<devices, userCodes, shown, consent>>,
           \A d \in AuthReqs :
              \/ deviceCodes'[d] = deviceCodes[d]
              \/ devices[d] # None /\ deviceCodes'[d] # "active"
    PROVE  DeviceInv'
<1>1. \A d \in AuthReqs : DeviceKept(d)
  BY DEF DeviceKept
<1>2. \A j \in Calls : StageOf(j)' /\ IDTokenOf(j)'
  <2> SUFFICES ASSUME NEW j \in Calls, j # k PROVE StageOf(j)' /\ IDTokenOf(j)'
    OBVIOUS
  <2> QED
    BY <1>1, StageKept DEF OnlyMoves
<1>3. \A d \in AuthReqs : DeviceOf(d)'
  BY DEF DeviceInv, DeviceOf
<1> QED
  BY <1>2, <1>3 DEF DeviceInv

\* The tables of TokenStore stand still, and call k may take up a request.
LEMMA TypesKept ==
    ASSUME DeviceInv, NEW k \in Calls, pc[k] = "idle",
           UNCHANGED <<storeVars, pc, presented, raced, ended>>,
           \/ UNCHANGED reqs
           \/ \E req \in Requester : reqs' = [reqs EXCEPT ![k] = req]
    PROVE  TypeInv'
BY DEF DeviceInv, TypeInv, TypeOK, StoreTypeOK, CallsOK, storeVars, accessVars, refreshVars

\* Only the access token tables move.
LEMMA TypesAccess ==
    ASSUME DeviceInv, accessTokens' \in [AccessSignatures -> Requester \union {None}],
           accessTokenRequestIDs' \in [AuthReqs -> AccessSignatures \union {None}],
           UNCHANGED <<authorizeCodes, refreshVars, callVars, raced, ended>>
    PROVE  TypeInv'
BY DEF DeviceInv, TypeInv, TypeOK, StoreTypeOK, CallsOK, callVars, refreshVars

\* Only the refresh token tables move.
LEMMA TypesRefresh ==
    ASSUME DeviceInv, refreshTokens' \in [Calls -> RefreshSession \union {None}],
           refreshTokenRequestIDs' \in [AuthReqs -> Calls \union {None}],
           UNCHANGED <<authorizeCodes, accessVars, callVars, raced, ended>>
    PROVE  TypeInv'
BY DEF DeviceInv, TypeInv, TypeOK, StoreTypeOK, CallsOK, callVars, accessVars

\* A poll relies on what it has just read.
LEMMA PollKeeps ==
    ASSUME DeviceInv, NEW k \in Calls, NEW d \in AuthReqs, NEW c \in Clients,
           Poll(k, d, c)
    PROVE  DeviceInv'
<1>1. /\ stage[k] = "none" /\ pc[k] = "idle" /\ reqs[k] = None
      /\ devices[d] \in DeviceRequest \union {None}
      /\ deviceCodes[d] = "active" => devices[d] # None
  BY DEF Poll, DeviceInv, StageOf, DeviceTypeOK, DeviceOf
<1> DEFINE req == [id |-> d, client |-> c, scopes |-> {}]
<1>2. req \in Requester
  BY DEF Requester
<1>3. TypeInv'
  BY <1>1, <1>2, TypesKept DEF Poll
<1>4. DeviceTypeOK'
  BY <1>3 DEF Poll, Enter, Stages, DeviceRunning, DeviceInv, DeviceTypeOK, TypeInv, requestVars
<1>5. TokensGranted' /\ OnlyMoves(k)
  BY <1>1, <1>2 DEF Poll, Enter, DeviceInv, TokensGranted, Granted, Approved, storeVars,
                    accessVars, refreshVars, requestVars, OnlyMoves, DeviceTypeOK, TypeOK
<1>6. idTokens[k] = None
  BY <1>1 DEF DeviceInv, IDTokenOf
<1>7. StageOf(k)' /\ IDTokenOf(k)'
  <2>1. CASE GetDeviceCodeError(d) = "ErrInvalidatedDeviceCode" /\ Enter(k, "replay_at")
                /\ UNCHANGED reqs
    BY <1>1, <1>6, <2>1 DEF Poll, Enter, DeviceInv, DeviceTypeOK, StageOf, IDTokenOf,
                            DeviceRunning, DeviceRedeeming
  <2>2. CASE DeviceReady(d) /\ devices[d].client = c /\ Enter(k, "populate")
                /\ reqs' = [reqs EXCEPT ![k] = req]
    <3>1. reqs'[k] = req /\ stage'[k] = "populate" /\ pc'[k] = "idle"
      BY <1>1, <2>2 DEF Poll, Enter, DeviceInv, DeviceTypeOK, TypeOK
    <3>2. devices[d] # None /\ devices[d].state = "accepted"
      BY <1>1, <2>2 DEF DeviceReady, GetDeviceCodeError, DeviceInv, DeviceTypeOK
    <3> QED
      BY <1>2, <1>6, <2>2, <3>1, <3>2
         DEF Poll, StageOf, IDTokenOf, DeviceRunning, DeviceRedeeming, requestVars
  <2> QED
    BY <2>1, <2>2 DEF Poll
<1> QED
  BY <1>3, <1>4, <1>5, <1>7, CallStep DEF Poll, requestVars, storeVars

\* The steps of the replay branch do nothing.
LEMMA ReplayKeeps ==
    ASSUME DeviceInv, NEW k \in Calls, DeviceReplayAccess(k) \/ DeviceReplayRefresh(k)
    PROVE  DeviceInv'
<1>1. GetID(k) \notin AuthReqs /\ reqs[k] = None /\ stage[k] \in {"replay_at", "replay_rt"}
  BY NamesAssumption DEF DeviceReplayAccess, DeviceReplayRefresh, GetID, DeviceInv, StageOf
<1>2. /\ UNCHANGED <<storeVars, callVars, raced, ended, requestVars, idSessions, pollVars,
                     idTokens>>
      /\ Enter(k, "replay_rt") \/ Enter(k, "replayed")
  BY <1>1 DEF DeviceReplayAccess, DeviceReplayRefresh, storeVars
<1>3. TypeInv'
  BY <1>2 DEF DeviceInv, TypeInv, TypeOK, StoreTypeOK, CallsOK, storeVars, accessVars,
              refreshVars, callVars
<1>4. DeviceTypeOK'
  BY <1>2, <1>3 DEF Enter, Stages, DeviceInv, DeviceTypeOK, TypeInv, requestVars, pollVars
<1>5. TokensGranted' /\ OnlyMoves(k)
  BY <1>2 DEF Enter, DeviceInv, TokensGranted, Granted, Approved, storeVars, accessVars,
              refreshVars, callVars, requestVars, OnlyMoves, DeviceTypeOK
<1>6. StageOf(k)' /\ IDTokenOf(k)'
  BY <1>1, <1>2 DEF Enter, callVars, DeviceInv, DeviceTypeOK, StageOf, IDTokenOf,
                    DeviceRunning, DeviceRedeeming
<1> QED
  BY <1>2, <1>3, <1>4, <1>5, <1>6, CallStep DEF requestVars, storeVars
\* What a call in the second phase has at hand.
LEMMA RunningDevice ==
    ASSUME DeviceInv, NEW k \in Calls, stage[k] \in DeviceRunning
    PROVE  /\ pc[k] = "idle"
           /\ reqs[k] \in Requester /\ reqs[k].id \in AuthReqs
           /\ devices[reqs[k].id] \in DeviceRequest
           /\ devices[reqs[k].id] # None
           /\ stage[k] # "populate" => Approved(reqs[k])
BY DEF DeviceInv, DeviceTypeOK, StageOf, DeviceRunning, Requester

\* The second look at the request finds what the user granted.
LEMMA PopulateKeeps ==
    ASSUME DeviceInv, NEW k \in Calls, DevicePopulate(k)
    PROVE  DeviceInv'
<1> DEFINE d == reqs[k].id
           req == [reqs[k] EXCEPT !.scopes = devices[d].granted]
<1>1. /\ stage[k] = "populate" /\ pc[k] = "idle"
      /\ reqs[k] \in Requester /\ d \in AuthReqs /\ devices[d] \in DeviceRequest
      /\ devices[d] # None /\ devices[d].state = "accepted"
      /\ reqs[k].client = devices[d].client
  BY RunningDevice DEF DevicePopulate, DeviceRunning, DeviceInv, StageOf
<1>2. req \in Requester /\ Approved(req)
  BY <1>1 DEF Requester, DeviceRequest, Approved
<1>3. \/ UNCHANGED reqs /\ Enter(k, "error")
      \/ reqs' = [reqs EXCEPT ![k] = req] /\ Enter(k, "invalidate")
  BY DEF DevicePopulate
<1>4. TypeInv'
  BY <1>1, <1>2, <1>3, TypesKept DEF DevicePopulate
<1>5. DeviceTypeOK'
  BY <1>3, <1>4 DEF DevicePopulate, Enter, Stages, DeviceRunning, DeviceInv, DeviceTypeOK,
                    TypeInv, requestVars, pollVars
<1>6. TokensGranted' /\ OnlyMoves(k)
  BY <1>3 DEF DevicePopulate, Enter, DeviceInv, TokensGranted, Granted, Approved, storeVars,
              accessVars, refreshVars, requestVars, OnlyMoves, DeviceTypeOK, TypeOK
<1>7. idTokens[k] = None
  BY <1>1 DEF DeviceInv, IDTokenOf, DeviceRedeeming
<1>8. reqs'[k] \in {reqs[k], req} /\ (stage'[k] = "invalidate" => reqs'[k] = req)
      /\ stage'[k] \in {"error", "invalidate"}
  BY <1>1, <1>3 DEF Enter, DeviceInv, DeviceTypeOK, TypeOK
<1>9. StageOf(k)' /\ IDTokenOf(k)'
  BY <1>1, <1>2, <1>7, <1>8 DEF DevicePopulate, StageOf, IDTokenOf, DeviceRunning,
                                DeviceRedeeming, requestVars, Approved
<1> QED
  BY <1>4, <1>5, <1>6, <1>9, CallStep DEF DevicePopulate, requestVars, storeVars

\* The code is consumed before anything is stored.
LEMMA InvalidateKeeps ==
    ASSUME DeviceInv, NEW k \in Calls, DeviceInvalidate(k)
    PROVE  DeviceInv'
<1> DEFINE d == reqs[k].id
<1>1. /\ stage[k] = "invalidate" /\ pc[k] = "idle"
      /\ reqs[k] \in Requester /\ d \in AuthReqs /\ devices[d] # None
      /\ Approved(reqs[k])
  BY RunningDevice DEF DeviceInvalidate, DeviceRunning
<1>2. /\ deviceCodes' \in [AuthReqs -> {"absent", "active", "invalidated"}]
      /\ deviceCodes'[d] # "active"
      /\ \A e \in AuthReqs : e # d => deviceCodes'[e] = deviceCodes[e]
      /\ UNCHANGED <<vars, devices, userCodes, attempts, shown, consent, idSessions,
                     pollVars, idTokens>>
      /\ Enter(k, "create_at")
  BY <1>1 DEF DeviceInvalidate, InvalidateDeviceCodeSession, DeviceInv, DeviceTypeOK
<1>3. TypeInv'
  BY <1>2 DEF DeviceInv, TypeInv, TypeOK, StoreTypeOK, CallsOK, vars, storeVars, accessVars,
              refreshVars, callVars
<1>4. DeviceTypeOK'
  BY <1>2, <1>3 DEF Enter, Stages, DeviceRunning, DeviceInv, DeviceTypeOK, TypeInv, pollVars
<1>5. \A e \in AuthReqs : DeviceKept(e)
  BY <1>1, <1>2 DEF DeviceKept
<1>6. TokensGranted' /\ OnlyMoves(k)
  BY <1>2, <1>5, TokensKept DEF Enter, OnlyMoves, vars, storeVars, accessVars, refreshVars,
                                callVars, DeviceInv, DeviceTypeOK
<1>7. StageOf(k)' /\ IDTokenOf(k)'
  <2>1. stage'[k] = "create_at" /\ reqs'[k] = reqs[k] /\ pc'[k] = "idle"
        /\ idTokens'[k] = None
    BY <1>1, <1>2 DEF Enter, DeviceInv, DeviceTypeOK, IDTokenOf, DeviceRedeeming, vars,
                      callVars
  <2> QED
    BY <1>1, <1>2, <2>1 DEF StageOf, IDTokenOf, DeviceRunning, DeviceRedeeming, Granted,
                            Approved
<1> QED
  BY <1>1, <1>2, <1>3, <1>4, <1>6, <1>7, CallStep DEF vars, storeVars

\* The tokens that are stored are granted.
LEMMA CreateKeeps ==
    ASSUME DeviceInv, NEW k \in Calls, DeviceCreateAccess(k) \/ DeviceCreateRefresh(k)
    PROVE  DeviceInv'
<1>1. /\ stage[k] \in {"create_at", "create_rt"} /\ pc[k] = "idle"
      /\ reqs[k] \in Requester /\ reqs[k].id \in AuthReqs
      /\ Granted(reqs[k])
  <2>1. stage[k] \in {"create_at", "create_rt"}
    BY DEF DeviceCreateAccess, DeviceCreateRefresh
  <2>2. reqs[k] \in Requester /\ pc[k] = "idle" /\ reqs[k].id \in AuthReqs
    BY <2>1, RunningDevice DEF DeviceRunning
  <2> QED
    BY <2>1, <2>2, NoneAssumption DEF DeviceInv, StageOf, DeviceRedeeming
<1>2. /\ UNCHANGED <<authorizeCodes, callVars, raced, ended, requestVars, idSessions,
                     pollVars, idTokens>>
      /\ Enter(k, "create_rt") \/ Enter(k, "oidc_get")
  BY DEF DeviceCreateAccess, DeviceCreateRefresh
<1>3. TypeInv' /\ TokensGranted'
  <2>1. \A e \in AuthReqs : DeviceKept(e)
    BY <1>2 DEF DeviceKept, requestVars
  <2>2. StoreTypeOK /\ k \in AccessSignatures
    BY DEF DeviceInv, TypeInv, TypeOK, AccessSignatures
  <2>3. CASE DeviceCreateAccess(k)
    <3>1. TypeInv'
      BY <1>1, <1>2, <2>2, <2>3, CreateAccessTokenType, TypesAccess DEF DeviceCreateAccess
    <3>2. TokensGranted'
      BY <1>1, <2>1, <2>2, <2>3, TokensKept
         DEF DeviceCreateAccess, CreateAccessTokenSession, StoreTypeOK, refreshVars
    <3> QED
      BY <3>1, <3>2
  <2>4. CASE DeviceCreateRefresh(k)
    <3>1. TypeInv'
      BY <1>1, <1>2, <2>2, <2>4, CreateRefreshTokenType, TypesRefresh DEF DeviceCreateRefresh
    <3>2. TokensGranted'
      BY <1>1, <2>1, <2>2, <2>4, TokensKept
         DEF DeviceCreateRefresh, CreateRefreshTokenSession, StoreTypeOK, accessVars
    <3> QED
      BY <3>1, <3>2
  <2> QED
    BY <2>3, <2>4
<1>4. DeviceTypeOK' /\ OnlyMoves(k)
  BY <1>2, <1>3 DEF Enter, Stages, DeviceRunning, DeviceInv, DeviceTypeOK, TypeInv, OnlyMoves,
                    requestVars, pollVars, callVars
<1>5. StageOf(k)' /\ IDTokenOf(k)'
  <2>1. stage'[k] \in {"create_rt", "oidc_get"} /\ reqs'[k] = reqs[k] /\ pc'[k] = "idle"
        /\ idTokens'[k] = idTokens[k]
    BY <1>1, <1>2 DEF Enter, DeviceInv, DeviceTypeOK, callVars
  <2> QED
    BY <1>1, <1>2, <2>1 DEF StageOf, IDTokenOf, DeviceRunning, DeviceRedeeming, Granted,
                            Approved, requestVars, DeviceInv
<1> QED
  BY <1>2, <1>3, <1>4, <1>5, CallStep DEF requestVars
\* The ID token says what the tokens say.
LEMMA IDTokenKeeps ==
    ASSUME DeviceInv, NEW k \in Calls, DeviceIDTokenGet(k) \/ DeviceIDTokenIssue(k)
    PROVE  DeviceInv'
<1>1. stage[k] \in {"oidc_get", "oidc_issue"}
  BY DEF DeviceIDTokenGet, DeviceIDTokenIssue
<1>2. /\ pc[k] = "idle"
      /\ reqs[k] \in Requester /\ reqs[k] # None /\ reqs[k].id \in AuthReqs
      /\ devices[reqs[k].id] \in DeviceRequest
  BY <1>1, RunningDevice, NoneAssumption DEF DeviceRunning
<1>3. Granted(reqs[k])
  BY <1>1, <1>2 DEF DeviceInv, StageOf, DeviceRedeeming
<1>4. /\ UNCHANGED <<vars, requestVars, idSessions, pollVars>>
      /\ \/ Enter(k, "done") \/ Enter(k, "error")
         \/ Enter(k, "oidc_issue") /\ openid \in devices[reqs[k].id].granted
  BY DEF DeviceIDTokenGet, DeviceIDTokenIssue
<1>5. \/ UNCHANGED idTokens
      \/ /\ stage[k] = "oidc_issue" /\ Enter(k, "done")
         /\ idTokens' = [idTokens EXCEPT ![k] = reqs[k]]
  <2>1. reqs[k] = [id |-> reqs[k].id, client |-> devices[reqs[k].id].client,
                   scopes |-> devices[reqs[k].id].granted]
    BY <1>2, <1>3 DEF Requester, Granted, Approved
  <2> QED
    BY <2>1 DEF DeviceIDTokenGet, DeviceIDTokenIssue
<1>6. TypeInv'
  BY <1>4 DEF DeviceInv, TypeInv, TypeOK, StoreTypeOK, CallsOK, vars, storeVars, accessVars,
              refreshVars, callVars
<1>7. DeviceTypeOK' /\ OnlyMoves(k)
  BY <1>2, <1>4, <1>5, <1>6
     DEF Enter, Stages, DeviceRunning, DeviceInv, DeviceTypeOK, TypeInv, OnlyMoves, vars,
         requestVars, pollVars, callVars
<1>8. TokensGranted'
  BY <1>4 DEF DeviceInv, TokensGranted, Granted, Approved, vars, storeVars, accessVars,
              refreshVars, requestVars
<1>9. StageOf(k)' /\ IDTokenOf(k)'
  <2>1. reqs'[k] = reqs[k] /\ pc'[k] = "idle"
    BY <1>2, <1>4 DEF vars, callVars
  <2>2. Granted(reqs[k])'
    BY <1>3, <1>4 DEF Granted, Approved, vars, callVars, requestVars
  <2>3. /\ stage'[k] \in {"done", "error", "oidc_issue"}
        /\ stage'[k] = "oidc_issue" => openid \in devices'[reqs[k].id].granted
    BY <1>4 DEF Enter, DeviceInv, DeviceTypeOK, requestVars
  <2>4. StageOf(k)'
    BY <1>2, <2>1, <2>2, <2>3, NoneAssumption
       DEF StageOf, DeviceRunning, DeviceRedeeming, Granted, Approved
  <2>5. IDTokenOf(k)'
    <3>1. CASE UNCHANGED idTokens
      <4>1. idTokens[k] = None
        BY <1>1, <1>2 DEF DeviceInv, DeviceTypeOK, IDTokenOf
      <4> QED
        BY <3>1, <4>1 DEF IDTokenOf
    <3>2. CASE stage[k] = "oidc_issue" /\ Enter(k, "done")
                  /\ idTokens' = [idTokens EXCEPT ![k] = reqs[k]]
      <4>1. openid \in reqs[k].scopes
        BY <1>3, <3>2 DEF DeviceInv, StageOf, Granted, Approved
      <4>2. idTokens'[k] = reqs[k] /\ stage'[k] = "done"
        BY <3>2 DEF Enter, DeviceInv, DeviceTypeOK
      <4> QED
        BY <1>2, <2>1, <4>1, <4>2 DEF IDTokenOf, DeviceRedeeming
    <3> QED
      BY <1>5, <3>1, <3>2
  <2> QED
    BY <2>4, <2>5
<1> QED
  BY <1>4, <1>6, <1>7, <1>8, <1>9, CallStep DEF vars, storeVars, requestVars
\* There are no codes to redeem, so the calls of TokenLifecycle refresh and
\* revoke, each for the request it has read.
LEMMA CoreMoves ==
    ASSUME DeviceInv, NEW k \in Calls, Continue(k)
    PROVE  /\ UNCHANGED <<authorizeCodes, reqs>>
           /\ pc[k] # "idle" /\ pc'[k] # "idle"
           /\ \A j \in Calls : j # k => pc'[j] = pc[j]
<1>1. pc \in [Calls -> {"idle"} \union Running \union Returned]
  BY DEF DeviceInv, TypeInv, TypeOK
<1>2. pc[k] # "idle" => reqs[k].id \in AuthReqs
  BY DEF DeviceInv, TypeInv, CallsOK, Requester
<1>3. CASE ExchangePopulate(k) \/ ExchangeInvalidate(k) \/ ExchangeCreateAccess(k)
              \/ ExchangeCreateRefresh(k) \/ Drop(k)
  BY <1>1, <1>2, <1>3
     DEF ExchangePopulate, ExchangeInvalidate, ExchangeCreateAccess, ExchangeCreateRefresh,
         Drop, Goto, DeviceInv, GetAuthorizeCodeError, InvalidateAuthorizeCodeSession, storeVars
<1>4. CASE ReplayRevokeAccess(k) \/ ReplayRevokeRefresh(k) \/ RotateRevokeRefresh(k)
              \/ RotateRevokeAccess(k) \/ RefreshCreateAccess(k) \/ RefreshCreateRefresh(k)
  BY <1>1, <1>4
     DEF ReplayRevokeAccess, ReplayRevokeRefresh, RotateRevokeRefresh, RotateRevokeAccess,
         RefreshCreateAccess, RefreshCreateRefresh, Goto
<1>5. CASE ReuseDelete(k) \/ ReuseRevokeRefresh(k) \/ ReuseRevokeAccess(k)
              \/ RevokeRefresh(k) \/ RevokeAccess(k)
  BY <1>1, <1>5
     DEF ReuseDelete, ReuseRevokeRefresh, ReuseRevokeAccess, RevokeRefresh, RevokeAccess, Goto
<1> QED
  BY <1>3, <1>4, <1>5 DEF Continue

\* A refresh or a revocation goes on with what was granted.
LEMMA CoreKeeps ==
    ASSUME DeviceInv, NEW k \in Calls, Core(k)
    PROVE  DeviceInv'
<1>1. /\ stage[k] = "core" /\ Continue(k) /\ UNCHANGED deviceVars
      /\ UNCHANGED <<authorizeCodes, reqs>>
      /\ pc[k] # "idle" /\ pc'[k] # "idle"
      /\ \A j \in Calls : j # k => pc'[j] = pc[j]
  BY CoreMoves DEF Core
<1>2. TypeInv' /\ TableStep
  BY <1>1, TypeStep, TablesStep DEF Next, DeviceInv
<1>3. DeviceTypeOK' /\ OnlyMoves(k)
  BY <1>1, <1>2 DEF DeviceInv, DeviceTypeOK, TypeInv, OnlyMoves, deviceVars, requestVars,
                    pollVars
<1>4. TokensGranted'
  <2>1. ASSUME NEW j \in Calls, pc[j] # "idle" PROVE Granted(reqs[j]) /\ reqs[j].id \in AuthReqs
    BY <2>1 DEF DeviceInv, StageOf, TypeInv, CallsOK, Requester
  <2>2. \A d \in AuthReqs : DeviceKept(d)
    BY <1>1 DEF DeviceKept, deviceVars, requestVars
  <2>3. ASSUME NEW s \in AccessSignatures
        PROVE  \/ accessTokens'[s] \in {accessTokens[s], None}
               \/ accessTokens'[s].id \in AuthReqs /\ Granted(accessTokens'[s])
    <3>1. AccessStep(s) /\ (s \in AuthReqs => authorizeCodes'[s] = None)
      BY <1>1, <1>2 DEF TableStep, DeviceInv
    <3> QED
      BY <2>1, <3>1 DEF AccessStep
  <2>4. ASSUME NEW t \in Calls
        PROVE  \/ refreshTokens'[t] \in {refreshTokens[t], None}
               \/ refreshTokens[t] # None /\ refreshTokens'[t].req = refreshTokens[t].req
               \/ refreshTokens'[t].req.id \in AuthReqs /\ Granted(refreshTokens'[t].req)
    <3>1. RefreshStep(t) /\ refreshTokens[t] \in RefreshSession \union {None}
      BY <1>2 DEF TableStep, DeviceInv, TypeInv, TypeOK, StoreTypeOK
    <3> QED
      BY <2>1, <3>1 DEF RefreshStep, RefreshSession
  <2> QED
    BY <2>2, <2>3, <2>4, TokensKept
<1>5. StageOf(k)' /\ IDTokenOf(k)'
  <2>1. Granted(reqs[k])' /\ idTokens[k] = None
    BY <1>1 DEF DeviceInv, StageOf, IDTokenOf, Granted, Approved, deviceVars, requestVars
  <2> QED
    BY <1>1, <2>1 DEF StageOf, IDTokenOf, DeviceRunning, DeviceRedeeming, deviceVars
<1> QED
  BY <1>1, <1>2, <1>3, <1>4, <1>5, CallStep DEF deviceVars, requestVars

\* A refresh or a revocation starts with what was granted.
LEMMA BeginOtherKeeps ==
    ASSUME DeviceInv, NEW k \in Calls, NEW c \in Clients, BeginOther(k, c)
    PROVE  DeviceInv'
<1>1. PICK req \in Requester, step \in Running : Start(k, req, step) /\ Granted(req)
  <2>1. ASSUME NEW t \in Calls, RefreshGet(k, t, c) \/ RevokeGetRefresh(k, t, c)
        PROVE  \E req \in Requester, step \in Running : Start(k, req, step) /\ Granted(req)
    <3>1. refreshTokens[t] # None
      BY <2>1 DEF RefreshGet, RevokeGetRefresh, GetRefreshTokenError
    <3>2. refreshTokens[t].req \in Requester /\ Granted(refreshTokens[t].req)
      BY <3>1 DEF DeviceInv, TypeInv, TypeOK, StoreTypeOK, RefreshSession, TokensGranted
    <3>3. refreshTokens[t].req.client = c =>
             refreshTokens[t].req = [id |-> refreshTokens[t].req.id, client |-> c,
                                     scopes |-> refreshTokens[t].req.scopes]
      BY <3>2 DEF Requester
    <3> QED
      BY <2>1, <3>2, <3>3 DEF RefreshGet, RevokeGetRefresh, Running
  <2>2. ASSUME NEW s \in AccessSignatures, RevokeGetAccess(k, s, c)
        PROVE  \E req \in Requester, step \in Running : Start(k, req, step) /\ Granted(req)
    BY <2>2 DEF RevokeGetAccess, DeviceInv, TypeInv, TypeOK, StoreTypeOK, TokensGranted,
                Running
  <2> QED
    BY <2>1, <2>2 DEF BeginOther
<1>2. /\ stage[k] = "none" /\ Enter(k, "core")
      /\ UNCHANGED <<storeVars, ended, requestVars, idSessions, pollVars, idTokens>>
  BY DEF BeginOther, RefreshGet, RevokeGetRefresh, RevokeGetAccess
<1>3. /\ pc' = [pc EXCEPT ![k] = step] /\ reqs' = [reqs EXCEPT ![k] = req]
      /\ pc[k] = "idle" /\ step # "idle"
  BY <1>1 DEF Start, Goto, Running
<1>4. TypeInv'
  BY TypeStep DEF BeginOther, Begin, Next, DeviceInv
<1>5. DeviceTypeOK' /\ OnlyMoves(k)
  BY <1>2, <1>3, <1>4 DEF Enter, Stages, DeviceInv, DeviceTypeOK, TypeInv, TypeOK, OnlyMoves,
                          requestVars, pollVars
<1>6. TokensGranted'
  BY <1>2 DEF DeviceInv, TokensGranted, Granted, Approved, storeVars, accessVars, refreshVars,
              requestVars
<1>7. StageOf(k)' /\ IDTokenOf(k)'
  <2>1. reqs'[k] = req /\ pc'[k] = step /\ stage'[k] = "core" /\ idTokens'[k] = None
    BY <1>2, <1>3 DEF Enter, DeviceInv, DeviceTypeOK, TypeInv, TypeOK, IDTokenOf
  <2>2. Granted(req)'
    BY <1>1, <1>2, <2>1 DEF Granted, Approved, requestVars
  <2> QED
    BY <1>3, <2>1, <2>2 DEF StageOf, IDTokenOf, DeviceRunning, DeviceRedeeming, Granted,
                            Approved
<1> QED
  BY <1>2, <1>4, <1>5, <1>6, <1>7, CallStep DEF requestVars, storeVars
-----------------------------------------------------------------------------
(* The steps of the device endpoint, the user and the clock.               *)

\* What is left to show of a step that no call takes.
LEMMA RequestStep ==
    ASSUME DeviceInv, UNCHANGED <<vars, stage, pollVars, idTokens>>, DeviceTypeOK',
           \A d \in AuthReqs : DeviceKept(d) /\ DeviceOf(d)',
           \A u \in UserCodes : userCodes'[u] # None => devices'[userCodes'[u]] # None
    PROVE  DeviceInv'
<1>1. TypeInv' /\ authorizeCodes' = authorizeCodes
  BY DEF DeviceInv, TypeInv, TypeOK, StoreTypeOK, CallsOK, vars, storeVars, accessVars,
         refreshVars, callVars
<1>2. TokensGranted'
  BY TokensKept DEF vars, storeVars, accessVars, refreshVars
<1>3. \A k \in Calls : StageOf(k)' /\ IDTokenOf(k)'
  BY StageKept DEF vars, callVars
<1> QED
  BY <1>1, <1>2, <1>3 DEF DeviceInv

\* A turn of the loop leaves what other devices have alone.
LEMMA DeviceAuthorizeKeeps ==
    ASSUME DeviceInv, NEW d \in AuthReqs, NEW c \in Clients, NEW u \in UserCodes,
           DeviceAuthorize(d, c, u)
    PROVE  DeviceInv'
<1> DEFINE req == [client |-> c, granted |-> {}, expired |-> FALSE, state |-> "unused"]
<1>1. /\ UNCHANGED <<vars, consent, idSessions, stage, pollVars, idTokens>>
      /\ attempts' = [attempts EXCEPT ![d] = @ + 1]
      /\ shown[d] = None /\ attempts[d] < MaxAttempts
  BY DEF DeviceAuthorize, Tries
<1>2. req \in DeviceRequest
  BY DEF DeviceRequest
<1>3. devices[d] = None /\ deviceCodes[d] = "absent"
  BY <1>1 DEF DeviceInv, DeviceOf
<1>4. attempts' \in [AuthReqs -> 0 .. MaxAttempts]
  BY <1>1 DEF DeviceInv, DeviceTypeOK, MaxAttempts
<1>5. TypeOK'
  BY <1>1 DEF DeviceInv, TypeInv, TypeOK, StoreTypeOK, vars, storeVars, accessVars,
              refreshVars, callVars
<1>6. CASE UNCHANGED <<devices, deviceCodes, userCodes, shown>>
  <2>1. DeviceTypeOK'
    BY <1>1, <1>4, <1>5, <1>6 DEF DeviceInv, DeviceTypeOK, pollVars
  <2>2. \A e \in AuthReqs : DeviceKept(e) /\ DeviceOf(e)'
    BY <1>1, <1>6 DEF DeviceKept, DeviceInv, DeviceOf
  <2> QED
    BY <1>1, <1>6, <2>1, <2>2, RequestStep DEF DeviceInv
<1>7. CASE /\ CreateDeviceAuthSession(d, u, req)
           /\ shown' = [shown EXCEPT ![d] = u]
  <2>1. DeviceTypeOK'
    BY <1>1, <1>2, <1>4, <1>5, <1>7
       DEF DeviceInv, DeviceTypeOK, CreateDeviceAuthSession, pollVars
  <2>2. \A e \in AuthReqs : DeviceKept(e)
    BY <1>2, <1>3, <1>7 DEF DeviceKept, CreateDeviceAuthSession, DeviceInv, DeviceTypeOK
  <2>3. devices'[d] # None /\ shown'[d] = u /\ userCodes'[u] = d
    BY <1>2, <1>7, NoDeviceAssumption DEF CreateDeviceAuthSession, DeviceInv, DeviceTypeOK
  <2>4. ASSUME NEW v \in UserCodes, userCodes'[v] # None PROVE devices'[userCodes'[v]] # None
    BY <1>7, <2>3, <2>4 DEF CreateDeviceAuthSession, DeviceInv, DeviceTypeOK
  <2>5. ASSUME NEW e \in AuthReqs PROVE DeviceOf(e)'
    <3>1. CASE e = d
      BY <1>1, <2>3, <3>1, NoDeviceAssumption DEF DeviceInv, DeviceOf
    <3>2. CASE e # d
      <4>1. /\ devices'[e] = devices[e] /\ deviceCodes'[e] = deviceCodes[e]
            /\ shown'[e] = shown[e] /\ consent'[e] = consent[e]
        BY <1>1, <1>7, <3>2 DEF CreateDeviceAuthSession, DeviceInv, DeviceTypeOK
      <4>2. shown[e] # None /\ shown[e] # u => userCodes'[shown[e]] = userCodes[shown[e]]
        BY <1>7 DEF CreateDeviceAuthSession, DeviceInv, DeviceTypeOK
      <4> QED
        BY <2>3, <4>1, <4>2 DEF DeviceInv, DeviceOf
    <3> QED
      BY <3>1, <3>2
  <2> QED
    BY <1>1, <2>1, <2>2, <2>4, <2>5, RequestStep
<1> QED
  BY <1>6, <1>7 DEF DeviceAuthorize

\* What the user decides is about a request nobody has decided about.
LEMMA UserDecidesKeeps ==
    ASSUME DeviceInv, NEW d \in AuthReqs, NEW state \in {"accepted", "rejected"},
           NEW g \in SUBSET Scopes, NEW login \in BOOLEAN, UserDecides(d, state, g, login)
    PROVE  DeviceInv'
<1> DEFINE r == userCodes[shown[d]]
           req == [devices[r] EXCEPT !.state = state, !.granted = g]
<1>1. r \in AuthReqs /\ shown[d] \in UserCodes /\ devices[r] # None
      /\ devices[r] \in DeviceRequest
  <2>1. shown[d] # None /\ shown[d] \in UserCodes
    BY DEF UserDecides, DeviceInv, DeviceTypeOK
  <2>2. r \in AuthReqs /\ r # None
    BY <2>1, NoneAssumption DEF DeviceInv, DeviceOf
  <2> QED
    BY <2>1, <2>2 DEF DeviceInv, DeviceTypeOK
<1>2. req \in DeviceRequest /\ req.client = devices[r].client
  BY <1>1 DEF DeviceRequest
<1>3. /\ devices[r].state = "unused" /\ devices' = [devices EXCEPT ![r] = req]
      /\ consent' = [consent EXCEPT ![r] = d] /\ idSessions' \in {idSessions \union {r}, idSessions}
      /\ UNCHANGED <<vars, deviceCodes, userCodes, attempts, shown, stage, pollVars, idTokens>>
  <2>1. devices' = [devices EXCEPT ![r].state = state, ![r].granted = g]
    BY DEF UserDecides
  <2>2. devices' = [devices EXCEPT ![r] = req]
    BY <1>1, <2>1 DEF DeviceInv, DeviceTypeOK, DeviceRequest
  <2> QED
    BY <2>2 DEF UserDecides
<1>4. DeviceTypeOK'
  BY <1>1, <1>2, <1>3 DEF DeviceInv, DeviceTypeOK, TypeOK, StoreTypeOK, vars, storeVars,
                          accessVars, refreshVars, callVars, pollVars
<1>5. devices'[r] = req /\ \A e \in AuthReqs : e # r => devices'[e] = devices[e]
  BY <1>1, <1>3 DEF DeviceInv, DeviceTypeOK
<1>6. \A e \in AuthReqs : DeviceKept(e)
  BY <1>1, <1>2, <1>3, <1>5, NoDeviceAssumption DEF DeviceKept
<1>7. \A e \in AuthReqs : devices'[e] = None <=> devices[e] = None
  BY <1>1, <1>2, <1>5, NoDeviceAssumption
<1>8. \A e \in AuthReqs : DeviceOf(e)'
  BY <1>1, <1>3, <1>7 DEF DeviceInv, DeviceOf, DeviceTypeOK
<1>9. \A u \in UserCodes : userCodes'[u] # None => devices'[userCodes'[u]] # None
  BY <1>3, <1>7 DEF DeviceInv, DeviceTypeOK
<1> QED
  BY <1>3, <1>4, <1>6, <1>8, <1>9, RequestStep

\* An expired request stays what it was.
LEMMA ExpireKeeps ==
    ASSUME DeviceInv, NEW d \in AuthReqs, Expire(d)
    PROVE  DeviceInv'
<1> DEFINE req == [devices[d] EXCEPT !.expired = TRUE]
<1>1. devices[d] # None /\ devices[d] \in DeviceRequest
  BY DEF Expire, DeviceInv, DeviceTypeOK
<1>2. /\ req \in DeviceRequest /\ req.client = devices[d].client
      /\ req.state = devices[d].state /\ req.granted = devices[d].granted
  BY <1>1 DEF DeviceRequest
<1>3. /\ devices' = [devices EXCEPT ![d] = req]
      /\ UNCHANGED <<vars, deviceCodes, userCodes, attempts, shown, consent, idSessions,
                     stage, pollVars, idTokens>>
  BY <1>1 DEF Expire, DeviceInv, DeviceTypeOK
<1>4. DeviceTypeOK'
  BY <1>2, <1>3 DEF DeviceInv, DeviceTypeOK, TypeOK, StoreTypeOK, vars, storeVars,
                    accessVars, refreshVars, callVars, pollVars
<1>5. devices'[d] = req /\ \A e \in AuthReqs : e # d => devices'[e] = devices[e]
  BY <1>3 DEF DeviceInv, DeviceTypeOK
<1>6. \A e \in AuthReqs : devices'[e] = None <=> devices[e] = None
  BY <1>1, <1>2, <1>5, NoDeviceAssumption
<1>7. \A e \in AuthReqs : DeviceKept(e) /\ DeviceOf(e)'
  BY <1>2, <1>3, <1>5, <1>6 DEF DeviceKept, DeviceInv, DeviceOf
<1>8. \A u \in UserCodes : userCodes'[u] # None => devices'[userCodes'[u]] # None
  BY <1>3, <1>6 DEF DeviceInv, DeviceTypeOK
<1> QED
  BY <1>3, <1>4, <1>7, <1>8, RequestStep

-----------------------------------------------------------------------------

\* Every step preserves the invariant.
LEMMA DeviceStep == DeviceInv /\ [DeviceNext]_allVars => DeviceInv'
<1> SUFFICES ASSUME DeviceInv, [DeviceNext]_allVars PROVE DeviceInv'
  OBVIOUS
<1>1. CASE UNCHANGED allVars
  <2>1. DeviceTypeOK' /\ \A d \in AuthReqs : DeviceKept(d) /\ DeviceOf(d)'
    BY <1>1 DEF allVars, vars, storeVars, accessVars, refreshVars, callVars, deviceVars,
                requestVars, pollVars, DeviceInv, DeviceTypeOK, TypeOK, StoreTypeOK, DeviceKept,
                DeviceOf
  <2> QED
    BY <1>1, <2>1, RequestStep DEF allVars, deviceVars, requestVars, DeviceInv
<1>2. CASE \E k \in Calls : DeviceContinue(k)
  BY <1>2, ReplayKeeps, PopulateKeeps, InvalidateKeeps, CreateKeeps, IDTokenKeeps, CoreKeeps
     DEF DeviceContinue
<1>3. CASE \E k \in Calls, c \in Clients :
              BeginOther(k, c) \/ \E d \in AuthReqs : Poll(k, d, c)
  BY <1>3, BeginOtherKeeps, PollKeeps
<1>4. CASE \E d \in AuthReqs :
              \/ Expire(d)
              \/ \E c \in Clients, u \in UserCodes : DeviceAuthorize(d, c, u)
              \/ \E state \in {"accepted", "rejected"}, g \in SUBSET Scopes,
                    login \in BOOLEAN : UserDecides(d, state, g, login)
  BY <1>4, ExpireKeeps, DeviceAuthorizeKeeps, UserDecidesKeeps
<1> QED
  BY <1>1, <1>2, <1>3, <1>4 DEF DeviceNext

\* The invariant holds in every reachable state.
LEMMA DeviceInvariant == DeviceSpec => []DeviceInv
BY DeviceInitInv, DeviceStep, PTL DEF DeviceSpec

\* The tables, the device requests and the calls are well-typed.
THEOREM DeviceTypeCorrect == DeviceSpec => []DeviceTypeOK
<1>1. DeviceInv => DeviceTypeOK
  BY DEF DeviceInv
<1> QED
  BY <1>1, DeviceInvariant, PTL

\* A device gets tokens only for what the user accepted.
THEOREM DeviceTokensAreApproved == DeviceSpec => []DeviceTokensApproved
<1>1. DeviceInv => DeviceTokensApproved
  BY DEF DeviceInv, TokensGranted, Granted, DeviceTokensApproved
<1> QED
  BY <1>1, DeviceInvariant, PTL

\* A device code that can still be redeemed has no tokens.
THEOREM TokensConsumedDeviceCode == DeviceSpec => []TokensConsumeDeviceCode
<1>1. DeviceInv => TokensConsumeDeviceCode
  BY DEF DeviceInv, TokensGranted, Granted, TokensConsumeDeviceCode
<1> QED
  BY <1>1, DeviceInvariant, PTL

\* The ID token of a device says what its tokens say.
THEOREM DeviceIDTokensAreBound == DeviceSpec => []DeviceIDTokenBound
<1>1. DeviceInv => DeviceIDTokenBound
  BY DEF DeviceInv, IDTokenOf, DeviceIDTokenBound, DeviceRedeeming
<1> QED
  BY <1>1, DeviceInvariant, PTL
-----------------------------------------------------------------------------
(* A device code is redeemed once.                                         *)

\* Call k has adopted a device request, and not failed.
Adopted(k) == stage[k] \in DeviceRunning \union {"done"} /\ reqs[k] # None

\* Two calls that adopted one request were overlapping polls.
SoloInv ==
    \A j, k \in Calls :
        /\ Adopted(j) /\ Adopted(k)
        /\ reqs[j].id = reqs[k].id /\ reqs[j].id \notin overlapped
        => j = k

\* Steps that take up no device code.
LEMMA SoloKept ==
    ASSUME SoloInv, UNCHANGED overlapped,
           \A k \in Calls : Adopted(k)' => Adopted(k) /\ reqs'[k].id = reqs[k].id
    PROVE  SoloInv'
BY DEF SoloInv

\* A poll that passes finds an active code, so nobody is past it alone.
LEMMA PollSolo ==
    ASSUME DeviceInv, SoloInv, NEW k \in Calls, NEW d \in AuthReqs, NEW c \in Clients,
           Poll(k, d, c)
    PROVE  SoloInv'
<1>1. stage \in [Calls -> Stages] /\ reqs \in [Calls -> Requester \union {None}]
  BY DEF DeviceInv, DeviceTypeOK, TypeOK
<1>2. CASE Enter(k, "replay_at") /\ UNCHANGED <<reqs, overlapped>>
  BY <1>1, <1>2, SoloKept DEF Enter, Adopted, DeviceRunning
<1>3. CASE /\ DeviceReady(d) /\ Enter(k, "populate")
           /\ reqs' = [reqs EXCEPT ![k] = [id |-> d, client |-> c, scopes |-> {}]]
           /\ overlapped' =
                 IF \E j \in Calls : stage[j] \in DeviceRunning /\ reqs[j].id = d
                 THEN overlapped \union {d} ELSE overlapped
  <2>1. /\ reqs'[k].id = d /\ overlapped \subseteq overlapped'
        /\ \A j \in Calls : j # k => reqs'[j] = reqs[j] /\ stage'[j] = stage[j]
    BY <1>1, <1>3 DEF Enter
  <2>2. ASSUME NEW j \in Calls, j # k, Adopted(j), reqs[j].id = d PROVE d \in overlapped'
    <3>1. deviceCodes[d] = "active"
      BY <1>3 DEF DeviceReady, GetDeviceCodeError, DeviceInv, DeviceTypeOK
    <3>2. stage[j] \in DeviceRunning
      BY <2>2, <3>1 DEF Adopted, DeviceInv, StageOf, DeviceRedeeming, Granted
    <3> QED
      BY <1>3, <2>2, <3>2
  <2>3. ASSUME NEW j \in Calls, j # k PROVE Adopted(j)' <=> Adopted(j)
    BY <2>1, <2>3 DEF Adopted
  <2> QED
    BY <2>1, <2>2, <2>3 DEF SoloInv
<1> QED
  BY <1>2, <1>3 DEF Poll

\* No other step takes up a device code.
LEMMA SoloStep == DeviceInv /\ SoloInv /\ [DeviceNext]_allVars => SoloInv'
<1> SUFFICES ASSUME DeviceInv, SoloInv, [DeviceNext]_allVars PROVE SoloInv'
  OBVIOUS
<1>1. stage \in [Calls -> Stages] /\ reqs \in [Calls -> Requester \union {None}]
  BY DEF DeviceInv, DeviceTypeOK, TypeOK
<1>2. CASE UNCHANGED <<vars, stage, pollVars>>
  BY <1>2, SoloKept DEF Adopted, vars, callVars, pollVars
<1>3. ASSUME NEW k \in Calls, DeviceContinue(k) PROVE SoloInv'
  <2>1. CASE DeviceReplayAccess(k) \/ DeviceReplayRefresh(k)
    BY <1>1, <2>1, SoloKept DEF DeviceReplayAccess, DeviceReplayRefresh, Enter, Adopted,
                                DeviceRunning, callVars, pollVars
  <2>2. CASE DevicePopulate(k)
    <3>1. reqs[k] \in Requester /\ stage[k] = "populate"
      BY <2>2, RunningDevice DEF DevicePopulate, DeviceRunning
    <3>2. reqs' \in {reqs, [reqs EXCEPT ![k].scopes = devices[reqs[k].id].granted]}
      BY <2>2 DEF DevicePopulate
    <3>3. \A j \in Calls : (j # k => reqs'[j] = reqs[j]) /\ reqs'[k].id = reqs[k].id
      BY <1>1, <3>1, <3>2 DEF Requester
    <3> QED
      BY <1>1, <2>2, <3>1, <3>3, SoloKept, NoneAssumption
         DEF DevicePopulate, Enter, Adopted, DeviceRunning, pollVars
  <2>3. CASE DeviceInvalidate(k) \/ DeviceCreateAccess(k) \/ DeviceCreateRefresh(k)
    BY <1>1, <2>3, SoloKept DEF DeviceInvalidate, DeviceCreateAccess, DeviceCreateRefresh,
                                Enter, Adopted, DeviceRunning, vars, callVars, pollVars
  <2>4. CASE DeviceIDTokenGet(k) \/ DeviceIDTokenIssue(k)
    BY <1>1, <2>4, SoloKept DEF DeviceIDTokenGet, DeviceIDTokenIssue, Enter, Adopted,
                                DeviceRunning, vars, callVars, pollVars
  <2>5. CASE Core(k)
    BY <2>5, CoreMoves, SoloKept DEF Core, deviceVars, pollVars, Adopted
  <2> QED
    BY <1>3, <2>1, <2>2, <2>3, <2>4, <2>5 DEF DeviceContinue
<1>4. ASSUME NEW k \in Calls, NEW c \in Clients, BeginOther(k, c) PROVE SoloInv'
  <2>1. Enter(k, "core") /\ UNCHANGED pollVars /\ \E req : reqs' = [reqs EXCEPT ![k] = req]
    BY <1>4 DEF BeginOther, RefreshGet, RevokeGetRefresh, RevokeGetAccess, Start
  <2> QED
    BY <1>1, <2>1, SoloKept DEF Enter, Adopted, DeviceRunning, pollVars
<1>5. CASE UNCHANGED allVars
  BY <1>2, <1>5 DEF allVars, deviceVars
<1>6. CASE \E d \in AuthReqs :
              \/ Expire(d)
              \/ \E c \in Clients, u \in UserCodes : DeviceAuthorize(d, c, u)
              \/ \E state \in {"accepted", "rejected"}, g \in SUBSET Scopes,
                    login \in BOOLEAN : UserDecides(d, state, g, login)
  BY <1>2, <1>6 DEF Expire, DeviceAuthorize, UserDecides
<1> QED
  BY <1>3, <1>4, <1>5, <1>6, PollSolo DEF DeviceNext

\* Unless two polls for it overlapped, a device code is redeemed once.
THEOREM DeviceCodeIsRedeemedOnce == DeviceSpec => []DeviceCodeRedeemedOnce
<1>1. DeviceInit => SoloInv
  BY DEF DeviceInit, SoloInv, Adopted, DeviceRunning
<1>2. SoloInv => DeviceCodeRedeemedOnce
  BY DEF SoloInv, Adopted, DeviceCodeRedeemedOnce, DeviceRedeeming, DeviceRunning
<1>3. DeviceSpec => []SoloInv
  BY <1>1, DeviceInvariant, SoloStep, PTL DEF DeviceSpec
<1> QED
  BY <1>2, <1>3, PTL
=============================================================================
