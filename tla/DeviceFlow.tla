----------------------------- MODULE DeviceFlow -----------------------------
(***************************************************************************)
(* The device authorization grant.  A device asks for a device code and a  *)
(* user code (handler/rfc8628/auth_handler.go), shows the user code, and   *)
(* polls the token endpoint with the device code (token_handler.go, then   *)
(* handler/openid/flow_device_token.go).  Meanwhile the user types the     *)
(* user code into the login application, which looks the request up and    *)
(* accepts or rejects it.  The tokens live on as those of TokenLifecycle:  *)
(* they are refreshed and revoked there.                                   *)
(*                                                                         *)
(* A device request is named by an element of AuthReqs: it is the request  *)
(* ID and the signature of the device code as well.  The store is          *)
(* MemoryStore or, with ContractStore, one that remembers invalidated      *)
(* device codes, as the comments of handler/rfc8628/storage.go ask, and    *)
(* that may refuse a user code in use, which auth_handler.go is ready for. *)
(***************************************************************************)
EXTENDS TokenLifecycle, Naturals

CONSTANTS
    UserCodes,      \* user codes, short enough to collide
    openid,         \* the scope "openid"
    ContractStore   \* FALSE: MemoryStore; TRUE: a store as described above

ASSUME DeviceAssumption == openid \in Scopes /\ ContractStore \in BOOLEAN

MaxAttempts == 3

\* fosite.DeviceRequest.  A device may poll again after the codes expired.
DeviceRequest == [client : Clients, granted : SUBSET Scopes, expired : BOOLEAN,
                  state : {"unused", "accepted", "rejected"}]

ASSUME NoDeviceAssumption ==
    /\ None \notin DeviceRequest
    /\ None \notin UserCodes

VARIABLES
    devices,      \* the device requests; stored by pointer, so there is one copy
    deviceCodes,  \* DeviceAuths, by device code signature
    userCodes,    \* DeviceAuths, by user code signature
    attempts,     \* turns of the loop that looks for a free user code
    shown,        \* the user code of the response, which the device shows
    consent,      \* history: the device whose user decided about a request
    idSessions,   \* IDSessions; a session is a pointer to the device request
    stage,        \* the handler step a call is in, or how it ended
    polled,       \* the device code a call came with
    idTokens,     \* the request an ID token of a call was issued for
    overlapped    \* history: requests for which two polls overlapped in time

requestVars == <<devices, deviceCodes, userCodes, attempts, shown, consent>>
pollVars == <<polled, overlapped>>
deviceVars == <<requestVars, idSessions, stage, pollVars, idTokens>>

DeviceRunning == {"populate", "invalidate", "create_at", "create_rt",
                  "oidc_get", "oidc_issue"}
Stages == DeviceRunning \union
          {"none", "replay_at", "replay_rt", "replayed", "core", "error", "done"}

DeviceTypeOK ==
    /\ TypeOK
    /\ devices \in [AuthReqs -> DeviceRequest \union {None}]
    /\ deviceCodes \in [AuthReqs -> {"absent", "active", "invalidated"}]
    /\ userCodes \in [UserCodes -> AuthReqs \union {None}]
    /\ attempts \in [AuthReqs -> 0 .. MaxAttempts]
    /\ shown \in [AuthReqs -> UserCodes \union {None}]
    /\ consent \in [AuthReqs -> AuthReqs \union {None}]
    /\ idSessions \subseteq AuthReqs
    /\ stage \in [Calls -> Stages]
    /\ polled \in [Calls -> AuthReqs \union {None}]
    /\ idTokens \in [Calls -> Requester \union {None}]
    /\ overlapped \subseteq AuthReqs

DeviceInit ==
    /\ Init
    /\ devices = [d \in AuthReqs |-> None]
    /\ deviceCodes = [d \in AuthReqs |-> "absent"]
    /\ userCodes = [u \in UserCodes |-> None]
    /\ attempts = [d \in AuthReqs |-> 0]
    /\ shown = [d \in AuthReqs |-> None]
    /\ consent = [d \in AuthReqs |-> None]
    /\ idSessions = {}
    /\ stage = [k \in Calls |-> "none"]
    /\ polled = [k \in Calls |-> None]
    /\ idTokens = [k \in Calls |-> None]
    /\ overlapped = {}

Enter(k, s) == stage' = [stage EXCEPT ![k] = s]

-----------------------------------------------------------------------------
(* The store.                                                              *)

\* MemoryStore overwrites whatever the user code led to.
CreateDeviceAuthSession(d, u, req) ==
    /\ devices' = [devices EXCEPT ![d] = req]
    /\ deviceCodes' = [deviceCodes EXCEPT ![d] = "active"]
    /\ userCodes' = [userCodes EXCEPT ![u] = d]

\* The error of GetDeviceCodeSession, "nil" when there is none.
GetDeviceCodeError(d) ==
    CASE deviceCodes[d] = "absent"      -> "ErrNotFound"
      [] deviceCodes[d] = "invalidated" -> "ErrInvalidatedDeviceCode"
      [] deviceCodes[d] = "active"      -> "nil"

\* Mutant: the entry of the user code goes, that of the device code stays.
InvalidateUserCode(d) ==
    /\ userCodes' = [userCodes EXCEPT ![shown[d]] = None]
    /\ UNCHANGED deviceCodes

\* MemoryStore deletes the entry; that of the user code stays.
InvalidateDeviceCodeSession(d) ==
    /\ deviceCodes' = [deviceCodes EXCEPT ![d] =
                          IF ContractStore THEN "invalidated" ELSE "absent"]
    /\ UNCHANGED userCodes

-----------------------------------------------------------------------------
(* Device authorization endpoint.                                          *)

\* for i := 0; i < MaxAttempts; i++
Tries(d) == attempts[d] < MaxAttempts

\* One turn of the loop in handleDeviceAuthSession.  A store other than
\* MemoryStore may answer ErrExistingUserCodeSignature for a user code in use;
\* after MaxAttempts refusals the call ends in an error and the device has no
\* codes.
DeviceAuthorize(d, c, u) ==
    /\ shown[d] = None /\ Tries(d)
    /\ "device_code" \in ClientGrantTypes[c]
    /\ attempts' = [attempts EXCEPT ![d] = @ + 1]
    /\ \/ /\ ContractStore /\ userCodes[u] # None
          /\ UNCHANGED <<devices, deviceCodes, userCodes, shown>>
       \/ /\ CreateDeviceAuthSession(d, u, [client |-> c, granted |-> {},
                                            expired |-> FALSE, state |-> "unused"])
          /\ shown' = [shown EXCEPT ![d] = u]
    /\ UNCHANGED <<vars, consent, idSessions, stage, pollVars, idTokens>>

\* The lifespan of the codes is over.
Expire(d) ==
    /\ devices[d] # None
    /\ devices' = [devices EXCEPT ![d].expired = TRUE]
    /\ UNCHANGED <<vars, deviceCodes, userCodes, attempts, shown, consent,
                   idSessions, stage, pollVars, idTokens>>

-----------------------------------------------------------------------------
(* Login application.                                                      *)

\* The user of device d types what it shows.  The application decides about
\* the request that the code leads to, once, and on login may create the
\* OpenID Connect session that flow_device_auth.go asks for.
UserDecides(d, state, granted, login) ==
    /\ shown[d] # None /\ userCodes[shown[d]] # None
    /\ LET r == userCodes[shown[d]] IN
       /\ devices[r].state = "unused" /\ ~devices[r].expired
       /\ devices' = [devices EXCEPT ![r].state = state, ![r].granted = granted]
       /\ consent' = [consent EXCEPT ![r] = d]
       /\ idSessions' = IF login THEN idSessions \union {r} ELSE idSessions
    /\ UNCHANGED <<vars, deviceCodes, userCodes, attempts, shown, stage,
                   pollVars, idTokens>>

-----------------------------------------------------------------------------
(* Token endpoint, phase 1.                                                *)

\* The request ID of a call that has not adopted that of a device: GetID makes
\* a new one up, here the call itself.
GetID(k) == IF reqs[k] = None THEN k ELSE reqs[k].id

\* Mutant: the state of the user code is not looked at.
DeviceReadyUndecided(d) ==
    GetDeviceCodeError(d) = "nil" /\ ~devices[d].expired

\* session and ValidateDeviceCode let the call pass.
DeviceReady(d) ==
    /\ GetDeviceCodeError(d) = "nil"
    /\ devices[d].state = "accepted" /\ ~devices[d].expired

\* HandleTokenEndpointRequest of a client with a device code.
Poll(k, d, c) ==
    /\ stage[k] = "none" /\ pc[k] = "idle"
    /\ "device_code" \in ClientGrantTypes[c]
    /\ \/ /\ GetDeviceCodeError(d) = "ErrInvalidatedDeviceCode"
          /\ Enter(k, "replay_at")
          /\ UNCHANGED <<reqs, overlapped>>
       \/ /\ DeviceReady(d)
          /\ devices[d].client = c
          /\ reqs' = [reqs EXCEPT ![k] = [id |-> d, client |-> c, scopes |-> {}]]
          /\ Enter(k, "populate")
          /\ overlapped' =
                IF \E j \in Calls : stage[j] \in DeviceRunning /\ reqs[j].id = d
                THEN overlapped \union {d} ELSE overlapped
    /\ polled' = [polled EXCEPT ![k] = d]
    /\ UNCHANGED <<storeVars, pc, presented, raced, ended,
                   requestVars, idSessions, idTokens>>

\* revokeTokens, which is given the ID of the call.  The indexes have no entry
\* for an ID that was just made up.
DeviceReplayAccess(k) ==
    /\ stage[k] = "replay_at"
    /\ IF GetID(k) \in AuthReqs THEN RevokeAccessToken(GetID(k))
       ELSE UNCHANGED accessVars
    /\ Enter(k, "replay_rt")
    /\ UNCHANGED <<authorizeCodes, refreshVars, callVars, raced, ended,
                   requestVars, idSessions, pollVars, idTokens>>

DeviceReplayRefresh(k) ==
    /\ stage[k] = "replay_rt"
    /\ IF GetID(k) \in AuthReqs THEN RevokeRefreshToken(GetID(k))
       ELSE UNCHANGED refreshVars
    /\ Enter(k, "replayed")
    /\ UNCHANGED <<authorizeCodes, accessVars, callVars, raced, ended,
                   requestVars, idSessions, pollVars, idTokens>>

-----------------------------------------------------------------------------
(* Token endpoint, phase 2.                                                *)

\* The request is read and checked again.  The call also ends here when the
\* application does not go on with it.
DevicePopulate(k) ==
    /\ stage[k] = "populate"
    /\ \/ /\ DeviceReady(reqs[k].id)
          /\ reqs' = [reqs EXCEPT ![k].scopes = devices[reqs[k].id].granted]
          /\ Enter(k, "invalidate")
       \/ Enter(k, "error") /\ UNCHANGED reqs
    /\ UNCHANGED <<storeVars, pc, presented, raced, ended,
                   requestVars, idSessions, pollVars, idTokens>>

DeviceInvalidate(k) ==
    /\ stage[k] = "invalidate"
    /\ InvalidateDeviceCodeSession(reqs[k].id)
    /\ Enter(k, "create_at")
    /\ UNCHANGED <<vars, devices, attempts, shown, consent,
                   idSessions, pollVars, idTokens>>

DeviceCreateAccess(k) ==
    /\ stage[k] = "create_at"
    /\ CreateAccessTokenSession(k, reqs[k])
    /\ Enter(k, IF CanIssueRefreshToken(reqs[k]) THEN "create_rt" ELSE "oidc_get")
    /\ UNCHANGED <<authorizeCodes, refreshVars, callVars, raced, ended,
                   requestVars, idSessions, pollVars, idTokens>>

DeviceCreateRefresh(k) ==
    /\ stage[k] = "create_rt"
    /\ CreateRefreshTokenSession(k, reqs[k])
    /\ Enter(k, "oidc_get")
    /\ UNCHANGED <<authorizeCodes, accessVars, callVars, raced, ended,
                   requestVars, idSessions, pollVars, idTokens>>

\* OpenID Connect: no session, no ID token; a session without the scope
\* openid, or without a subject, is an error, and the stored tokens are lost
\* for the client.
DeviceIDTokenGet(k) ==
    /\ stage[k] = "oidc_get"
    /\ \/ reqs[k].id \notin idSessions /\ Enter(k, "done")
       \/ reqs[k].id \in idSessions /\ Enter(k, "error")
       \/ /\ reqs[k].id \in idSessions
          /\ openid \in devices[reqs[k].id].granted
          /\ Enter(k, "oidc_issue")
    /\ UNCHANGED <<vars, requestVars, idSessions, pollVars, idTokens>>

\* DeleteOpenIDConnectSession is given the device code and not its signature,
\* under which the session is kept: nothing is deleted.
DeviceIDTokenIssue(k) ==
    /\ stage[k] = "oidc_issue"
    /\ LET d == reqs[k].id IN
       \/ /\ idTokens' = [idTokens EXCEPT ![k] =
                [id |-> d, client |-> devices[d].client, scopes |-> devices[d].granted]]
          /\ Enter(k, "done")
       \/ Enter(k, "error") /\ UNCHANGED idTokens
    /\ UNCHANGED <<vars, requestVars, idSessions, pollVars>>

-----------------------------------------------------------------------------
(* Refresh and revocation of the tokens.                                   *)

BeginOther(k, c) ==
    /\ stage[k] = "none"
    /\ \/ \E t \in Calls : RefreshGet(k, t, c) \/ RevokeGetRefresh(k, t, c)
       \/ \E s \in AccessSignatures : RevokeGetAccess(k, s, c)
    /\ Enter(k, "core")
    /\ UNCHANGED <<requestVars, idSessions, pollVars, idTokens>>

Core(k) ==
    /\ stage[k] = "core"
    /\ Continue(k)
    /\ UNCHANGED deviceVars

-----------------------------------------------------------------------------

DeviceContinue(k) ==
    \/ DeviceReplayAccess(k) \/ DeviceReplayRefresh(k)
    \/ DevicePopulate(k) \/ DeviceInvalidate(k)
    \/ DeviceCreateAccess(k) \/ DeviceCreateRefresh(k)
    \/ DeviceIDTokenGet(k) \/ DeviceIDTokenIssue(k)
    \/ Core(k)

DeviceNext ==
    \/ \E d \in AuthReqs, c \in Clients, u \in UserCodes : DeviceAuthorize(d, c, u)
    \/ \E d \in AuthReqs : Expire(d)
    \/ \E d \in AuthReqs, state \in {"accepted", "rejected"}, g \in SUBSET Scopes,
          login \in BOOLEAN : UserDecides(d, state, g, login)
    \/ \E k \in Calls, d \in AuthReqs, c \in Clients : Poll(k, d, c)
    \/ \E k \in Calls, c \in Clients : BeginOther(k, c)
    \/ \E k \in Calls : DeviceContinue(k)

allVars == <<vars, deviceVars>>

DeviceSpec == DeviceInit /\ [][DeviceNext]_allVars
-----------------------------------------------------------------------------
(* Properties.                                                             *)

\* Tokens exist only for what the user accepted: the request was accepted, and
\* whatever polls, refreshes and revocations interleave, client and scopes of
\* every stored token are those of the accepted request.
Approved(req) ==
    /\ devices[req.id] # None
    /\ devices[req.id].state = "accepted"
    /\ req.client = devices[req.id].client
    /\ req.scopes = devices[req.id].granted

DeviceTokensApproved ==
    /\ \A s \in AccessSignatures : accessTokens[s] # None => Approved(accessTokens[s])
    /\ \A t \in Calls : refreshTokens[t] # None => Approved(refreshTokens[t].req)

\* As long as a device code can still be redeemed there is no token for it, so
\* a crash in the middle of a call costs tokens and never a second use.
TokensConsumeDeviceCode ==
    /\ \A s \in AccessSignatures : accessTokens[s] # None =>
          deviceCodes[accessTokens[s].id] # "active"
    /\ \A t \in Calls : refreshTokens[t] # None =>
          deviceCodes[refreshTokens[t].req.id] # "active"

\* Call k has stored the tokens of its device code, or is about to.
DeviceRedeeming(k) ==
    /\ stage[k] \in {"create_at", "create_rt", "oidc_get", "oidc_issue", "done"}
    /\ reqs[k] # None

\* Unless two polls for it overlapped, a device code is redeemed once, also
\* with a store that forgets invalidated codes.
DeviceCodeRedeemedOnce ==
    \A j, k \in Calls :
        /\ DeviceRedeeming(j) /\ DeviceRedeeming(k)
        /\ reqs[j].id = reqs[k].id /\ reqs[j].id \notin overlapped
        => j = k

\* An ID token of a device goes out only after tokens were stored for it, and
\* says what they say; openid was granted.
DeviceIDTokenBound ==
    \A k \in Calls : idTokens[k] # None =>
        /\ DeviceRedeeming(k)
        /\ idTokens[k] = reqs[k]
        /\ openid \in idTokens[k].scopes

-----------------------------------------------------------------------------
(* What the documentation says and the code does not do (README, findings).*)

\* auth_handler.go: "the retries are added here because we need to ensure
\* uniqueness of user codes", so that what the user of one device decides is
\* never about the request of another one.
ConsentReachesItsDevice ==
    \A d \in AuthReqs : consent[d] # None => consent[d] = d

\* The rule of the handler for codes, in flow_authorize_code_token.go: "If an
\* authorize code is used twice, we revoke all refresh and access tokens
\* associated with this request", for device codes.
DeviceReplayRevokesTokens ==
    \A k \in Calls :
        /\ stage[k] = "replayed"
        /\ \A j \in Calls : j # k => stage[j] \in {"none", "done"}
        => NoLiveToken(polled[k])

\* handler/openid/storage.go: "DeleteOpenIDConnectSession removes an open id
\* connect session from the store", which the handler calls before it issues.
IssuedDeviceDropsSession ==
    \A k \in Calls : idTokens[k] # None => reqs[k].id \notin idSessions
=============================================================================
