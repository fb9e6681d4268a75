---------------------------- MODULE CodeExchange ----------------------------
(***************************************************************************)
(* The token endpoint with all of its handlers.  NewAccessRequest runs     *)
(* HandleTokenEndpointRequest of every handler that feels responsible, in  *)
(* the order of compose.go, and NewAccessResponse does the same with       *)
(* PopulateTokenEndpointResponse.  For an authorization code these are     *)
(*                                                                         *)
(*     code (handle), PKCE (handle), code (populate), OpenID (populate)    *)
(*                                                                         *)
(* and for a refresh token the refresh handler and OpenID (populate).      *)
(* The code, refresh and revocation handlers are those of TokenLifecycle.  *)
(* This module puts the PKCE sessions (handler/pkce) and the OpenID        *)
(* Connect sessions (handler/openid) around them; both are kept under the  *)
(* code, apart from the code's own table.  stage says which handler a call *)
(* is in; while it is in a handler of TokenLifecycle, pc says where.       *)
(***************************************************************************)
EXTENDS TokenLifecycle

CONSTANTS
    Verifiers,       \* code verifiers that clients make up
    Malformed,       \* those that are too short, too long or ill-spelled
    PublicClients,   \* clients registered as public
    openid,          \* the scope "openid"
    EnforcePKCE, EnforcePKCEForPublicClients, EnablePKCEPlainChallengeMethod

ASSUME PKCEAssumption ==
    /\ Malformed \subseteq Verifiers
    /\ PublicClients \subseteq Clients
    /\ openid \in Scopes
    /\ {EnforcePKCE, EnforcePKCEForPublicClients, EnablePKCEPlainChallengeMethod}
          \subseteq BOOLEAN

\* A code_challenge is a verifier, or the hash of one; None if it is absent.
Challenges == {"plain", "S256"} \X Verifiers
Methods == {"", "plain", "S256"}
PKCEParams == [challenge : Challenges \union {None}, method : Methods]

\* Whether GenerateIDToken will accept the request's nonce, prompt and max_age
\* is settled by the authorize request.
IDSession == [req : Requester, issuable : BOOLEAN]

ASSUME NoSessionAssumption ==
    /\ None \notin Challenges \union Verifiers
    /\ None \notin PKCEParams
    /\ None \notin IDSession

VARIABLES
    pkceSessions,   \* PKCES
    idSessions,     \* IDSessions
    stage,          \* the handler a call is in
    verifier,       \* the code_verifier a call came with
    pkceRead,       \* the PKCE session a call has read
    idRead,         \* the OpenID Connect session a call has read
    idTokens,       \* the request an ID token of a call was issued for
    asked,          \* history: PKCE parameters of each authorize request
    refused         \* history: codes that PKCE refused to a call

pkceVars == <<pkceSessions, verifier, pkceRead, asked, refused>>
idVars == <<idSessions, idRead, idTokens>>
exVars == <<vars, stage, pkceVars, idVars>>

Stages == {"none", "pkce_get", "pkce_delete", "core", "oidc_get",
           "oidc_delete", "oidc_refresh", "error", "done"}

ExTypeOK ==
    /\ TypeOK
    /\ pkceSessions \in [AuthReqs -> PKCEParams \union {None}]
    /\ idSessions \in [AuthReqs -> IDSession \union {None}]
    /\ stage \in [Calls -> Stages]
    /\ verifier \in [Calls -> Verifiers \union {None}]
    /\ pkceRead \in [Calls -> PKCEParams \union {None}]
    /\ idRead \in [Calls -> IDSession \union {None}]
    /\ idTokens \in [Calls -> Requester \union {None}]
    /\ asked \in [AuthReqs -> PKCEParams \union {None}]
    /\ refused \subseteq AuthReqs

ExInit ==
    /\ Init
    /\ pkceSessions = [a \in AuthReqs |-> None]
    /\ idSessions = [a \in AuthReqs |-> None]
    /\ stage = [k \in Calls |-> "none"]
    /\ verifier = [k \in Calls |-> None]
    /\ pkceRead = [k \in Calls |-> None]
    /\ idRead = [k \in Calls |-> None]
    /\ idTokens = [k \in Calls |-> None]
    /\ asked = [a \in AuthReqs |-> None]
    /\ refused = {}

Enter(k, s) == stage' = [stage EXCEPT ![k] = s]

-----------------------------------------------------------------------------
(* Checks of the PKCE handler.                                             *)

\* The code_challenge that method makes of a verifier.
Challenge(method, v) == <<IF method = "S256" THEN "S256" ELSE "plain", v>>

\* validateNoPKCE: the client may do without a challenge.
ValidateNoPKCE(c) ==
    ~EnforcePKCE /\ ~(EnforcePKCEForPublicClients /\ c \in PublicClients)

\* validate, at the authorize endpoint and again at the token endpoint.
Validate(params, c) ==
    IF params.challenge = None THEN ValidateNoPKCE(c)
    ELSE params.method = "S256" \/ EnablePKCEPlainChallengeMethod

\* The rest of HandleTokenEndpointRequest, once the session is deleted.  A
\* session without a challenge comes from a code_challenge_method alone.
Verified(params, c, v) ==
    /\ Validate(params, c)
    /\ \/ params.challenge = None /\ v = None
       \/ /\ v # None /\ v \notin Malformed
          /\ params.challenge = Challenge(params.method, v)

-----------------------------------------------------------------------------
(* Authorize endpoint.  The code handler, the OpenID handler and the PKCE  *)
(* handler write before anybody holds the code; when the last one refuses, *)
(* the code is never handed out.                                           *)

\* Without PKCE parameters there is no PKCE session.
CreatePKCERequestSession(a, params) ==
    pkceSessions' = IF params.challenge = None /\ params.method = ""
                    THEN pkceSessions
                    ELSE [pkceSessions EXCEPT ![a] = params]

\* Without the scope openid there is no OpenID Connect session.
CreateOpenIDConnectSession(a, req, issuable) ==
    idSessions' = IF openid \notin req.scopes THEN idSessions
                  ELSE [idSessions EXCEPT ![a] = [req |-> req, issuable |-> issuable]]

AuthorizeRequest(a, c, granted, type, params, issuable) ==
    /\ Authorize(a, c, granted, type)
    /\ CreateOpenIDConnectSession(a, [id |-> a, client |-> c, scopes |-> granted], issuable)
    /\ Validate(params, c)
    /\ CreatePKCERequestSession(a, params)
    /\ asked' = [asked EXCEPT ![a] = params]
    /\ UNCHANGED <<stage, verifier, pkceRead, idRead, idTokens, refused>>

-----------------------------------------------------------------------------
(* Token endpoint, phase 1.                                                *)

\* The code handler comes first: a replayed code ends the grant, whatever
\* verifier came with it.
Exchange(k, a, c, v) ==
    /\ ExchangeGet(k, a, c)
    /\ Enter(k, IF pc'[k] = "replay_at" THEN "core" ELSE "pkce_get")
    /\ verifier' = [verifier EXCEPT ![k] = v]
    /\ UNCHANGED <<pkceSessions, pkceRead, asked, refused, idVars>>

\* Refresh and revocation calls.
BeginOther(k, c) ==
    /\ \/ \E t \in Calls : RefreshGet(k, t, c) \/ RevokeGetRefresh(k, t, c)
       \/ \E s \in AccessSignatures : RevokeGetAccess(k, s, c)
    /\ Enter(k, "core")
    /\ UNCHANGED <<pkceVars, idVars>>

\* The PKCE handler refuses, and with it the whole call.
PKCERefuse(k) ==
    /\ Drop(k)
    /\ Enter(k, "error")
    /\ refused' = refused \union {reqs[k].id}

\* Mutant: the absence of a session is always fine.
PKCEGetLenient(k) ==
    /\ stage[k] = "pkce_get"
    /\ \/ /\ pkceSessions[reqs[k].id] = None
          /\ Enter(k, "core")
          /\ UNCHANGED <<vars, pkceRead, refused>>
       \/ /\ pkceSessions[reqs[k].id] # None
          /\ pkceRead' = [pkceRead EXCEPT ![k] = pkceSessions[reqs[k].id]]
          /\ Enter(k, "pkce_delete")
          /\ UNCHANGED <<vars, refused>>
    /\ UNCHANGED <<pkceSessions, verifier, asked, idVars>>

\* GetPKCERequestSession.  Without a session there is nothing to verify, and
\* the question is whether the client may do without.
PKCEGet(k) ==
    /\ stage[k] = "pkce_get"
    /\ LET session == pkceSessions[reqs[k].id] IN
       \/ /\ session = None
          /\ verifier[k] = None /\ ValidateNoPKCE(reqs[k].client)
          /\ Enter(k, "core")
          /\ UNCHANGED <<vars, pkceRead, refused>>
       \/ /\ session = None
          /\ ~(verifier[k] = None /\ ValidateNoPKCE(reqs[k].client))
          /\ PKCERefuse(k)
          /\ UNCHANGED pkceRead
       \/ /\ session # None
          /\ pkceRead' = [pkceRead EXCEPT ![k] = session]
          /\ Enter(k, "pkce_delete")
          /\ UNCHANGED <<vars, refused>>
    /\ UNCHANGED <<pkceSessions, verifier, asked, idVars>>

\* Mutant: the session stays when the verification fails.
PKCEVerifyBeforeDelete(k) ==
    /\ stage[k] = "pkce_delete"
    /\ \/ /\ Verified(pkceRead[k], reqs[k].client, verifier[k])
          /\ pkceSessions' = [pkceSessions EXCEPT ![reqs[k].id] = None]
          /\ Enter(k, "core")
          /\ UNCHANGED <<vars, refused>>
       \/ /\ ~Verified(pkceRead[k], reqs[k].client, verifier[k])
          /\ PKCERefuse(k)
          /\ UNCHANGED pkceSessions
    /\ UNCHANGED <<verifier, pkceRead, asked, idVars>>

\* DeletePKCERequestSession, and then the verification of what was read.
PKCEVerify(k) ==
    /\ stage[k] = "pkce_delete"
    /\ pkceSessions' = [pkceSessions EXCEPT ![reqs[k].id] = None]
    /\ \/ /\ Verified(pkceRead[k], reqs[k].client, verifier[k])
          /\ Enter(k, "core")
          /\ UNCHANGED <<vars, refused>>
       \/ /\ ~Verified(pkceRead[k], reqs[k].client, verifier[k])
          /\ PKCERefuse(k)
    /\ UNCHANGED <<verifier, pkceRead, asked, idVars>>

-----------------------------------------------------------------------------
(* Token endpoint, phase 2.                                                *)

\* A step of a handler of TokenLifecycle, and what comes after its last.
Core(k) ==
    /\ stage[k] = "core"
    /\ Continue(k)
    /\ Enter(k, CASE pc'[k] \in Running -> "core"
                  [] pc'[k] = "exchanged" -> "oidc_get"
                  [] pc'[k] = "refreshed" -> "oidc_refresh"
                  [] pc'[k] \in {"replayed", "reused", "failed"} -> "error"
                  [] OTHER -> "done")
    /\ UNCHANGED <<pkceVars, idVars>>

\* GetOpenIDConnectSession; without a session there is no ID token.  A session
\* that was found is looked at before it is deleted: it must have the scope
\* openid and a subject.  The application can write to the session until here,
\* so the subject may be missing; the call then ends and the session stays.
IDTokenGet(k) ==
    /\ stage[k] = "oidc_get"
    /\ LET session == idSessions[reqs[k].id] IN
       /\ idRead' = [idRead EXCEPT ![k] = session]
       /\ \/ session = None /\ Enter(k, "done")
          \/ session # None /\ Enter(k, "error")
          \/ session # None /\ openid \in session.req.scopes /\ Enter(k, "oidc_delete")
    /\ UNCHANGED <<vars, pkceVars, idSessions, idTokens>>

\* DeleteOpenIDConnectSession and IssueExplicitIDToken, for the session that
\* was read.  An error here too is the error of the call: the client gets none
\* of the tokens, which are stored by now.
IDTokenIssue(k) ==
    /\ stage[k] = "oidc_delete"
    /\ idSessions' = [idSessions EXCEPT ![reqs[k].id] = None]
    /\ \/ /\ idRead[k].issuable
          /\ idTokens' = [idTokens EXCEPT ![k] = idRead[k].req]
          /\ Enter(k, "done")
       \/ /\ ~idRead[k].issuable
          /\ Enter(k, "error")
          /\ UNCHANGED idTokens
    /\ UNCHANGED <<vars, pkceVars, idRead>>

\* Mutant: the scope is not looked at.
IDTokenRefreshAlways(k) ==
    /\ stage[k] = "oidc_refresh"
    /\ \/ /\ idTokens' = [idTokens EXCEPT ![k] = reqs[k]]
          /\ Enter(k, "done")
       \/ /\ Enter(k, "error")
          /\ UNCHANGED idTokens
    /\ UNCHANGED <<vars, pkceVars, idSessions, idRead>>

\* The refresh handler of OpenID Connect keeps no session: it issues for the
\* request of the call.  It fails on a nonce of the call that is too short.
IDTokenRefresh(k) ==
    /\ stage[k] = "oidc_refresh"
    /\ \/ /\ openid \notin reqs[k].scopes
          /\ Enter(k, "done")
          /\ UNCHANGED idTokens
       \/ /\ openid \in reqs[k].scopes
          /\ idTokens' = [idTokens EXCEPT ![k] = reqs[k]]
          /\ Enter(k, "done")
       \/ /\ openid \in reqs[k].scopes
          /\ Enter(k, "error")
          /\ UNCHANGED idTokens
    /\ UNCHANGED <<vars, pkceVars, idSessions, idRead>>

-----------------------------------------------------------------------------

ExContinue(k) ==
    \/ PKCEGet(k) \/ PKCEVerify(k) \/ Core(k)
    \/ IDTokenGet(k) \/ IDTokenIssue(k) \/ IDTokenRefresh(k)

ExNext ==
    \/ \E a \in AuthReqs, c \in Clients, g \in SUBSET Scopes,
          type \in ResponseTypes, params \in PKCEParams, issuable \in BOOLEAN :
          AuthorizeRequest(a, c, g, type, params, issuable)
    \/ \E k \in Calls, a \in AuthReqs, c \in Clients, v \in Verifiers \union {None} :
          Exchange(k, a, c, v)
    \/ \E k \in Calls, c \in Clients : BeginOther(k, c)
    \/ \E k \in Calls : ExContinue(k)

ExSpec == ExInit /\ [][ExNext]_exVars

\* A handler runs to its end: no store method blocks for ever and none is
\* left out.  Nobody is obliged to make a call.
ExFairSpec == ExSpec /\ \A k \in Calls : WF_exVars(ExContinue(k))

-----------------------------------------------------------------------------
(* Properties.                                                             *)

\* Call k has consumed, or is about to consume, a code.
Redeeming(k) ==
    pc[k] \in {"code_invalidate", "code_create_at", "code_create_rt", "exchanged"}

Matches(params, v) ==
    v \notin Malformed \union {None} /\ params.challenge = Challenge(params.method, v)

\* Where PKCE is enforced for the client, no interleaving of calls redeems a
\* code without the verifier of the challenge it was asked for with: not the
\* call that finds the session already deleted by another, nor the one that
\* read it before it was.
VerifierProven ==
    \A k \in Calls : Redeeming(k) /\ ~ValidateNoPKCE(reqs[k].client) =>
        Matches(asked[reqs[k].id], verifier[k])

\* The session tables follow the code table, which different handlers write:
\* a consumed code has no PKCE session left to be verified against, and the
\* OpenID Connect session of a code that can still be redeemed is there.
SessionsFollowCode ==
    \A a \in AuthReqs : authorizeCodes[a] # None =>
        IF authorizeCodes[a].active
        THEN openid \in authorizeCodes[a].req.scopes => idSessions[a] # None
        ELSE pkceSessions[a] = None

\* An ID token goes out only with stored tokens and only for what the user
\* granted: openid among the scopes, to the client of the authorization, also
\* after any number of refreshes.
IDTokenBound ==
    \A k \in Calls : idTokens[k] # None =>
        /\ pc[k] \in {"exchanged", "refreshed"}
        /\ idTokens[k].id = reqs[k].id
        /\ openid \in idTokens[k].scopes
        /\ BoundTo(idTokens[k])

\* Where PKCE is enforced, and unless two calls for it overlapped, a code that
\* was presented with a wrong verifier once is never redeemed any more, by
\* whatever verifier: its PKCE session is gone.
RefusedNeverRedeemed ==
    \A k \in Calls :
        /\ pc[k] = "exchanged" /\ reqs[k].id \in refused \ raced
        => ValidateNoPKCE(reqs[k].client)

-----------------------------------------------------------------------------
(* What the documentation says and the code does not do (README, findings).*)

\* pkce/handler.go: the method that "is bound to the Authorization Code when
\* the Authorization Code is issued" is the method "that the token endpoint
\* MUST use to verify the code_verifier".
ChallengeIsVerified ==
    \A k \in Calls :
        Redeeming(k) /\ asked[reqs[k].id].challenge # None =>
            Matches(asked[reqs[k].id], verifier[k])
=============================================================================
