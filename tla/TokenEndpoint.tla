--------------------------- MODULE TokenEndpoint ---------------------------
(***************************************************************************)
(* The grants that need no earlier request - client credentials, password  *)
(* and signed assertion - and the revocation of their tokens: how a call   *)
(* is authenticated (ClientAuthentication), dispatched to the handlers of  *)
(* the composition (Composition), served, and answered (ErrorValues),      *)
(* while the operator changes the registration of the clients and the      *)
(* store may fail (access_request_handler.go, access_response_writer.go,   *)
(* revoke_handler.go, handler/oauth2, handler/rfc7523).                    *)
(*                                                                         *)
(* A call is both its request ID and the access and the refresh token that *)
(* it may issue: a request of these grants issues one of each at most.     *)
(***************************************************************************)
EXTENDS ClientAuthentication, ScopeMatching, Composition, FiniteSetsExt

CONSTANTS
    Calls,               \* calls of the two endpoints
    Configs,             \* configurations, of which one is in force
    Factories,           \* what Compose is called with
    Registrations,       \* what the operator may register a client as, or None
    TokenForms,          \* requests of the token endpoint
    RevokeCredentials,   \* credentials at the revocation endpoint
    RefreshTokenScopes,  \* scopes of which one earns a refresh token
    Passwords,           \* the password of each user
    KeyScopes,           \* what each trusted key of an issuer may ask for
    JTIs,                \* JWT IDs
    MaxFaults            \* bound: failures of the store

Jwt == "urn:ietf:params:oauth:grant-type:jwt-bearer"

Config == [canSkipClientAuth : BOOLEAN, idOptional : BOOLEAN,
           scopeStrategy : ScopeStrategies]

\* proof is a user with a password, a key with a JWT ID or without one, or
\* nothing.
NoProof == <<None, None>>
Evidence == UNION {DOMAIN Passwords, {Passwords[u] : u \in DOMAIN Passwords},
                   DOMAIN KeyScopes, JTIs, {None}}
TokenForm == [grants : Seq(GrantTypes), cred : Credentials,
              scopes : SUBSET Scopes, proof : Evidence \X Evidence]

Kinds == {"access", "refresh"}
RevocationForm == [cred : Credentials, kind : Kinds, token : Calls]

Requester == [client : Client \union {Anonymous}, scopes : SUBSET Scopes]
NewRequest == [client |-> Anonymous, scopes |-> {}]

\* RefreshTokens has a session and whether it is active.
RefreshToken == [active : BOOLEAN, req : Requester]

Status == {200, 400, 401, 403, 404, 409, 500, 503}

\* A scope value has a part at least.
ASSUME ScopeAssumption == Scopes \subseteq Seq(STRING) \ {<< >>}

ASSUME AbsentAssumption ==
    /\ None \notin Client \union Secrets \union Requester \union RefreshToken
    /\ None \notin TokenForm \union RevocationForm \union Status
    /\ Anonymous \notin Client

ASSUME EndpointAssumption ==
    /\ Configs \subseteq Config
    /\ Factories \in Seq(DOMAIN Interfaces)
    /\ DOMAIN Registrations = ClientIDs
    /\ \A id \in ClientIDs : Registrations[id] \subseteq {c \in Client : c.id = id} \union {None}
    /\ TokenForms \subseteq TokenForm
    /\ RevokeCredentials \subseteq Credentials
    /\ RefreshTokenScopes \subseteq Scopes
    /\ \A key \in DOMAIN KeyScopes : KeyScopes[key] \subseteq Scopes
    /\ MaxFaults \in Nat

VARIABLES
    config,         \* the settings
    clients,        \* Clients
    usedJTIs,       \* BlacklistedJTIs
    accessTokens,   \* AccessTokens, by the call that issued them
    refreshTokens,  \* RefreshTokens, likewise
    stage,          \* where a call is
    form,           \* what it was called with
    requester,      \* the request it builds up: client and granted scopes
    clientErr,      \* the error of its client authentication
    turn,           \* the handler whose turn it is, by its factory
    storeErr,       \* the error of RevokeRefreshToken
    response,       \* the status it was answered with
    issued,         \* history: the access tokens it has issued
    faults          \* failures of the store so far

callVars == <<stage, form, requester, clientErr, turn, storeErr, response>>
tokenVars == <<accessTokens, refreshTokens, issued>>
vars == <<config, clients, usedJTIs, callVars, tokenVars, faults>>

TokenHandlers == Compose("token", Factories)
RevocationHandlers == Compose("revoke", Factories)

Init ==
    /\ config \in Configs
    /\ clients \in [ClientIDs -> UNION {Registrations[id] : id \in ClientIDs}]
    /\ \A id \in ClientIDs : clients[id] \in Registrations[id]
    /\ usedJTIs = {}
    /\ accessTokens = [k \in Calls |-> None]
    /\ refreshTokens = [k \in Calls |-> None]
    /\ stage = [k \in Calls |-> "none"]
    /\ form = [k \in Calls |-> None]
    /\ requester = [k \in Calls |-> NewRequest]
    /\ clientErr = [k \in Calls |-> nil]
    /\ turn = [k \in Calls |-> 0]
    /\ storeErr = [k \in Calls |-> nil]
    /\ response = [k \in Calls |-> None]
    /\ issued = [k \in Calls |-> << >>]
    /\ faults = 0

-----------------------------------------------------------------------------
(* The world outside.                                                      *)

\* The operator registers a client anew, or removes it.
Register(id, registration) ==
    /\ clients' = [clients EXCEPT ![id] = registration]
    /\ UNCHANGED <<config, usedJTIs, callVars, tokenVars, faults>>

\* A call of the token endpoint.
Request(k, f) ==
    /\ stage[k] = "none"
    /\ form' = [form EXCEPT ![k] = f]
    /\ stage' = [stage EXCEPT ![k] = "token"]
    /\ UNCHANGED <<config, clients, usedJTIs, requester, clientErr, turn, storeErr,
                   response, tokenVars, faults>>

\* A call of the revocation endpoint, with a token that was answered.
RequestRevocation(k, cred, kind, t) ==
    /\ stage[k] = "none"
    /\ response[t] = 200 /\ issued[t] # << >>
    /\ kind = "refresh" => refreshTokens[t] # None
    /\ form' = [form EXCEPT ![k] = [cred |-> cred, kind |-> kind, token |-> t]]
    /\ stage' = [stage EXCEPT ![k] = "revocation"]
    /\ UNCHANGED <<config, clients, usedJTIs, requester, clientErr, turn, storeErr,
                   response, tokenVars, faults>>

\* What the store answers: mostly no error.
Fails == faults < MaxFaults /\ faults' = faults + 1
Works == UNCHANGED faults

Enter(k, s) == stage' = [stage EXCEPT ![k] = s]

Answer(k, status) ==
    /\ response' = [response EXCEPT ![k] = status]
    /\ Enter(k, "done")
    /\ UNCHANGED <<form, requester, clientErr, turn, storeErr>>

-----------------------------------------------------------------------------
(* Dispatch.                                                               *)

\* The grant each of the handlers of the token endpoint answers for.
GrantOf(handler) ==
    CASE handler = "OAuth2ClientCredentialsGrantFactory" -> "client_credentials"
      [] handler = "OAuth2ResourceOwnerPasswordCredentialsFactory" -> "password"
      [] handler = "RFC7523AssertionGrantFactory" -> Jwt
      [] OTHER -> "another grant"

CanHandle(handler, f) == ExactOne(f.grants, GrantOf(handler))

\* The handlers that are responsible for a call, those of them that are still
\* to come in this loop, and the grant of the one whose turn it is.
Served(k) == {i \in TokenHandlers : CanHandle(Factories[i], form[k])}
Later(k) == {i \in Served(k) : i > turn[k]}
Turn(k) == GrantOf(Factories[turn[k]])

\* Only the assertion handler lets a call pass without a client.
CanSkipClientAuth(grant) == grant = Jwt /\ config.canSkipClientAuth

\* NewAccessRequest: the error of the authentication is kept for the handlers.
Authenticate(k) ==
    /\ stage[k] = "token"
    /\ LET result == AuthenticateClient(clients, form[k].cred) IN
       IF result[1] = "client"
       THEN /\ requester' = [requester EXCEPT ![k].client = result[2]]
            /\ UNCHANGED clientErr
       ELSE /\ clientErr' = [clientErr EXCEPT ![k] = result[2]]
            /\ UNCHANGED requester
    /\ turn' = [turn EXCEPT ![k] = IF Served(k) = {} THEN 0 ELSE Min(Served(k))]
    /\ Enter(k, "handle")
    /\ UNCHANGED <<config, clients, usedJTIs, form, storeErr, response, tokenVars,
                   faults>>

\* No handler was responsible.
NotFound(k) ==
    /\ stage[k] = "handle"
    /\ Served(k) = {}
    /\ Answer(k, StatusCode(<<"ErrInvalidRequest">>))
    /\ UNCHANGED <<config, clients, usedJTIs, tokenVars, faults>>

\* The next handler, or the end of a loop.
NextTurn(k, loop, after) ==
    /\ turn' = [turn EXCEPT ![k] = Min(IF Later(k) # {} THEN Later(k) ELSE Served(k))]
    /\ Enter(k, IF Later(k) # {} THEN loop ELSE after)

-----------------------------------------------------------------------------
(* HandleTokenEndpointRequest of the three grants.                         *)

Requested(k) == form[k].scopes
HasGrantType(k, grant) == grant \in GetGrantTypes(requester[k].client)

Permits(haystack, k) ==
    \A scope \in Requested(k) : ScopeStrategy(config.scopeStrategy, haystack, scope)

\* The check of the grant type comes with the response.
ClientCredentialsError(k) ==
    LET client == requester[k].client IN
    IF ~Permits(client.scopes, k) THEN <<"ErrInvalidScope">>
    ELSE IF client.public THEN <<"ErrInvalidGrant">>
    ELSE nil

PasswordError(k) ==
    LET user == form[k].proof[1] IN
    IF ~HasGrantType(k, "password") THEN <<"ErrUnauthorizedClient">>
    ELSE IF ~Permits(requester[k].client.scopes, k) THEN <<"ErrInvalidScope">>
    ELSE IF None \in {user, form[k].proof[2]} THEN <<"ErrInvalidRequest">>
    ELSE IF user \in DOMAIN Passwords /\ Passwords[user] = form[k].proof[2] THEN nil
    ELSE WithWrap("ErrInvalidGrant", <<"ErrNotFound">>)

\* CheckRequest of the assertion handler, in both of its phases.
CheckRequest(k) ==
    IF ~config.canSkipClientAuth /\ ~HasGrantType(k, Jwt)
    THEN <<"ErrUnauthorizedClient">> ELSE nil

\* The scopes are those of the key, not those of the client.
AssertionError(k) ==
    LET key == form[k].proof[1] IN
    IF CheckRequest(k) # nil THEN CheckRequest(k)
    ELSE IF key = None THEN <<"ErrInvalidRequest">>
    ELSE IF key \notin DOMAIN KeyScopes THEN WithWrap("ErrInvalidGrant", <<"ErrNotFound">>)
    ELSE IF form[k].proof[2] = None /\ ~config.idOptional THEN <<"ErrInvalidGrant">>
    ELSE IF form[k].proof[2] \in usedJTIs THEN <<"ErrJTIKnown">>
    ELSE IF ~Permits(KeyScopes[key], k) THEN <<"ErrInvalidScope">>
    ELSE nil

GrantError(k) ==
    CASE Turn(k) = "client_credentials" -> ClientCredentialsError(k)
      [] Turn(k) = "password" -> PasswordError(k)
      [] Turn(k) = Jwt -> AssertionError(k)

\* The error with which the loop of NewAccessRequest ends.
RequestError(k) ==
    IF clientErr[k] # nil /\ ~CanSkipClientAuth(Turn(k)) THEN clientErr[k]
    ELSE GrantError(k)

RefuseRequest(k) ==
    /\ stage[k] = "handle" /\ Served(k) # {}
    /\ RequestError(k) # nil
    /\ Answer(k, StatusCode(RequestError(k)))
    /\ UNCHANGED <<config, clients, usedJTIs, tokenVars, faults>>

\* The assertion handler has to use the JWT ID up first.
HandleTokenEndpointRequest(k) ==
    /\ stage[k] = "handle" /\ Served(k) # {}
    /\ RequestError(k) = nil
    /\ IF Turn(k) = Jwt THEN Enter(k, "mark") /\ UNCHANGED turn
       ELSE NextTurn(k, "handle", "consent")
    /\ UNCHANGED <<config, clients, usedJTIs, form, requester, clientErr, storeErr,
                   response, tokenVars, faults>>

\* Mutant: that the ID was new before is enough.
MarkedAny(k) == FALSE

\* Another call may have used it since it was looked up: the store refuses then.
Marked(k) == form[k].proof[2] \in usedJTIs

\* MarkJWTUsedForTime, if there is an ID; then all requested scopes are granted.
MarkJWTUsedForTime(k) ==
    /\ stage[k] = "mark"
    /\ IF Marked(k)
       THEN /\ Answer(k, StatusCode(WithWrap("ErrServerError", <<"ErrJTIKnown">>)))
            /\ UNCHANGED usedJTIs
       ELSE /\ usedJTIs' = usedJTIs \union ({form[k].proof[2]} \ {None})
            /\ requester' = [requester EXCEPT ![k].scopes = Requested(k)]
            /\ NextTurn(k, "handle", "consent")
            /\ UNCHANGED <<form, clientErr, storeErr, response>>
    /\ UNCHANGED <<config, clients, tokenVars, faults>>

\* The application grants some of the requested scopes, between the phases.
GrantScopes(k, scopes) ==
    /\ stage[k] = "consent"
    /\ scopes \subseteq Requested(k)
    /\ requester' = [requester EXCEPT ![k].scopes = @ \union scopes]
    /\ Enter(k, "populate")
    /\ UNCHANGED <<config, clients, usedJTIs, form, clientErr, turn, storeErr,
                   response, tokenVars, faults>>

-----------------------------------------------------------------------------
(* PopulateTokenEndpointResponse of the three grants.                      *)

ResponseError(k) ==
    CASE Turn(k) = "client_credentials" ->
            IF HasGrantType(k, "client_credentials") THEN nil
            ELSE <<"ErrUnauthorizedClient">>
      [] Turn(k) = "password" -> nil
      [] Turn(k) = Jwt -> CheckRequest(k)

RefuseResponse(k) ==
    /\ stage[k] = "populate"
    /\ ResponseError(k) # nil
    /\ Answer(k, StatusCode(ResponseError(k)))
    /\ UNCHANGED <<config, clients, usedJTIs, tokenVars, faults>>

EarnsRefreshToken(k) ==
    /\ Turn(k) = "password"
    /\ RefreshTokenScopes = {} \/ HasOneOf(requester[k].scopes, RefreshTokenScopes)

\* IssueAccessToken; an error of the store is returned as it is.
IssueAccessToken(k) ==
    /\ stage[k] = "populate"
    /\ ResponseError(k) = nil
    /\ \/ /\ Works
          /\ accessTokens' = [accessTokens EXCEPT ![k] = requester[k]]
          /\ issued' = [issued EXCEPT ![k] = Append(@, requester[k])]
          /\ IF EarnsRefreshToken(k)
             THEN Enter(k, "refresh") /\ UNCHANGED <<turn, response>>
             ELSE IF Later(k) # {}
             THEN NextTurn(k, "populate", "done") /\ UNCHANGED response
             ELSE Enter(k, "done") /\ response' = [response EXCEPT ![k] = 200]
                  /\ UNCHANGED turn
          /\ UNCHANGED <<form, requester, clientErr, storeErr>>
       \/ /\ Fails
          /\ Answer(k, StatusCode(<<"errStorage">>))
          /\ UNCHANGED <<accessTokens, issued>>
    /\ UNCHANGED <<config, clients, usedJTIs, refreshTokens>>

\* When this write fails the access token stays, and nobody was told of it.
CreateRefreshTokenSession(k) ==
    /\ stage[k] = "refresh"
    /\ \/ /\ Works
          /\ refreshTokens' = [refreshTokens EXCEPT ![k] =
                                  [active |-> TRUE, req |-> requester[k]]]
          /\ IF Later(k) # {}
             THEN NextTurn(k, "populate", "done") /\ UNCHANGED response
             ELSE Enter(k, "done") /\ response' = [response EXCEPT ![k] = 200]
                  /\ UNCHANGED turn
          /\ UNCHANGED <<form, requester, clientErr, storeErr>>
       \/ /\ Fails
          /\ Answer(k, StatusCode(WithWrap("ErrServerError", <<"errStorage">>)))
          /\ UNCHANGED refreshTokens
    /\ UNCHANGED <<config, clients, usedJTIs, accessTokens, issued>>

-----------------------------------------------------------------------------
(* The revocation endpoint.                                                *)

\* WriteRevocationResponse: any other error is a success as well.
RevocationStatus(err) ==
    IF Is(err, "ErrInvalidRequest") THEN 400
    ELSE IF Is(err, "ErrInvalidClient") THEN 401
    ELSE 200

\* storeErrorsToRevocationError
RevocationError(err1, err2) ==
    LET Gone(err) == err = nil \/ Is(err, "ErrNotFound") \/ Is(err, "ErrInactiveToken")
    IN IF Gone(err1) /\ Gone(err2) THEN nil ELSE <<"ErrTemporarilyUnavailable">>

\* NewRevocationRequest: the client, and whether there is a handler.
AuthenticateRevocation(k) ==
    /\ stage[k] = "revocation"
    /\ LET result == AuthenticateClient(clients, form[k].cred) IN
       IF result[1] = "error" THEN Answer(k, RevocationStatus(result[2]))
       ELSE IF RevocationHandlers = {}
       THEN Answer(k, RevocationStatus(<<"ErrInvalidRequest">>))
       ELSE /\ requester' = [requester EXCEPT ![k].client = result[2]]
            /\ Enter(k, "discover")
            /\ UNCHANGED <<form, clientErr, turn, storeErr, response>>
    /\ UNCHANGED <<config, clients, usedJTIs, tokenVars, faults>>

\* The request of the token, by either table: the string is in one of them at
\* most, so the hint, which says where to look first, changes nothing.
Found(k) ==
    LET t == form[k].token IN
    IF form[k].kind = "access" THEN accessTokens[t]
    ELSE IF refreshTokens[t] # None /\ refreshTokens[t].active
         THEN refreshTokens[t].req ELSE None

\* Mutant: any client may revoke.
OwnsAny(k, req) == TRUE

\* The anonymous client has the empty ID, which nobody authenticates as.
Owns(k, req) == req.client # Anonymous /\ req.client.id = requester[k].client.id

DiscoverToken(k) ==
    /\ stage[k] = "discover"
    /\ \/ Fails /\ Answer(k, RevocationStatus(RevocationError(<<"errStorage">>, <<"ErrNotFound">>)))
       \/ /\ Works
          /\ IF Found(k) = None
             THEN Answer(k, RevocationStatus(RevocationError(<<"ErrNotFound">>, <<"ErrNotFound">>)))
             ELSE IF ~Owns(k, Found(k))
             THEN Answer(k, RevocationStatus(<<"ErrUnauthorizedClient">>))
             ELSE Enter(k, "revoke_refresh")
                  /\ UNCHANGED <<form, requester, clientErr, turn, storeErr, response>>
    /\ UNCHANGED <<config, clients, usedJTIs, tokenVars>>

\* An error of the first write does not keep the second one back.
RevokeRefreshToken(k) ==
    /\ stage[k] = "revoke_refresh"
    /\ \/ /\ Works
          /\ refreshTokens' = [refreshTokens EXCEPT ![form[k].token] =
                IF @ = None THEN None ELSE [@ EXCEPT !.active = FALSE]]
          /\ UNCHANGED storeErr
       \/ /\ Fails
          /\ storeErr' = [storeErr EXCEPT ![k] = <<"errStorage">>]
          /\ UNCHANGED refreshTokens
    /\ Enter(k, "revoke_access")
    /\ UNCHANGED <<config, clients, usedJTIs, form, requester, clientErr, turn,
                   response, accessTokens, issued>>

RevokeAccessToken(k) ==
    /\ stage[k] = "revoke_access"
    /\ \/ /\ Works
          /\ accessTokens' = [accessTokens EXCEPT ![form[k].token] = None]
          /\ Answer(k, RevocationStatus(RevocationError(storeErr[k], nil)))
       \/ /\ Fails
          /\ Answer(k, RevocationStatus(RevocationError(storeErr[k], <<"errStorage">>)))
          /\ UNCHANGED accessTokens
    /\ UNCHANGED <<config, clients, usedJTIs, refreshTokens, issued>>

-----------------------------------------------------------------------------

TokenStep(k) ==
    \/ \E f \in TokenForms : Request(k, f)
    \/ Authenticate(k) \/ NotFound(k)
    \/ RefuseRequest(k) \/ HandleTokenEndpointRequest(k) \/ MarkJWTUsedForTime(k)
    \/ \E scopes \in SUBSET Scopes : GrantScopes(k, scopes)
    \/ RefuseResponse(k) \/ IssueAccessToken(k) \/ CreateRefreshTokenSession(k)

RevocationStep(k) ==
    \/ \E cred \in RevokeCredentials, kind \in Kinds, t \in Calls :
          RequestRevocation(k, cred, kind, t)
    \/ AuthenticateRevocation(k) \/ DiscoverToken(k)
    \/ RevokeRefreshToken(k) \/ RevokeAccessToken(k)

Next ==
    \/ \E id \in ClientIDs : \E registration \in Registrations[id] :
          Register(id, registration)
    \/ \E k \in Calls : TokenStep(k) \/ RevocationStep(k)

Spec == Init /\ [][Next]_vars
-----------------------------------------------------------------------------
(* Properties.                                                             *)

Stages == {"none", "token", "handle", "mark", "consent", "populate", "refresh",
           "revocation", "discover", "revoke_refresh", "revoke_access", "done"}

EndpointTypeOK ==
    /\ config \in Config
    /\ clients \in [ClientIDs -> Client \union {None}]
    /\ usedJTIs \subseteq Evidence
    /\ accessTokens \in [Calls -> Requester \union {None}]
    /\ refreshTokens \in [Calls -> RefreshToken \union {None}]
    /\ stage \in [Calls -> Stages]
    /\ form \in [Calls -> TokenForm \union RevocationForm \union {None}]
    /\ requester \in [Calls -> Requester]
    /\ clientErr \in [Calls -> Error]
    /\ turn \in [Calls -> {0} \union TokenHandlers]
    /\ storeErr \in [Calls -> Error]
    /\ response \in [Calls -> Status \union {None}]
    /\ issued \in [Calls -> Seq(Requester)]
    /\ faults \in 0 .. MaxFaults

\* A client has proved to be itself if it used one way that it is registered
\* for, and that way is enough.
Proved(c, cred) ==
    LET secret == {c.hash} \union c.rotated
        uses(method) == c.oidc => c.method = method IN
    \/ /\ c.public /\ uses("none")
       /\ \/ cred.id = c.id
          \/ \E s \in Secrets \union {None} : cred.basic = <<c.id, s>>
    \/ c.oidc /\ c.method = "private_key_jwt" /\ cred.assertion = c.id
    \/ \E s \in secret : cred.basic = <<c.id, s>> /\ uses("client_secret_basic")
    \/ /\ cred.basic = None /\ cred.id = c.id /\ cred.secret \in secret
       /\ uses("client_secret_post")

\* Whatever mix of header, form and assertion a call presents, and however its
\* registration changes meanwhile, it acts for a client only with a proof that
\* the client it read is registered for; and it acts for no client only where
\* assertions are accepted without one.
ClientProvedItself ==
    \A k \in Calls :
        /\ requester[k].client # Anonymous => Proved(requester[k].client, form[k].cred)
        /\ issued[k] # << >> /\ requester[k].client = Anonymous
           => config.canSkipClientAuth /\ form[k].grants = <<Jwt>>

IsPrefixOf(p, s) == Len(p) <= Len(s) /\ SubSeq(s, 1, Len(p)) = p

\* What a registered scope stands for, by the documentation of the strategies.
Meaning(strategy, p) ==
    CASE strategy = "exact" -> {p}
      [] strategy = "hierarchic" -> {s \in Scopes : IsPrefixOf(p, s)}
      [] strategy = "wildcard" ->
            {s \in Scopes :
                LET open == Len(s) > Len(p) IN
                /\ Len(s) >= Len(p)
                /\ open => p[Len(p)] = "*"
                /\ \A i \in DOMAIN p : p[i] \in {s[i]} \union
                      (IF s[i] = "" THEN {} ELSE {"*"})}

\* What is stored was within the registration of the client that the call was
\* authenticated as - of the key that signed, for an assertion - although the
\* checks are spread over two phases and the scopes are granted in between.
WithinRegistration ==
    \A k \in Calls :
        accessTokens[k] # None =>
            LET req == accessTokens[k]
                grant == form[k].grants[1]
                registered == IF grant = Jwt THEN KeyScopes[form[k].proof[1]]
                              ELSE req.client.scopes IN
            /\ \A s \in req.scopes :
                  \E p \in registered : s \in Meaning(config.scopeStrategy, p)
            /\ grant # Jwt \/ ~config.canSkipClientAuth
               => grant \in GetGrantTypes(req.client)
            /\ grant = "client_credentials" => ~req.client.public

\* A call stores one access token at most and an assertion with an ID leads to
\* one call's tokens at most, whatever was composed, in whichever order.
IssuedOnce ==
    /\ \A k \in Calls : Len(issued[k]) <= 1
    /\ \A j, k \in Calls :
          /\ j # k
          /\ issued[j] # << >> /\ issued[k] # << >>
          /\ form[j].grants = <<Jwt>> /\ form[k].grants = <<Jwt>>
          /\ form[j].proof[2] # None
          => form[j].proof[2] # form[k].proof[2]

\* A call that is answered with an error has not stored an access token before,
\* unless it was the write of its refresh token that failed: a composition that
\* names a factory twice, or a late check, would leave tokens nobody knows of.
RefusedIssuesNothing ==
    \A k \in Calls :
        response[k] \notin {None, 200} /\ issued[k] # << >>
        => response[k] = 500 /\ form[k].grants = <<"password">> /\ refreshTokens[k] = None

\* A call that came to revoke the tokens of k, for the client they belong to.
Revoked(r, k) ==
    /\ form[r] # None /\ "token" \in DOMAIN form[r] /\ form[r].token = k
    /\ stage[r] \in {"revoke_access", "done"}
    /\ requester[r].client # Anonymous /\ issued[k][1].client # Anonymous
    /\ requester[r].client.id = issued[k][1].client.id

\* An access token disappears, and a refresh token is deactivated, only by a
\* revocation of the client they were issued to, and the refresh token of a
\* request never survives a revocation that went well while its access token
\* is gone.
RevokedByItsClient ==
    \A k \in Calls :
        issued[k] # << >> =>
            /\ accessTokens[k] = None =>
                  \E r \in Calls :
                     /\ Revoked(r, k)
                     /\ refreshTokens[k] # None /\ refreshTokens[k].active
                        => storeErr[r] # nil
            /\ refreshTokens[k] # None /\ ~refreshTokens[k].active =>
                  \E r \in Calls : Revoked(r, k)

-----------------------------------------------------------------------------
(* What the documentation says and the code does not do (README, findings).*)

\* revoke_handler.go: "responds with HTTP status code 200 if the token has
\* been revoked successfully or if the client submitted an invalid token".
AcknowledgedIsRevoked ==
    \A r \in Calls :
        /\ stage[r] = "done" /\ response[r] = 200
        /\ form[r] # None /\ "token" \in DOMAIN form[r]
        /\ Owns(r, issued[form[r].token][1])
        => Found(r) = None
=============================================================================
