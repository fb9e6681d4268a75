-------------------------- MODULE AuthorizeEndpoint -------------------------
(***************************************************************************)
(* The authorize endpoint and the pushed authorization requests (PAR) that *)
(* lead to it.  NewPushedAuthorizeRequest and its handler validate a form  *)
(* like one of the authorize endpoint and store it under a request_uri.    *)
(* NewAuthorizeRequest validates the form of a browser, or, when it names  *)
(* a request_uri, reads the pushed request, merges it into the form and    *)
(* deletes it.  Then the user is asked, and NewAuthorizeResponse runs the  *)
(* handlers in the order of compose.go:                                    *)
(*                                                                         *)
(*    code, implicit, OpenID code, OpenID implicit, hybrid, PKCE           *)
(*                                                                         *)
(* Each of them looks at the response types it is responsible for, stores  *)
(* what it issues and adds it to the response, which goes out only if no   *)
(* handler fails.  What a call stores has a random key of its own, so the  *)
(* tables are indexed by the call, and writes of one handler are one step: *)
(* nobody holds the keys before the response is written.                   *)
(***************************************************************************)
CONSTANTS
    Calls,             \* calls of the authorize endpoint
    RequestURIs, Clients, Redirects, Scopes,
    openid,            \* the scope "openid"
    None,
    PushedForms,       \* the forms that clients push
    Forms,             \* the forms that browsers send
    ClientScopes, RedirectURIs, ResponseTypes, ResponseModes, GrantTypes,
                       \* what is registered for each client
    PublicClients, SecureRedirects, IgnoreUnknownScopes,
    EnforcePKCE, EnforcePKCEForPublicClients, EnablePKCEPlainChallengeMethod

Parts == {"code", "token", "id_token"}
Modes == {"query", "fragment", "form_post"}
Nonces == {None, "short", "long"}
Challenges == {None, "challenge"}
Methods == {None, "plain", "S256", "other"}
Defaults == {"", "query", "fragment"}

\* A request object stands for the claims that replace parameters of the form;
\* it is valid if it was found, its signature and its times are.
Objects == [valid : BOOLEAN, client : {None} \union Clients,
            scopes : {None} \union SUBSET Scopes, redirect : {None} \union Redirects]

\* fine: the state is long enough, the prompts are known, the resource is a
\* resource indicator and there is no registration parameter.
Form == [client : Clients, uri : {None} \union RequestURIs,
         response : SUBSET Parts, mode : Modes \union {"", "unknown"},
         scopes : SUBSET Scopes, redirect : {None} \union Redirects,
         nonce : Nonces, challenge : Challenges, method : Methods, fine : BOOLEAN,
         object : {None} \union Objects]

\* AuthorizeRequest.  redirect is where the answer goes, form.redirect the
\* redirect_uri parameter.
Request == [client : Clients, response : SUBSET Parts, mode : Modes,
            default : Defaults, scopes : SUBSET Scopes,
            redirect : Redirects, form : Form]

Code == [client : Clients, scopes : SUBSET Scopes, redirect : {None} \union Redirects]
Token == [client : Clients, scopes : SUBSET Scopes]
Proof == [challenge : Challenges, method : Methods]
Response == [params : SUBSET Parts, handled : SUBSET Parts,
             default : Defaults]
Outcome == [error : BOOLEAN, params : SUBSET Parts, mode : {None} \union Modes,
            redirect : {None} \union Redirects]

ASSUME AuthorizeAssumption ==
    /\ Forms \subseteq Form
    /\ PushedForms \subseteq Form
    /\ ClientScopes \in [Clients -> SUBSET Scopes]
    /\ RedirectURIs \in [Clients -> SUBSET Redirects]
    /\ ResponseTypes \in [Clients -> SUBSET SUBSET Parts]
    /\ ResponseModes \in [Clients -> SUBSET Modes]
    /\ GrantTypes \in [Clients -> SUBSET {"authorization_code", "implicit"}]
    /\ PublicClients \subseteq Clients
    /\ SecureRedirects \subseteq Redirects
    /\ openid \in Scopes
    /\ {IgnoreUnknownScopes, EnforcePKCE, EnforcePKCEForPublicClients,
        EnablePKCEPlainChallengeMethod} \subseteq BOOLEAN
    /\ None \notin Redirects \union RequestURIs \union Clients
    /\ None \notin Request \union Outcome \union Code \union Token \union Proof
    /\ None \notin Parts \union {"challenge", "short", "long", "plain", "S256"} \union Modes

VARIABLES
    enforce,        \* EnforcePushedAuthorize; the configuration does not change
    parSessions,    \* PARSessions
    stage,          \* where a call is: a handler, or between them
    asked,          \* the form of the browser
    req,            \* the authorize request of a call
    granted,        \* the scopes the user granted
    resp,           \* the response so far
    outcome,        \* what was written to the browser
    codes, accessTokens, idSessions, pkceSessions,   \* what a call stored
    pushed,         \* history: the request stored under a request_uri
    raced           \* history: pairs of calls that overlapped on one

stores == <<codes, accessTokens, idSessions, pkceSessions>>
answers == <<granted, resp, outcome>>
history == <<pushed, raced>>
vars == <<enforce, parSessions, stage, asked, req, answers, stores, history>>

Handlers == {"explicit", "implicit", "oidc_explicit", "oidc_implicit", "hybrid",
             "pkce", "finish"}

Stages == {"idle", "par_delete", "consent", "done"} \union Handlers

AuthorizeTypeOK ==
    /\ enforce \in BOOLEAN
    /\ parSessions \in [RequestURIs -> {None} \union Request]
    /\ pushed \in [RequestURIs -> {None} \union Request]
    /\ stage \in [Calls -> Stages]
    /\ asked \in [Calls -> {None} \union Forms]
    /\ req \in [Calls -> {None} \union Request]
    /\ granted \in [Calls -> SUBSET Scopes]
    /\ resp \in [Calls -> Response]
    /\ outcome \in [Calls -> {None} \union Outcome]
    /\ codes \in [Calls -> {None} \union Code]
    /\ accessTokens \in [Calls -> {None} \union Token]
    /\ idSessions \in SUBSET Calls
    /\ pkceSessions \in [Calls -> {None} \union Proof]
    /\ raced \in SUBSET (Calls \X Calls)

NoResponse == [params |-> {}, handled |-> {}, default |-> ""]

Init ==
    /\ enforce \in BOOLEAN
    /\ parSessions = [u \in RequestURIs |-> None]
    /\ pushed = [u \in RequestURIs |-> None]
    /\ stage = [k \in Calls |-> "idle"]
    /\ asked = [k \in Calls |-> None]
    /\ req = [k \in Calls |-> None]
    /\ granted = [k \in Calls |-> {}]
    /\ resp = [k \in Calls |-> NoResponse]
    /\ outcome = [k \in Calls |-> None]
    /\ codes = [k \in Calls |-> None]
    /\ accessTokens = [k \in Calls |-> None]
    /\ idSessions = {}
    /\ pkceSessions = [k \in Calls |-> None]
    /\ raced = {}

-----------------------------------------------------------------------------
(* newAuthorizeRequest: from a form to a request.                          *)

\* Without openid in the form itself a request object is not looked at.
HasObject(f) == openid \in f.scopes /\ f.object # None

ObjectAccepted(f) ==
    HasObject(f) => f.object.valid /\ f.object.client \in {None, f.client}

\* The form with the claims of its request object set over its parameters.
Effective(f) ==
    IF ~HasObject(f) THEN f
    ELSE [f EXCEPT !.scopes = IF f.object.scopes = None THEN @ ELSE f.object.scopes,
                   !.redirect = IF f.object.redirect = None THEN @ ELSE f.object.redirect]

RequestedScopes(f) ==
    IF IgnoreUnknownScopes THEN f.scopes \intersect ClientScopes[f.client]
    ELSE f.scopes

\* MatchRedirectURIWithClientRedirectURIs; None if there is no match.
Match(c, raw) ==
    IF raw # None THEN IF raw \in RedirectURIs[c] THEN raw ELSE None
    ELSE IF \E r \in Redirects : RedirectURIs[c] = {r}
         THEN CHOOSE r \in Redirects : RedirectURIs[c] = {r}
         ELSE None

RedirectAccepted(f) ==
    /\ openid \in RequestedScopes(f) => f.redirect # None
    /\ Match(f.client, f.redirect) # None

\* The checks after the redirect URI is known.
ParametersAccepted(f) ==
    /\ RequestedScopes(f) \subseteq ClientScopes[f.client]
    /\ f.response # {} /\ f.response \in ResponseTypes[f.client]
    /\ f.mode = "" \/ f.mode \in ResponseModes[f.client]
    /\ f.fine

Accepted(f) ==
    /\ ObjectAccepted(f)
    /\ f.mode # "unknown"
    /\ RedirectAccepted(Effective(f))
    /\ ParametersAccepted(Effective(f))

\* Where the error of a form that is not accepted is sent; None: it is shown to
\* the user.  After a faulty request object the form alone decides, and openid
\* does not yet call for a redirect_uri.
ErrorRedirect(f) ==
    IF ~ObjectAccepted(f) THEN Match(f.client, f.redirect)
    ELSE IF f.mode = "unknown" \/ ~RedirectAccepted(Effective(f)) THEN None
    ELSE Match(f.client, Effective(f).redirect)

DefaultMode(response) == IF response = {"code"} THEN "query" ELSE "fragment"

\* The request made of an accepted form.
NewRequest(f) ==
    LET g == Effective(f) IN
    [client |-> f.client, response |-> f.response,
     mode |-> IF f.mode = "" THEN DefaultMode(f.response) ELSE f.mode,
     default |-> IF f.mode = "" THEN DefaultMode(f.response) ELSE "",
     scopes |-> RequestedScopes(g), redirect |-> Match(f.client, g.redirect),
     form |-> g]

-----------------------------------------------------------------------------
(* Pushed authorization requests.                                          *)

\* The form is that of a client that has authenticated; its client_id says for
\* which client the request is.  A form that is refused leaves no trace.
Push(u, f) ==
    /\ pushed[u] = None
    /\ f.uri = None
    /\ Accepted(f)
    /\ LET r == NewRequest(f) IN
       /\ openid \in r.scopes => r.form.redirect # None
       /\ r.redirect \in SecureRedirects
       /\ r.scopes \subseteq ClientScopes[r.client]
       /\ parSessions' = [parSessions EXCEPT ![u] = r]
       /\ pushed' = [pushed EXCEPT ![u] = r]
    /\ UNCHANGED <<enforce, stage, asked, req, answers, stores, raced>>

Or(x, y) == IF x # None THEN x ELSE y

\* Parameters that the pushed form has not, the browser's may add.
MergeForm(b, f) ==
    [f EXCEPT !.uri = b.uri, !.redirect = Or(f.redirect, b.redirect),
              !.nonce = Or(f.nonce, b.nonce), !.challenge = Or(f.challenge, b.challenge),
              !.method = Or(f.method, b.method)]

\* Request.Merge and the lines after it: the pushed request, its parameters set
\* over those of the browser's form.
Merge(b, p) == [p EXCEPT !.default = "", !.form = MergeForm(b, p.form)]

-----------------------------------------------------------------------------
(* NewAuthorizeRequest.                                                    *)

Goto(k, s) == stage' = [stage EXCEPT ![k] = s]

\* WriteAuthorizeError; in which mode it sends the error is left out.
Refuse(k, redirect) ==
    /\ outcome' = [outcome EXCEPT ![k] =
                     [error |-> TRUE, params |-> {}, mode |-> None, redirect |-> redirect]]
    /\ Goto(k, "done")

\* A form without the request_uri of a pushed request.
Direct(k, f) ==
    /\ stage[k] = "idle" /\ f.uri = None
    /\ asked' = [asked EXCEPT ![k] = f]
    /\ \/ /\ enforce
          /\ Refuse(k, None)
          /\ UNCHANGED req
       \/ /\ ~enforce /\ ~Accepted(f)
          /\ Refuse(k, ErrorRedirect(f))
          /\ UNCHANGED req
       \/ /\ ~enforce /\ Accepted(f)
          /\ req' = [req EXCEPT ![k] = NewRequest(f)]
          /\ Goto(k, "consent")
          /\ UNCHANGED outcome
    /\ UNCHANGED <<enforce, parSessions, granted, resp, stores, history>>

\* authorizeRequestFromPAR: GetPARSession and the merge.  Nothing is validated
\* again.
GetPAR(k, f) ==
    /\ stage[k] = "idle" /\ f.uri # None
    /\ asked' = [asked EXCEPT ![k] = f]
    /\ LET session == parSessions[f.uri]
           others == {j \in Calls : stage[j] = "par_delete" /\ asked[j].uri = f.uri}
       IN
       \/ /\ session = None
          /\ Refuse(k, None)
          /\ UNCHANGED <<req, raced>>
       \/ /\ session # None
          /\ req' = [req EXCEPT ![k] = Merge(f, session)]
          /\ raced' = raced \union ({k} \X others) \union (others \X {k})
          /\ Goto(k, "par_delete")
          /\ UNCHANGED outcome
    /\ UNCHANGED <<enforce, parSessions, granted, resp, stores, pushed>>

\* Mutant: the clients are compared before the session is deleted.
DeletePARLate(k) ==
    /\ stage[k] = "par_delete"
    /\ \/ /\ asked[k].client # req[k].client
          /\ Refuse(k, req[k].redirect)
          /\ UNCHANGED parSessions
       \/ /\ asked[k].client = req[k].client
          /\ parSessions' = [parSessions EXCEPT ![asked[k].uri] = None]
          /\ Goto(k, "consent")
          /\ UNCHANGED outcome
    /\ UNCHANGED <<enforce, asked, req, granted, resp, stores, history>>

\* DeletePARSession, and the comparison of the clients after it.
DeletePAR(k) ==
    /\ stage[k] = "par_delete"
    /\ parSessions' = [parSessions EXCEPT ![asked[k].uri] = None]
    /\ \/ /\ asked[k].client # req[k].client
          /\ Refuse(k, req[k].redirect)
       \/ /\ asked[k].client = req[k].client
          /\ Goto(k, "consent")
          /\ UNCHANGED outcome
    /\ UNCHANGED <<enforce, asked, req, granted, resp, stores, history>>

-----------------------------------------------------------------------------
(* Between the two calls the application asks the user, who denies or      *)
(* grants some of the scopes.                                              *)

Consent(k) ==
    /\ stage[k] = "consent"
    /\ \/ /\ Refuse(k, req[k].redirect)
          /\ UNCHANGED <<granted, resp>>
       \/ /\ granted' \in {[granted EXCEPT ![k] = g] : g \in SUBSET req[k].scopes}
          /\ resp' = [resp EXCEPT ![k] = [NoResponse EXCEPT !.default = req[k].default]]
          /\ Goto(k, "explicit")
          /\ UNCHANGED outcome
    /\ UNCHANGED <<enforce, parSessions, asked, req, stores, history>>

-----------------------------------------------------------------------------
(* NewAuthorizeResponse: the handlers.                                     *)

Fail(k) == Refuse(k, req[k].redirect) /\ UNCHANGED resp

\* The handler is done; it has added ps to the response and handled hs.
Pass(k, next, ps, hs, default) ==
    /\ resp' = [resp EXCEPT ![k] = [params |-> @.params \union ps,
                                    handled |-> @.handled \union hs,
                                    default |-> default]]
    /\ Goto(k, next)
    /\ UNCHANGED outcome

Skip(k, next) == Goto(k, next) /\ UNCHANGED <<resp, outcome, stores>>

ScopesAllowed(k) == req[k].scopes \subseteq ClientScopes[req[k].client]
MayUse(k, grant) == grant \in GrantTypes[req[k].client]
OpenIDGranted(k) == openid \in granted[k]

StoreCode(k) ==
    codes' = [codes EXCEPT ![k] = [client |-> req[k].client, scopes |-> granted[k],
                                   redirect |-> req[k].form.redirect]]
StoreToken(k) ==
    accessTokens' = [accessTokens EXCEPT ![k] =
                       [client |-> req[k].client, scopes |-> granted[k]]]

Unread == <<enforce, parSessions, asked, req, granted, history>>

\* AuthorizeExplicitGrantHandler: the response type is code alone.
Explicit(k) ==
    /\ stage[k] = "explicit"
    /\ LET fits == req[k].response = {"code"}
           allowed == req[k].redirect \in SecureRedirects /\ ScopesAllowed(k)
       IN
       \/ ~fits /\ Skip(k, "implicit")
       \/ fits /\ ~allowed /\ Fail(k) /\ UNCHANGED stores
       \/ /\ fits /\ allowed
          /\ StoreCode(k)
          /\ Pass(k, "implicit", {"code"}, {"code"}, "query")
          /\ UNCHANGED <<accessTokens, idSessions, pkceSessions>>
    /\ UNCHANGED Unread

\* AuthorizeImplicitGrantTypeHandler: the response type is token alone.
Implicit(k) ==
    /\ stage[k] = "implicit"
    /\ LET fits == req[k].response = {"token"}
           allowed == MayUse(k, "implicit") /\ ScopesAllowed(k)
       IN
       \/ ~fits /\ Skip(k, "oidc_explicit")
       \/ fits /\ ~allowed /\ Fail(k) /\ UNCHANGED stores
       \/ /\ fits /\ allowed
          /\ StoreToken(k)
          /\ Pass(k, "oidc_explicit", {"token"}, {"token"}, "fragment")
          /\ UNCHANGED <<codes, idSessions, pkceSessions>>
    /\ UNCHANGED Unread

\* ValidatePrompt, which the OpenID handlers call, looks at the session that the
\* application made and at the user's login: it refuses or does not.

\* OpenIDConnectExplicitHandler: a session for the code the first one stored.
OIDCExplicit(k) ==
    /\ stage[k] = "oidc_explicit"
    /\ LET fits == OpenIDGranted(k) /\ req[k].response = {"code"}
       IN
       \/ ~fits /\ Skip(k, "oidc_implicit")
       \/ fits /\ Fail(k) /\ UNCHANGED stores
       \/ /\ fits /\ req[k].form.redirect # None
          /\ idSessions' = idSessions \union {k}
          /\ Pass(k, "oidc_implicit", {}, {}, resp[k].default)
          /\ UNCHANGED <<codes, accessTokens, pkceSessions>>
    /\ UNCHANGED Unread

\* OpenIDConnectImplicitHandler: an ID token, with an access token or without.
OIDCImplicit(k) ==
    /\ stage[k] = "oidc_implicit"
    /\ LET response == req[k].response
           fits == OpenIDGranted(k) /\ "id_token" \in response /\ "code" \notin response
           allowed == /\ MayUse(k, "implicit") /\ ScopesAllowed(k)
                      /\ req[k].form.redirect # None /\ req[k].form.nonce = "long"
       IN
       \/ ~fits /\ Skip(k, "hybrid")
       \/ fits /\ Fail(k) /\ UNCHANGED stores
       \/ /\ fits /\ allowed
          /\ IF "token" \in response THEN StoreToken(k) ELSE UNCHANGED accessTokens
          /\ \/ Fail(k)
             \/ Pass(k, "hybrid", response, response, "fragment")
          /\ UNCHANGED <<codes, idSessions, pkceSessions>>
    /\ UNCHANGED Unread

\* Mutant: the session is for the ID token of the response alone.
HybridSessionsForIDToken(k) ==
    IF OpenIDGranted(k) /\ "id_token" \in req[k].response THEN idSessions \union {k}
    ELSE idSessions

\* CreateOpenIDConnectSession: the token endpoint is to issue an ID token as well.
HybridSessions(k) == IF OpenIDGranted(k) THEN idSessions \union {k} ELSE idSessions

\* OpenIDConnectHybridHandler: a code together with other things.  It stores the
\* code and its session, then checks whether the client may have the token,
\* stores it and issues the ID token: a failure leaves behind what is stored.
Hybrid(k) ==
    /\ stage[k] = "hybrid"
    /\ LET response == req[k].response
           form == req[k].form
           fits == "code" \in response /\ response # {"code"}
           allowed == /\ form.nonce # "short"
                      /\ "id_token" \in response => form.nonce # None
                      /\ form.redirect # None /\ ScopesAllowed(k)
                      /\ MayUse(k, "authorization_code")
           token == "token" \in response
           idToken == "id_token" \in response /\ OpenIDGranted(k)
           issued == {"code"} \union (response \intersect {"token"})
                     \union (IF idToken THEN {"id_token"} ELSE {})
       IN
       \/ ~fits /\ Skip(k, "pkce")
       \/ fits /\ Fail(k) /\ UNCHANGED stores
       \/ /\ fits /\ allowed
          /\ StoreCode(k)
          /\ idSessions' = HybridSessions(k)
          /\ IF token /\ MayUse(k, "implicit") THEN StoreToken(k)
             ELSE UNCHANGED accessTokens
          /\ \/ /\ idToken \/ (token /\ ~MayUse(k, "implicit"))
                /\ Fail(k)
             \/ /\ token => MayUse(k, "implicit")
                /\ Pass(k, "pkce", issued, issued \union {"id_token"}, "fragment")
          /\ UNCHANGED pkceSessions
    /\ UNCHANGED Unread

ValidateNoPKCE(c) ==
    ~EnforcePKCE /\ ~(EnforcePKCEForPublicClients /\ c \in PublicClients)

\* Mutant: a method is as good as a challenge.
ValidateMethod(form, c) ==
    IF form.challenge = None /\ form.method = None THEN ValidateNoPKCE(c)
    ELSE form.method = "S256" \/ EnablePKCEPlainChallengeMethod

\* validate of handler/pkce.
Validate(form, c) ==
    IF form.challenge = None THEN ValidateNoPKCE(c)
    ELSE \/ form.method = "S256"
         \/ form.method \in {None, "plain"} /\ EnablePKCEPlainChallengeMethod

\* The PKCE handler comes last, when codes and tokens are stored.
PKCE(k) ==
    /\ stage[k] = "pkce"
    /\ LET form == req[k].form
           fits == "code" \in req[k].response
           proof == [challenge |-> form.challenge, method |-> form.method]
       IN
       \/ ~fits /\ Skip(k, "finish")
       \/ fits /\ ~Validate(form, req[k].client) /\ Fail(k) /\ UNCHANGED stores
       \/ /\ fits /\ Validate(form, req[k].client)
          /\ pkceSessions' = IF proof = [challenge |-> None, method |-> None]
                             THEN pkceSessions
                             ELSE [pkceSessions EXCEPT ![k] = proof]
          /\ Pass(k, "finish", {}, {}, resp[k].default)
          /\ UNCHANGED <<codes, accessTokens, idSessions>>
    /\ UNCHANGED Unread

\* Mutant: the mode is not looked at.
FinishAnyMode(k) ==
    /\ stage[k] = "finish"
    /\ outcome' = [outcome EXCEPT ![k] =
                     [error |-> FALSE, params |-> resp[k].params,
                      mode |-> req[k].mode, redirect |-> req[k].redirect]]
    /\ Goto(k, "done")
    /\ UNCHANGED <<resp, stores, Unread>>

\* The end of NewAuthorizeResponse, and WriteAuthorizeResponse.
Finish(k) ==
    /\ stage[k] = "finish"
    /\ LET complete == req[k].response \subseteq resp[k].handled
           exposed == resp[k].default = "fragment" /\ req[k].mode = "query"
       IN
       \/ (~complete \/ exposed) /\ Fail(k)
       \/ /\ complete /\ ~exposed
          /\ outcome' = [outcome EXCEPT ![k] =
                           [error |-> FALSE, params |-> resp[k].params,
                            mode |-> req[k].mode, redirect |-> req[k].redirect]]
          /\ Goto(k, "done")
          /\ UNCHANGED resp
    /\ UNCHANGED <<stores, Unread>>

-----------------------------------------------------------------------------

Respond(k) ==
    \/ Explicit(k) \/ Implicit(k) \/ OIDCExplicit(k) \/ OIDCImplicit(k)
    \/ Hybrid(k) \/ PKCE(k) \/ Finish(k)

Next ==
    \/ \E u \in RequestURIs, f \in PushedForms : Push(u, f)
    \/ \E k \in Calls, f \in Forms : Direct(k, f) \/ GetPAR(k, f)
    \/ \E k \in Calls : DeletePAR(k) \/ Consent(k) \/ Respond(k)

Spec == Init /\ [][Next]_vars

-----------------------------------------------------------------------------
(* Properties.                                                             *)

Answered(k) == outcome[k] # None /\ ~outcome[k].error

\* A call that presented a request_uri and found it.
Presented(k, u) == asked[k] # None /\ asked[k].uri = u /\ req[k] # None

\* A pushed request is good for one call, be it answered or refused or by a
\* client that it is not for; only calls that overlap can both have read it.
PushedUsedOnce ==
    \A u \in RequestURIs : \A j, k \in Calls :
        Presented(j, u) /\ Presented(k, u) /\ j # k => <<j, k>> \in raced

\* Whatever a browser adds to a request_uri, the answer is the one to the pushed
\* request: for its client, which also sent the browser, with its response
\* types, its mode and its redirect URI, for no more than its scopes.  Where
\* pushed requests are enforced there is no other answer.
PushedGoverns ==
    \A k \in Calls : Answered(k) =>
        /\ enforce => asked[k].uri # None
        /\ asked[k].uri # None =>
              LET p == pushed[asked[k].uri] IN
              /\ p # None
              /\ asked[k].client = p.client /\ req[k].client = p.client
              /\ outcome[k].redirect = p.redirect /\ outcome[k].mode = p.mode
              /\ outcome[k].params \subseteq p.response
              /\ granted[k] \subseteq p.scopes

\* An answer is whole.  It has what the request asked for, an ID token only if
\* openid was granted, and everything the token endpoint will look for is
\* stored: the code, its OpenID Connect session and the proof it demands.
AnswerComplete ==
    \A k \in Calls : Answered(k) =>
        LET ps == outcome[k].params
            form == req[k].form
        IN
        /\ ps = {p \in req[k].response : p = "id_token" => openid \in granted[k]}
        /\ "code" \in ps <=> codes[k] # None
        /\ "token" \in ps <=> accessTokens[k] # None
        /\ k \in idSessions <=> "code" \in ps /\ openid \in granted[k]
        /\ "code" \in ps =>
              pkceSessions[k] = IF form.challenge = None /\ form.method = None THEN None
                                ELSE [challenge |-> form.challenge, method |-> form.method]

\* Where PKCE is required of a client, no code goes out without a challenge, and
\* a challenge has a method that is supported.
CodeDemandsProof ==
    \A k \in Calls : Answered(k) /\ "code" \in outcome[k].params =>
        IF pkceSessions[k] = None \/ pkceSessions[k].challenge = None
        THEN ValidateNoPKCE(req[k].client)
        ELSE pkceSessions[k].method \in
                {"S256"} \union (IF EnablePKCEPlainChallengeMethod THEN {None, "plain"} ELSE {})

\* Answers and errors are sent to nothing but a redirect URI that the client has
\* registered, tokens never in a query, and the code is bound to the redirect
\* URI it went to, unless a pushed request left the parameter to the browser.
AnswerReachesClient ==
    \A k \in Calls : outcome[k] # None /\ outcome[k].redirect # None =>
        LET c == IF req[k] = None THEN asked[k].client ELSE req[k].client IN
        /\ outcome[k].redirect \in RedirectURIs[c]
        /\ outcome[k].mode = "query" => outcome[k].params = {"code"}
        /\ Answered(k) /\ codes[k] # None =>
              \/ codes[k].redirect \in {None, outcome[k].redirect}
              \/ asked[k].uri # None /\ pushed[asked[k].uri].form.redirect = None

-----------------------------------------------------------------------------
(* What the documentation says and the code does not do (README, findings).*)

\* config_default.go: when pushed requests are enforced, "a client cannot pass
\* authorize parameters at the 'authorize' endpoint".
EnforcedIsPushed ==
    \A k \in Calls : Answered(k) /\ enforce =>
        \A x \in {"redirect", "nonce", "challenge", "method"} :
            req[k].form[x] = pushed[asked[k].uri].form[x]
=============================================================================
