------------------------------ MODULE IdTokens ------------------------------
(***************************************************************************)
(* OpenID Connect (handler/openid) over JWT access tokens: which ID token  *)
(* and which access token each response of a grant carries, from the front *)
(* channel over the exchange of the code to the refresh calls.             *)
(*                                                                         *)
(* The claims of both tokens live in the session, and the session is       *)
(* shared: the authorize request, the stored code, the stored OpenID       *)
(* Connect session and the calls that exchange the code all hold one       *)
(* pointer, so what one handler writes the next one reads.  A refresh call *)
(* works on a clone.  The steps of an exchange are those between which     *)
(* another call can run: reading the code, storing the tokens, reading the *)
(* OpenID Connect session, writing at_hash, generating the ID token.       *)
(*                                                                         *)
(* Requests have the scope openid, and the client every grant type.  How   *)
(* codes and refresh tokens are revoked is in TokenLifecycle.              *)
(***************************************************************************)
EXTENDS JwtTokens

CONSTANTS
    AuthReqs, Calls,       \* authorize requests and token endpoint calls
    None,
    MaxTime,               \* bound of the clock; it starts at 1
    KeyPairs,              \* the key pairs the signer gets, one after the other
    IDTokenLifespan,       \* the effective lifespan of each grant
    DefaultExpiryTime,     \* defaultExpiryTime
    AccessTokenLifespan,
    Leeway,                \* the seconds auth_time may be ahead of the clock
    AllowedPrompts,
    Forms,      \* of an authorize request, with the times of its session
    Subject, ClientID, Issuer,
    GrantedScopes, GrantedAudience, ScopeField

ASSUME IdTokensAssumption ==
    /\ AuthReqs \intersect Calls = {}
    /\ "" \notin AuthReqs \union Calls
    /\ KeyPairs \in Seq(Range(KeyPairs)) /\ Len(KeyPairs) > 0
    /\ Unsigned \notin Range(KeyPairs)
    /\ MaxTime \in Nat \ {0} /\ DefaultExpiryTime \in Nat \ {0}
    /\ AccessTokenLifespan \in Nat /\ Leeway \in Nat
    /\ IDTokenLifespan \in
          [{"implicit", "authorization_code", "refresh_token"} -> Nat]
    /\ ScopeField \in ScopeFields

\* What an authorize request says, and the times its session has.
ASSUME FormsAssumption ==
    \A f \in Forms :
        /\ f.types \subseteq {"code", "token", "id_token"}
        /\ {f.maxAge, f.authTime, f.rat} \subseteq Nat

Steps == {"presented", "generated", "stored", "found", "bound", "done", "failed"}

\* A call: the authorize request and the call whose token it came with.
Call == [req : AuthReqs, parent : Calls \union {None}, step : Steps,
         nonce : {"", "other"}, err : {"nil", "ErrServerError", "ErrInsufficientEntropy"}]

ASSUME NothingAssumption ==
    /\ None \notin AuthReqs \union Calls \union Forms \union Call
    /\ None \notin {"active", "used", "stored", "deleted"}

VARIABLES
    now,
    pair,          \* the key pair of the signer
    forms,         \* of each authorize request that was answered
    sessions,      \* the session objects: of authorize requests, and clones
    codes,         \* the stored authorization codes
    oidcSessions,  \* the stored OpenID Connect sessions
    calls,         \* what each token endpoint call does
    accessTokens,  \* the JWT access tokens, of the requests and calls that issued one
    idTokens       \* the ID tokens, of the responses that carry one

vars == <<now, pair, forms, sessions, codes, oidcSessions, calls, accessTokens, idTokens>>

Issuers == AuthReqs \union Calls

\* i issues a token.
Issued(tokens, i, token) ==
    [j \in DOMAIN tokens \union {i} |-> IF j = i THEN token ELSE tokens[j]]

\* *rsa.PrivateKey
Key == [kind |-> "PrivateKey", type |-> "rsa", alg |-> "", pair |-> pair]

NewSession == [id |-> NewIDTokenClaims, jwt |-> NewJWTClaims, accessExp |-> 0]

IdInit ==
    /\ now = 1
    /\ pair = KeyPairs[1]
    /\ forms = [a \in AuthReqs |-> None]
    /\ sessions = [i \in Issuers |-> NewSession]
    /\ codes = [a \in AuthReqs |-> None]
    /\ oidcSessions = [a \in AuthReqs |-> None]
    /\ calls = [k \in Calls |-> None]
    /\ accessTokens = [i \in {} |-> None]
    /\ idTokens = [i \in {} |-> None]

-----------------------------------------------------------------------------
(* The checks.                                                             *)

Has(prompt, p) == \E i \in 1..Len(prompt) : prompt[i] = p

\* The subject of id_token_hint: an expired token is fine, another error is not.
HintError(hint, subject, decodeFails, noSubject, otherSubject) ==
    IF hint = None THEN "nil"
    ELSE LET errors == Decode(hint, Key, now) IN
         IF errors # {} /\ "Expired" \notin errors THEN decodeFails
         ELSE IF StringOf(hint.claims, "sub") = "" THEN noSubject
         ELSE IF StringOf(hint.claims, "sub") # subject THEN otherSubject
         ELSE "nil"

\* max_age against the two times of the session.
MaxAgeError(f, c, tooOld) ==
    IF f.maxAge = 0 THEN "nil"
    ELSE IF c.authTime = 0 \/ c.rat = 0 THEN "ErrServerError"
    ELSE IF c.authTime + f.maxAge < c.rat THEN tooOld
    ELSE "nil"

\* Mutant: max_age is left to GenerateIDToken.
ValidatePromptNoMaxAge(f, c) ==
    IF c.sub = "" \/ c.authTime > now + Leeway THEN "ErrServerError"
    ELSE IF Has(f.prompt, "none") /\ c.authTime > c.rat THEN "ErrLoginRequired"
    ELSE IF Has(f.prompt, "login") /\ c.authTime < c.rat THEN "ErrLoginRequired"
    ELSE HintError(f.hint, c.sub, "ErrInvalidRequest", "ErrInvalidRequest", "ErrLoginRequired")

\* Mutant: prompt is compared as a whole.
ValidatePromptWhole(f, c) ==
    IF c.authTime > now + Leeway THEN "ErrServerError"
    ELSE IF MaxAgeError(f, c, "ErrLoginRequired") # "nil"
    THEN MaxAgeError(f, c, "ErrLoginRequired")
    ELSE IF f.prompt = <<"login">> /\ c.authTime < c.rat THEN "ErrLoginRequired"
    ELSE "nil"

\* ValidatePrompt, of the authorize endpoint.
ValidatePrompt(f, c) ==
    IF f.public /\ Has(f.prompt, "none") /\ ~f.secureRedirect THEN "ErrConsentRequired"
    ELSE IF \E i \in 1..Len(f.prompt) : f.prompt[i] \notin AllowedPrompts
    THEN "ErrInvalidRequest"
    ELSE IF Has(f.prompt, "none") /\ Len(f.prompt) > 1 THEN "ErrInvalidRequest"
    ELSE IF c.sub = "" \/ c.authTime > now + Leeway THEN "ErrServerError"
    ELSE IF MaxAgeError(f, c, "ErrLoginRequired") # "nil"
    THEN MaxAgeError(f, c, "ErrLoginRequired")
    ELSE IF Has(f.prompt, "none") /\ c.authTime = 0 THEN "ErrServerError"
    ELSE IF Has(f.prompt, "none") /\ c.authTime > c.rat THEN "ErrLoginRequired"
    ELSE IF Has(f.prompt, "login") /\ c.authTime < c.rat THEN "ErrLoginRequired"
    ELSE HintError(f.hint, c.sub, "ErrInvalidRequest", "ErrInvalidRequest", "ErrLoginRequired")

\* The part of GenerateIDToken that a refresh call skips.
RequestError(f, c) ==
    IF c.authTime > now + Leeway THEN "ErrServerError"
    ELSE IF MaxAgeError(f, c, "ErrServerError") # "nil" THEN "ErrServerError"
    ELSE IF f.prompt # <<>> /\ c.authTime = 0 THEN "ErrServerError"
    ELSE IF f.prompt = <<"none">> /\ c.authTime > c.rat THEN "ErrServerError"
    ELSE IF f.prompt = <<"login">> /\ c.authTime < c.rat THEN "ErrServerError"
    ELSE HintError(f.hint, c.sub, "ErrServerError", "ErrServerError", "ErrServerError")

WithAcr(f, c) ==
    IF f.acrValues /\ c.acr = "" THEN [c EXCEPT !.acr = "0"] ELSE c

\* An expiry that is set stays, whatever the lifespan of the grant.
WithExpiry(c, lifespan) ==
    IF c.exp # 0 THEN c
    ELSE [c EXCEPT !.exp = now + IF lifespan = 0 THEN DefaultExpiryTime ELSE lifespan]

Completed(c, nonce) ==
    [c EXCEPT !.authTime = IF @ = 0 THEN now ELSE @,
              !.iss = IF @ = "" THEN Issuer ELSE @,
              !.nonce = IF nonce = "" THEN @ ELSE nonce,
              !.aud = IF \E i \in 1..Len(@) : @[i] = ClientID THEN @
                      ELSE Append(@, ClientID),
              !.iat = now]

\* GenerateIDToken: its error, and the claims it leaves in the session.  f is
\* None where grant_type is refresh_token.
GenerateIDToken(f, nonce, c, lifespan) ==
    LET refresh == f = None
        dated == WithExpiry(IF refresh THEN c ELSE WithAcr(f, c), lifespan)
        err == IF c.sub = "" THEN "ErrServerError"
               ELSE IF ~refresh /\ RequestError(f, c) # "nil" THEN "ErrServerError"
               ELSE IF dated.exp < now THEN "ErrServerError"
               ELSE IF nonce = "short" THEN "ErrInsufficientEntropy"
               ELSE "nil"
    IN [err |-> err, claims |-> IF err = "nil" THEN Completed(dated, nonce) ELSE dated]

\* The ID token of these claims; at is when it is issued.
IDToken(c, i) ==
    [raw |-> Generate(IDTokenToMap(c, i), NoClaims, Key), at |-> now]

\* GenerateAccessToken writes into the claims of the session.
SignedClaims(s) ==
    WithScopeField(WithDefaults(With(s.jwt, s.accessExp, GrantedScopes, GrantedAudience),
                                now, Issuer), ScopeField)

AccessToken(s, i) ==
    [raw |-> Generate(JWTToMap(SignedClaims(s), i), NoClaims, Key), expiresAt |-> s.accessExp]

-----------------------------------------------------------------------------
(* The authorize endpoint.                                                 *)

Hybrid(f) == "code" \in f.types /\ f.types # {"code"}

\* What the handlers want of the nonce before they begin.
NonceFits(f) ==
    IF f.types = {"code"} THEN TRUE
    ELSE /\ "id_token" \in f.types => f.nonce # ""
         /\ f.nonce # "short"

\* IssueImplicitAccessToken sets an expiry where there is none.
WithFrontToken(f, s) ==
    IF "token" \notin f.types THEN s
    ELSE LET dated == [s EXCEPT !.accessExp = IF @ = 0 THEN now + AccessTokenLifespan ELSE @]
         IN [dated EXCEPT !.jwt = SignedClaims(dated)]

\* The hashes of what the response carries.
WithHashes(f, s, a) ==
    [s EXCEPT !.id.cHash = IF Hybrid(f) THEN a ELSE @,
              !.id.atHash = IF "token" \in f.types THEN a ELSE @]

\* The handlers for code (explicit), for code with something (hybrid) and for
\* id_token without code (implicit), on a session that the application filled
\* in.  A request that fails leaves nothing the client gets to know.
Authorize(a, f) ==
    LET start == [NewSession EXCEPT
            !.id.sub = Subject, !.id.authTime = f.authTime, !.id.rat = f.rat,
            !.jwt.sub = Subject, !.jwt.extra = Claim("client_id", String(ClientID))]
        tokened == WithHashes(f, WithFrontToken(f, start), a)
        generated == GenerateIDToken(f, f.nonce, tokened.id, IDTokenLifespan["implicit"])
    IN
    /\ forms[a] = None
    /\ NonceFits(f)
    /\ ValidatePrompt(f, start.id) = "nil"
    /\ forms' = [forms EXCEPT ![a] = f]
    /\ IF "code" \in f.types
       THEN /\ codes' = [codes EXCEPT ![a] = "active"]
            /\ oidcSessions' = [oidcSessions EXCEPT ![a] = "stored"]
       ELSE UNCHANGED <<codes, oidcSessions>>
    /\ accessTokens' = IF "token" \in f.types
                       THEN Issued(accessTokens, a, AccessToken(WithFrontToken(f, start), a))
                       ELSE accessTokens
    /\ IF "id_token" \in f.types
       THEN /\ generated.err = "nil"
            /\ sessions' = [sessions EXCEPT ![a] = [tokened EXCEPT !.id = generated.claims]]
            /\ idTokens' = Issued(idTokens, a, IDToken(generated.claims, a))
       ELSE /\ sessions' = [sessions EXCEPT ![a] = tokened]
            /\ UNCHANGED idTokens
    /\ UNCHANGED <<now, pair, calls>>

-----------------------------------------------------------------------------
(* The exchange of a code.                                                 *)

At(k, step) == calls[k] # None /\ calls[k].step = step
Goto(k, step) == calls' = [calls EXCEPT ![k].step = step]
Fail(k, err) == calls' = [calls EXCEPT ![k].step = "failed", ![k].err = err]

\* The session a call works on.
Session(k) == IF calls[k].parent = None THEN calls[k].req ELSE k

\* HandleTokenEndpointRequest of the code handler.
Present(k, a) ==
    /\ calls[k] = None
    /\ codes[a] = "active"
    /\ calls' = [calls EXCEPT ![k] =
          [req |-> a, parent |-> None, step |-> "presented", nonce |-> "", err |-> "nil"]]
    /\ sessions' = [sessions EXCEPT ![a].accessExp = now + AccessTokenLifespan]
    /\ UNCHANGED <<now, pair, forms, codes, oidcSessions, accessTokens, idTokens>>

\* PopulateTokenEndpointResponse of the code handler, to GenerateAccessToken:
\* the code is read a second time.
Generated(k) ==
    /\ At(k, "presented")
    /\ LET a == calls[k].req IN
          IF codes[a] # "active"
          THEN /\ Fail(k, "ErrServerError")
               /\ UNCHANGED <<sessions, accessTokens>>
          ELSE /\ accessTokens' = Issued(accessTokens, k, AccessToken(sessions[a], k))
               /\ sessions' = [sessions EXCEPT ![a].jwt = SignedClaims(sessions[a])]
               /\ Goto(k, "generated")
    /\ UNCHANGED <<now, pair, forms, codes, oidcSessions, idTokens>>

\* Mutant: the code is not invalidated.
StoreKeepsCode(k) ==
    /\ At(k, "generated")
    /\ Goto(k, "stored")
    /\ UNCHANGED <<now, pair, forms, codes, sessions, oidcSessions, accessTokens, idTokens>>

\* The rest of it.
Store(k) ==
    /\ At(k, "generated")
    /\ codes' = [codes EXCEPT ![calls[k].req] = "used"]
    /\ Goto(k, "stored")
    /\ UNCHANGED <<now, pair, forms, sessions, oidcSessions, accessTokens, idTokens>>

\* PopulateTokenEndpointResponse of OpenIDConnectExplicitHandler.  Without an
\* OpenID Connect session it is not responsible, and there is no ID token.
Lookup(k) ==
    /\ At(k, "stored")
    /\ Goto(k, IF oidcSessions[calls[k].req] = "stored" THEN "found" ELSE "done")
    /\ UNCHANGED <<now, pair, forms, sessions, codes, oidcSessions, accessTokens, idTokens>>

\* DeleteOpenIDConnectSession, which does not mind that it is gone; at_hash.
Bind(k) ==
    /\ At(k, "found")
    /\ oidcSessions' = [oidcSessions EXCEPT ![calls[k].req] = "deleted"]
    /\ sessions' = [sessions EXCEPT ![calls[k].req].id.atHash = k]
    /\ Goto(k, "bound")
    /\ UNCHANGED <<now, pair, forms, codes, accessTokens, idTokens>>

\* oidcParameters without nonce.
IssueWithoutNonce(k) ==
    LET a == calls[k].req
        generated == GenerateIDToken(forms[a], "", sessions[a].id,
                                     IDTokenLifespan["authorization_code"])
    IN
    /\ At(k, "bound")
    /\ sessions' = [sessions EXCEPT ![a].id = generated.claims]
    /\ IF generated.err # "nil" THEN Fail(k, generated.err) /\ UNCHANGED idTokens
       ELSE /\ idTokens' = Issued(idTokens, k, IDToken(generated.claims, k))
            /\ Goto(k, "done")
    /\ UNCHANGED <<now, pair, forms, codes, oidcSessions, accessTokens>>

\* IssueExplicitIDToken, from the stored form.
Issue(k) ==
    LET a == calls[k].req
        generated == GenerateIDToken(forms[a], forms[a].nonce, sessions[a].id,
                                     IDTokenLifespan["authorization_code"])
    IN
    /\ At(k, "bound")
    /\ sessions' = [sessions EXCEPT ![a].id = generated.claims]
    /\ IF generated.err # "nil" THEN Fail(k, generated.err) /\ UNCHANGED idTokens
       ELSE /\ idTokens' = Issued(idTokens, k, IDToken(generated.claims, k))
            /\ Goto(k, "done")
    /\ UNCHANGED <<now, pair, forms, codes, oidcSessions, accessTokens>>

-----------------------------------------------------------------------------
(* Refresh.                                                                *)

\* Mutant: at_hash is not computed again.
ResetClaimsKeepsHash(c, k) == [c EXCEPT !.exp = 0, !.jti = k, !.cHash = ""]

\* What HandleTokenEndpointRequest and PopulateTokenEndpointResponse of
\* OpenIDConnectRefreshHandler leave of the claims of the clone.
ResetClaims(c, k) == [c EXCEPT !.exp = 0, !.jti = k, !.cHash = "", !.atHash = k]

\* The refresh token p was answered with is exchanged for the first time.  No other call has
\* the clone, so the handlers are one step; nonce is a value of the call's form.
Refresh(k, p, nonce) ==
    LET clone == [sessions[Session(p)] EXCEPT !.accessExp = now + AccessTokenLifespan]
        generated == GenerateIDToken(None, nonce, ResetClaims(clone.id, k),
                                     IDTokenLifespan["refresh_token"])
    IN
    /\ calls[k] = None
    /\ At(p, "done") /\ \A j \in Calls : calls[j] # None => calls[j].parent # p
    /\ accessTokens' = Issued(accessTokens, k, AccessToken(clone, k))
    /\ sessions' = [sessions EXCEPT ![k] =
          [clone EXCEPT !.id = generated.claims, !.jwt = SignedClaims(clone)]]
    /\ calls' = [calls EXCEPT
          ![k] = [req |-> calls[p].req, parent |-> p, nonce |-> nonce,
                  step |-> IF generated.err = "nil" THEN "done" ELSE "failed",
                  err |-> generated.err]]
    /\ idTokens' = IF generated.err = "nil"
                   THEN Issued(idTokens, k, IDToken(generated.claims, k))
                   ELSE idTokens
    /\ UNCHANGED <<now, pair, forms, codes, oidcSessions>>

-----------------------------------------------------------------------------

Tick ==
    /\ now < MaxTime
    /\ now' = now + 1
    /\ UNCHANGED <<pair, forms, sessions, codes, oidcSessions, calls, accessTokens, idTokens>>

\* The signer gets another private key.
RotateKey ==
    /\ \E n \in 1..(Len(KeyPairs) - 1) : pair = KeyPairs[n] /\ pair' = KeyPairs[n + 1]
    /\ UNCHANGED <<now, forms, sessions, codes, oidcSessions, calls, accessTokens, idTokens>>

IdNext ==
    \/ \E a \in AuthReqs, f \in Forms : Authorize(a, f)
    \/ \E k \in Calls :
          \/ \E a \in AuthReqs : Present(k, a)
          \/ Generated(k) \/ Store(k) \/ Lookup(k) \/ Bind(k) \/ Issue(k)
          \/ \E p \in Calls, nonce \in {"", "other"} : Refresh(k, p, nonce)
    \/ Tick \/ RotateKey

IdSpec == IdInit /\ [][IdNext]_vars

-----------------------------------------------------------------------------
(* Properties.                                                             *)

\* Types, and the order of an exchange: only a call that has stored its tokens
\* goes on to the OpenID Connect session, and a response with an ID token has
\* been given.
IdTypeOK ==
    /\ now \in 1..MaxTime /\ \E n \in 1..Len(KeyPairs) : pair = KeyPairs[n]
    /\ \A a \in AuthReqs :
          /\ forms[a] \in Forms \union {None}
          /\ codes[a] \in {None, "active", "used"}
          /\ oidcSessions[a] \in {None, "stored", "deleted"}
    /\ \A k \in Calls : calls[k] # None =>
          /\ calls[k].req \in AuthReqs /\ calls[k].step \in Steps
          /\ calls[k].parent \in Calls \union {None}
          /\ calls[k].step \in {"stored", "found", "bound", "done"} =>
                codes[calls[k].req] = "used" /\ k \in DOMAIN accessTokens
          /\ k \in DOMAIN idTokens => calls[k].step = "done"

\* The authorize request behind a response.
Request(i) == IF i \in AuthReqs THEN i ELSE calls[i].req

Responses == DOMAIN idTokens

Claims(i) == idTokens[i].raw.claims

\* Two calls have exchanged one code: both had read it before one of them
\* invalidated it.
Contended(a) ==
    \E j, k \in Calls :
        /\ j # k
        /\ \A l \in {j, k} :
              /\ calls[l] # None
              /\ calls[l].req = a /\ calls[l].parent = None /\ l \in DOMAIN accessTokens

\* at_hash of an ID token is the hash of the access token it is delivered with,
\* c_hash of the code: a client that checks them accepts every response, and
\* no hash of an earlier response is left over in the shared session.  (Two
\* calls that both exchange a code share the session that carries at_hash to
\* GenerateIDToken, and are excepted.)
IdTokenMatchesResponse ==
    \A i \in Responses :
        /\ i \in AuthReqs \/ calls[i].parent # None \/ ~Contended(Request(i)) =>
              IF i \in DOMAIN accessTokens THEN StringOf(Claims(i), "at_hash") = i
              ELSE "at_hash" \notin DOMAIN Claims(i)
        /\ i \in AuthReqs =>
              IF Hybrid(forms[i]) THEN StringOf(Claims(i), "c_hash") = i
              ELSE "c_hash" \notin DOMAIN Claims(i)
        /\ \A j \in Responses \ {i} : Claims(i)["jti"] # Claims(j)["jti"]

\* Every ID token of a grant, of the front channel, of the exchange and of the
\* refresh calls, is about the same authentication: subject, time and nonce are
\* those of the authorize request.  (Excepted are codes that two calls exchange
\* and, for the nonce, refresh calls that send one.)
SameAuthentication ==
    \A i, j \in Responses : (Request(i) = Request(j) /\ ~Contended(Request(i))) =>
        /\ Claims(i)["sub"] = Claims(j)["sub"]
        /\ Claims(i)["auth_time"] = Claims(j)["auth_time"]
        /\ Claims(i)["sub"] = String(Subject)
        /\ (\A k \in Calls : calls[k] # None => calls[k].nonce = "") =>
              StringOf(Claims(i), "nonce") = forms[Request(i)].nonce

\* An ID token is not expired when it is issued, although its expiry can stem
\* from a response given long before; and the user was there when the request
\* asked for it: max_age, prompt=login, prompt=none.
IdTokenValidWhenIssued ==
    \A i \in Responses :
        LET m == Claims(i)
            f == forms[Request(i)]
        IN
        /\ TimeOf(m, "exp") >= idTokens[i].at
        /\ TimeOf(m, "iat") = idTokens[i].at
        /\ f.maxAge > 0 => TimeOf(m, "auth_time") + f.maxAge >= TimeOf(m, "rat")
        /\ Has(f.prompt, "login") => TimeOf(m, "auth_time") >= TimeOf(m, "rat")
        /\ Has(f.prompt, "none") => TimeOf(m, "auth_time") <= TimeOf(m, "rat")

\* An exchange that fails behind the point where the code is used up and the
\* tokens are stored: because the ID token of an earlier response, whose expiry
\* it inherits, has expired; because the nonce is too short, which the
\* authorize endpoint does not check for response type code; because
\* id_token_hint, accepted there, no longer decodes; or because the session has
\* no auth_time, which the authorize endpoint wants for prompt=none only.
CodeLostOnlyFor ==
    \A k \in Calls :
        (calls[k] # None /\ k \in DOMAIN accessTokens /\ calls[k].step = "failed") =>
            LET f == forms[calls[k].req] IN
            \/ calls[k].err = "ErrInsufficientEntropy" /\ f.types = {"code"}
            \/ /\ calls[k].err = "ErrServerError"
               /\ \/ \E i \in Responses \ {k} : /\ Request(i) = Request(k)
                                               /\ TimeOf(Claims(i), "exp") < now
                  \/ f.nonce = "short" /\ Contended(Request(k))
            \/ calls[k].err = "ErrServerError" /\ f.hint # None
            \/ calls[k].err = "ErrServerError" /\ f.prompt # <<>>
                  /\ sessions[calls[k].req].id.authTime = 0

\* What a JWT can be altered into: other claims, another header, no signature.
Altered(raw) ==
    {raw, Malformed, [raw EXCEPT !.pair = Unsigned],
     [raw EXCEPT !.header = Claim("alg", "none"), !.pair = Unsigned],
     [raw EXCEPT !.claims = Over(@, TimeClaim("exp", MaxTime + 1)), !.pair = Unsigned]}

Introspect(raw) == ToRFCErr(Decode(raw, Key, now))

\* The stateless validator takes what the signer has signed with the key it has
\* now, while it has not expired, and nothing else; in particular no token that
\* says it needs no signature.
AcceptedWasSigned ==
    \A i \in DOMAIN accessTokens :
        \A raw \in Altered(accessTokens[i].raw) :
            Introspect(raw) = "nil" =>
                /\ \E j \in DOMAIN accessTokens : raw = accessTokens[j].raw
                /\ raw.pair = pair
                /\ TimeOf(raw.claims, "exp") >= now

\* What the validator reads out of a token is what was granted when it was
\* issued, not what the session has become since.
ReadBackAsGranted ==
    \A i \in DOMAIN accessTokens :
        \A r \in AccessTokenJWTToRequest(accessTokens[i].raw.claims) :
            /\ r.subject = Subject /\ r.client = ClientID
            /\ r.scopes = GrantedScopes
            /\ r.expiresAt = accessTokens[i].expiresAt

\* introspector_jwt.go:65: "We do not really know which audiences were
\* requested, so we set them to granted."
AudienceReadBack ==
    \A i \in DOMAIN accessTokens :
        \A r \in AccessTokenJWTToRequest(accessTokens[i].raw.claims) :
            r.audience = GrantedAudience
=============================================================================
