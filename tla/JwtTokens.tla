----------------------------- MODULE JwtTokens -----------------------------
(***************************************************************************)
(* JSON web tokens (token/jwt): how the claims of a session become the     *)
(* claims of a token, how a token is signed, and what a reader of the      *)
(* token gets: the checks of ParseWithClaims in their order, the checks of *)
(* the time claims, and the way back from claims to a request              *)
(* (handler/oauth2/introspector_jwt.go).                                   *)
(*                                                                         *)
(* Claims are functions from names to values, and a value carries the Go   *)
(* type a reader switches on: <<"string", s>>, <<"[]string", seq>>,        *)
(* <<"[]interface", seq>>, <<"int64", n>> or <<"joined", seq>>, a string   *)
(* that was joined from seq.  Time 0 is Go's zero time, "" an empty string.*)
(***************************************************************************)
EXTENDS Naturals, Sequences, Functions, FiniteSets

NoClaims == [k \in {} |-> <<"string", "">>]

String(s) == <<"string", s>>
Strings(seq) == <<"[]string", seq>>
Int64(n) == <<"int64", n>>
Joined(seq) == <<"joined", seq>>

\* The entries of m whose name is in S; m overwritten by n.
Only(m, S) == [k \in DOMAIN m \intersect S |-> m[k]]
Over(m, n) == [k \in DOMAIN m \union DOMAIN n |-> IF k \in DOMAIN n THEN n[k] ELSE m[k]]

\* A claim that is left out when it is empty.
StringClaim(name, s) == IF s = "" THEN NoClaims ELSE [k \in {name} |-> String(s)]
TimeClaim(name, t) == IF t = 0 THEN NoClaims ELSE [k \in {name} |-> Int64(t)]
Claim(name, v) == [k \in {name} |-> v]

-----------------------------------------------------------------------------
(* Claims of access tokens: JWTClaims.                                     *)

ScopeFields == {"unset", "list", "string", "both"}

\* A JWTClaims value; scope is <<>> both for nil and for an empty list.
NewJWTClaims == [sub |-> "", iss |-> "", aud |-> <<>>, iat |-> 0, nbf |-> 0,
                 exp |-> 0, scope |-> <<>>, scopeField |-> "unset", extra |-> NoClaims]

\* With, WithDefaults and WithScopeField write into the claims of the session.
With(c, expiry, scope, audience) ==
    [c EXCEPT !.exp = expiry, !.scope = scope, !.aud = audience]

WithDefaults(c, iat, issuer) ==
    [c EXCEPT !.iat = IF @ = 0 THEN iat ELSE @, !.iss = IF @ = "" THEN issuer ELSE @]

WithScopeField(c, field) == [c EXCEPT !.scopeField = field]

\* The scope claims, of a scope that is not nil; without it neither is there.
ScopeClaims(c) ==
    IF c.scope = <<>> THEN NoClaims
    ELSE Over(IF c.scopeField \in {"unset", "list", "both"}
              THEN Claim("scp", Strings(c.scope)) ELSE NoClaims,
              IF c.scopeField \in {"string", "both"}
              THEN Claim("scope", Joined(c.scope)) ELSE NoClaims)

\* Names that are written or deleted whatever Extra holds.
Registered(c) ==
    {"sub", "iss", "jti", "aud", "iat", "nbf", "exp"}
        \union (IF c.scope = <<>> THEN {"scp", "scope"} ELSE {})

JWTToMap(c, jti) ==
    Over(Only(c.extra, DOMAIN c.extra \ Registered(c)),
      Over(Over(StringClaim("sub", c.sub), StringClaim("iss", c.iss)),
        Over(Over(Claim("jti", String(jti)), Claim("aud", Strings(c.aud))),
          Over(Over(TimeClaim("iat", c.iat), TimeClaim("nbf", c.nbf)),
               Over(TimeClaim("exp", c.exp), ScopeClaims(c))))))

StringOf(m, k) ==
    IF k \in DOMAIN m /\ m[k][1] = "string" THEN m[k][2] ELSE ""

TimeOf(m, k) ==
    IF k \in DOMAIN m /\ m[k][1] = "int64" THEN m[k][2] ELSE 0

\* aud: a string or a []string; what JSON gives, an []interface, is ignored.
AudienceOf(m) ==
    IF "aud" \notin DOMAIN m THEN <<>>
    ELSE IF m["aud"][1] = "string" THEN <<m["aud"][2]>>
    ELSE IF m["aud"][1] = "[]string" THEN m["aud"][2]
    ELSE <<>>

\* Mutant: a list that was decoded from JSON is not read.
ScopesOfListOnly(m) ==
    IF "scp" \in DOMAIN m /\ m["scp"][1] = "[]string" THEN {m["scp"][2]}
    ELSE {<<>>}

\* What c.Scope can be in the end.  The map is read in any order: of scp and
\* scope the one read last stays.
ScopesOf(m) ==
    LET lists == IF "scp" \in DOMAIN m /\ m["scp"][1] \in {"[]string", "[]interface"}
                 THEN {m["scp"][2]} ELSE {}
        split == IF "scope" \in DOMAIN m
                 THEN IF m["scope"][1] = "joined" THEN {m["scope"][2]}
                      ELSE IF m["scope"][1] = "string" THEN {<<m["scope"][2]>>} ELSE {}
                 ELSE {}
    IN IF lists \union split = {} THEN {<<>>} ELSE lists \union split

\* The names FromMap does not keep in Extra.
ReadNames == {"jti", "sub", "iss", "aud", "iat", "nbf", "exp", "scp", "scope"}

FromMap(m) ==
    {[sub |-> StringOf(m, "sub"), iss |-> StringOf(m, "iss"), aud |-> AudienceOf(m),
      iat |-> TimeOf(m, "iat"), nbf |-> TimeOf(m, "nbf"), exp |-> TimeOf(m, "exp"),
      scope |-> scope, extra |-> Only(m, DOMAIN m \ ReadNames)] : scope \in ScopesOf(m)}

\* AccessTokenJWTToRequest: requested and granted values are the same.
AccessTokenJWTToRequest(m) ==
    {[subject |-> c.sub, client |-> StringOf(m, "client_id"),
      scopes |-> c.scope, audience |-> c.aud, expiresAt |-> c.exp,
      requestedAt |-> IF "rat" \in DOMAIN m /\ m["rat"][1] = "int64"
                      THEN m["rat"][2] ELSE c.iat] : c \in FromMap(m)}

-----------------------------------------------------------------------------
(* Claims of ID tokens: IDTokenClaims.                                     *)

NewIDTokenClaims ==
    [sub |-> "", iss |-> "", aud |-> <<>>, nonce |-> "", exp |-> 0, iat |-> 0, rat |-> 0,
     authTime |-> 0, atHash |-> "", acr |-> "", cHash |-> "", jti |-> ""]

IDTokenToMap(c, jti) ==
    Over(Over(Over(StringClaim("sub", c.sub), StringClaim("iss", c.iss)),
              Over(Claim("jti", String(IF c.jti = "" THEN jti ELSE c.jti)),
                   Claim("aud", Strings(c.aud)))),
      Over(Over(Over(TimeClaim("iat", c.iat), TimeClaim("exp", c.exp)),
                Over(TimeClaim("rat", c.rat), TimeClaim("auth_time", c.authTime))),
           Over(Over(StringClaim("nonce", c.nonce), StringClaim("at_hash", c.atHash)),
                Over(StringClaim("c_hash", c.cHash), StringClaim("acr", c.acr)))))

-----------------------------------------------------------------------------
(* Time claims: MapClaims.  A claim that is 0 or no number counts as unset.*)

VerifyExpiresAt(m, now, required) ==
    IF TimeOf(m, "exp") = 0 THEN ~required ELSE now <= TimeOf(m, "exp")

VerifyIssuedAt(m, now, required) ==
    IF TimeOf(m, "iat") = 0 THEN ~required ELSE now >= TimeOf(m, "iat")

VerifyNotBefore(m, now, required) ==
    IF TimeOf(m, "nbf") = 0 THEN ~required ELSE now >= TimeOf(m, "nbf")

\* The bits of the ValidationError, none when the claims are valid.
ValidErrors(m, now) ==
    (IF VerifyExpiresAt(m, now, FALSE) THEN {} ELSE {"Expired"}) \union
    (IF VerifyIssuedAt(m, now, FALSE) THEN {} ELSE {"IssuedAt"}) \union
    (IF VerifyNotBefore(m, now, FALSE) THEN {} ELSE {"NotValidYet"})

-----------------------------------------------------------------------------
(* Signing.  A key is how it is given to DefaultSigner, the pair it belongs*)
(* to, whether that is an RSA or an ECDSA pair, and the algorithm a JWK or *)
(* an opaque signer names.                                                 *)

KeyKinds == {"*JSONWebKey", "JSONWebKey", "PrivateKey", "OpaqueSigner"}

DefaultAlgorithm(type) == IF type = "rsa" THEN "RS256" ELSE "ES256"

\* The algorithm Generate signs with; an opaque signer that names none gets the
\* default of its key.
SigningAlgorithm(key) ==
    CASE key.kind \in {"*JSONWebKey", "JSONWebKey"} -> key.alg
      [] key.kind = "PrivateKey" -> DefaultAlgorithm(key.type)
      [] OTHER -> IF key.alg = "" THEN DefaultAlgorithm(key.type) ELSE key.alg

\* Validate and Decode unwrap a pointer to a JWK, not a JWK.
CanDecode(key) == key.kind \in {"*JSONWebKey", "PrivateKey", "OpaqueSigner"}

\* JSON turns a []string into an []interface; go-jose's NewSigner refuses an
\* empty algorithm.
JSON(m) == [k \in DOMAIN m |->
               IF m[k][1] = "[]string" THEN <<"[]interface", m[k][2]>> ELSE m[k]]

\* Headers.ToMap drops alg, and assign keeps what is there.
TokenHeader(alg, extra) == Over(Only(extra, DOMAIN extra \ {"alg"}), Claim("alg", alg))

Signable(key) == SigningAlgorithm(key) # ""

Generate(claims, header, key) ==
    [header |-> TokenHeader(SigningAlgorithm(key), header),
     claims |-> JSON(claims), pair |-> key.pair]

-----------------------------------------------------------------------------
(* ParseWithClaims.  A raw token either is malformed, or has claims that   *)
(* are no JSON object, or is a record like Generate's.  What keyFunc does  *)
(* is a record: it is missing, fails (as a ValidationError with bits of its*)
(* own or as another error), or gives nil, the key that allows "none", or  *)
(* a key.                                                                  *)

Malformed == [header |-> Claim("alg", ""), claims |-> NoClaims, pair |-> "malformed"]
NoObject == [header |-> Claim("alg", ""), claims |-> NoClaims, pair |-> "no object"]
Unsigned == "unsigned"

\* go-jose verifies a signature only with the key of its pair; "none" has none.
SignatureVerifies(raw, keyFunc) ==
    /\ keyFunc.gives = "key"
    /\ raw.pair = keyFunc.pair
    /\ raw.header["alg"] # "none"

\* Mutant: any token that says it is not signed counts as signed.
SignedOrNone(raw, keyFunc) ==
    \/ raw.header["alg"] = "none"
    \/ SignatureVerifies(raw, keyFunc)

Signed(raw, keyFunc) ==
    \/ raw.header["alg"] = "none" /\ keyFunc.gives = "allow none"
    \/ SignatureVerifies(raw, keyFunc)

ParseErrors(raw, keyFunc, now) ==
    IF raw = Malformed THEN {"Malformed"}
    ELSE IF raw = NoObject THEN {"ClaimsInvalid"}
    ELSE IF keyFunc.gives = "missing" THEN {"Unverifiable"}
    ELSE IF keyFunc.gives = "ValidationError" THEN keyFunc.errors
    ELSE IF keyFunc.gives = "error" THEN {"Unverifiable"}
    ELSE IF keyFunc.gives = "nil" \/ ~Signed(raw, keyFunc) THEN {"SignatureInvalid"}
    ELSE ValidErrors(raw.claims, now)

\* decodeToken: the signer's own key; a key it cannot unwrap is another error.
Decode(raw, key, now) ==
    IF ~CanDecode(key) THEN {"key"}
    ELSE ParseErrors(raw, [gives |-> "key", pair |-> key.pair, errors |-> {}], now)

\* toRFCErr of the errors of Decode; other errors are passed on.
ToRFCErr(errors) ==
    IF errors = {} THEN "nil"
    ELSE IF "key" \in errors THEN "error"
    ELSE IF "Malformed" \in errors THEN "ErrInvalidTokenFormat"
    ELSE IF errors \intersect {"Unverifiable", "SignatureInvalid"} # {}
    THEN "ErrTokenSignatureMismatch"
    ELSE IF "Expired" \in errors THEN "ErrTokenExpired"
    ELSE "ErrTokenClaim"
=============================================================================
