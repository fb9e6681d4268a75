--------------------------- MODULE IdTokensProofs ---------------------------
(***************************************************************************)
(* Proofs about IdTokens, for every set of authorize requests and calls,   *)
(* every form, lifespan and sequence of key pairs: which ID token and      *)
(* which access token a response carries, and when an exchange that has    *)
(* used up its code can still fail.                                        *)
(***************************************************************************)
EXTENDS IdTokens, TLAPS, SequenceTheorems

-----------------------------------------------------------------------------
(* The inductive invariant.                                                *)

\* What the string claims of a session can be.
Texts == {"", "0", "other", Subject, Issuer, ClientID} \union {f.nonce : f \in Forms}

\* What at_hash, c_hash and jti are made of.
Hashes == Issuers \union {""}

IDClaims ==
    [sub : Texts, iss : Texts, aud : Seq(Texts), nonce : Texts, exp : Nat, iat : Nat,
     rat : Nat, authTime : Nat, atHash : Hashes, acr : Texts,
     cHash : Hashes, jti : Hashes]

\* The claims of the access token, as far as a handler does not overwrite them.
ClientExtra == Claim("client_id", String(ClientID))

ScopeLists == {<<>>, GrantedScopes}
Audiences == {<<>>, GrantedAudience}
Extras == {NoClaims, ClientExtra}

JWTClaims ==
    [sub : Texts, iss : Texts, aud : Audiences, iat : Nat, nbf : Nat, exp : Nat,
     scope : ScopeLists, scopeField : ScopeFields, extra : Extras]

SessionType == [id : IDClaims, jwt : JWTClaims, accessExp : Nat]

TypeInv ==
    /\ now \in 1..MaxTime
    /\ \E n \in 1..Len(KeyPairs) : pair = KeyPairs[n]
    /\ forms \in [AuthReqs -> Forms \union {None}]
    /\ sessions \in [Issuers -> SessionType]
    /\ codes \in [AuthReqs -> {None, "active", "used"}]
    /\ oidcSessions \in [AuthReqs -> {None, "stored", "deleted"}]
    /\ calls \in [Calls -> Call \union {None}]
    /\ DOMAIN accessTokens \subseteq Issuers
    /\ DOMAIN idTokens \subseteq Issuers

\* What the authorize endpoint has accepted: the times the application gave fit
\* what the request asked for.
Accepted(f) ==
    /\ f.maxAge > 0 => f.authTime # 0 /\ f.rat # 0 /\ f.authTime + f.maxAge >= f.rat
    /\ Has(f.prompt, "login") => f.authTime >= f.rat
    /\ Has(f.prompt, "none") => f.authTime # 0 /\ f.authTime <= f.rat
    /\ f.nonce = "short" => f.types = {"code"}

\* A session that was accepted is about the subject and the times of the form.
Fits(s, f) ==
    /\ s.id.sub = Subject /\ Subject # ""
    /\ s.id.rat = f.rat
    /\ f.authTime # 0 => s.id.authTime = f.authTime
    /\ s.id.authTime <= now + Leeway
    /\ s.jwt.sub = Subject /\ s.jwt.extra = ClientExtra

RequestsInv ==
    \A a \in AuthReqs :
        IF forms[a] = None
        THEN /\ codes[a] = None
             /\ a \notin DOMAIN accessTokens /\ a \notin DOMAIN idTokens
        ELSE /\ Accepted(forms[a])
             /\ Fits(sessions[a], forms[a])
             /\ sessions[a].id.jti = ""
             /\ sessions[a].id.nonce \in {"", forms[a].nonce}
             /\ codes[a] # None => oidcSessions[a] # None /\ "code" \in forms[a].types

\* The calls that exchange the code of a, from when their access token is made.
Exchanging(k, a) ==
    /\ calls[k] # None
    /\ calls[k].req = a /\ calls[k].parent = None /\ k \in DOMAIN accessTokens

\* An exchange goes through its steps; a refresh call is one step that does not
\* fail, and its clone is about the authorize request.
ExchangeInv(k) ==
    /\ calls[k].step = "presented" => k \notin DOMAIN accessTokens
    /\ calls[k].step \in {"generated", "stored", "found", "bound", "done"} =>
          k \in DOMAIN accessTokens
    /\ calls[k].step \in {"stored", "found", "bound", "done"} => codes[calls[k].req] = "used"
    /\ k \in DOMAIN idTokens => calls[k].step = "done"

RefreshInv(k) ==
    /\ calls[k].step = "done"
    /\ codes[calls[k].req] = "used"
    /\ k \in DOMAIN accessTokens /\ k \in DOMAIN idTokens
    /\ Fits(sessions[k], forms[calls[k].req])

CallsInv ==
    \A k \in Calls :
        IF calls[k] = None
        THEN k \notin DOMAIN accessTokens /\ k \notin DOMAIN idTokens
        ELSE /\ forms[calls[k].req] # None /\ codes[calls[k].req] # None
             /\ sessions[calls[k].req].accessExp # 0
             /\ IF calls[k].parent = None THEN ExchangeInv(k) ELSE RefreshInv(k)

\* An access token is what a signer generates, and says what was granted.
AccessTokenFits(token) ==
    /\ DOMAIN token.raw = {"header", "claims", "pair"}
    /\ token.expiresAt \in Nat \ {0}
    /\ TimeOf(token.raw.claims, "exp") = token.expiresAt
    /\ StringOf(token.raw.claims, "sub") = Subject
    /\ StringOf(token.raw.claims, "client_id") = ClientID
    /\ ScopesOf(token.raw.claims) = {GrantedScopes}

AccessTokensInv == \A i \in DOMAIN accessTokens : AccessTokenFits(accessTokens[i])

\* An ID token is about the authorize request of its response.
IdTokenInv(i, f) ==
    /\ f # None
    /\ Claims(i)["jti"] = String(i)
    /\ Claims(i)["sub"] = String(Subject)
    /\ Claims(i)["auth_time"] = Int64(TimeOf(Claims(i), "auth_time"))
    /\ TimeOf(Claims(i), "auth_time") \in Nat \ {0}
    /\ f.authTime # 0 => TimeOf(Claims(i), "auth_time") = f.authTime
    /\ TimeOf(Claims(i), "rat") = f.rat
    /\ TimeOf(Claims(i), "iat") = idTokens[i].at
    /\ TimeOf(Claims(i), "exp") \in Nat /\ idTokens[i].at \in Nat
    /\ TimeOf(Claims(i), "exp") >= idTokens[i].at

IdTokensInv == \A i \in Responses : IdTokenInv(i, forms[Request(i)])

\* What an exchange has written as at_hash is in the session until another
\* exchange of the same code overwrites it.
BoundInv ==
    \A k \in Calls :
        (calls[k] # None /\ calls[k].step = "bound" /\ ~Contended(calls[k].req)) =>
            sessions[calls[k].req].id.atHash = k

\* The hashes of the front channel, and those of the calls.
FrontHashes(a) ==
    /\ IF a \in DOMAIN accessTokens THEN StringOf(Claims(a), "at_hash") = a
       ELSE "at_hash" \notin DOMAIN Claims(a)
    /\ IF Hybrid(forms[a]) THEN StringOf(Claims(a), "c_hash") = a
       ELSE "c_hash" \notin DOMAIN Claims(a)

HashesInv ==
    /\ \A a \in AuthReqs : a \in Responses => FrontHashes(a)
    /\ \A k \in Calls : (k \in Responses /\ (calls[k].parent # None \/ ~Contended(calls[k].req)))
          => StringOf(Claims(k), "at_hash") = k

\* The OpenID Connect session is gone only when a call has taken it.
TakenInv ==
    \A a \in AuthReqs : oidcSessions[a] = "deleted" =>
        \E k \in Calls : Exchanging(k, a) /\ calls[k].step \in {"bound", "done", "failed"}

NoNonces == \A k \in Calls : calls[k] # None => calls[k].nonce = ""

\* The authentication is fixed in the session of the authorize request by the
\* first response of the front channel or of an exchange.
Authenticated(i, a) ==
    /\ TimeOf(Claims(i), "auth_time") = sessions[a].id.authTime
    /\ StringOf(Claims(i), "nonce") = forms[a].nonce
    /\ sessions[a].id.nonce = forms[a].nonce

AuthenticationInv ==
    \A a \in AuthReqs : \A i \in Responses :
        (i = a \/ (i \in Calls /\ Exchanging(i, a))) => Authenticated(i, a)

\* The clone of a refresh call has it too.
CloneFits(k, a) ==
    /\ sessions[a].id.authTime # 0
    /\ sessions[k].id.authTime = sessions[a].id.authTime
    /\ TimeOf(Claims(k), "auth_time") = sessions[k].id.authTime
    /\ NoNonces => /\ StringOf(Claims(k), "nonce") = forms[a].nonce
                   /\ sessions[k].id.nonce = forms[a].nonce

ClonesInv ==
    \A k \in Calls : (calls[k] # None /\ calls[k].parent # None /\ ~Contended(calls[k].req)) =>
        CloneFits(k, calls[k].req)

\* An exchange without a rival ends with an ID token, or fails.
DoneInv ==
    \A k \in Calls :
        (/\ calls[k] # None /\ calls[k].parent = None /\ calls[k].step = "done"
         /\ ~Contended(calls[k].req)) => k \in Responses

\* An exchange that failed when its tokens were made.
Lost(k) == calls[k] # None /\ k \in DOMAIN accessTokens /\ calls[k].step = "failed"

\* Where the expiry in the session of an authorize request comes from: of a
\* response, or of an exchange that failed.
ExpiryFrom(a) ==
    \/ \E i \in Responses : Request(i) = a /\ TimeOf(Claims(i), "exp") = sessions[a].id.exp
    \/ forms[a].nonce = "short" /\ \E k \in Calls : Exchanging(k, a) /\ Lost(k)
    \/ forms[a].hint # None
    \/ forms[a].prompt # <<>> /\ sessions[a].id.authTime = 0

ExpiryInv == \A a \in AuthReqs : (forms[a] # None /\ sessions[a].id.exp # 0) => ExpiryFrom(a)

\* Why an exchange of the code of a fails when its tokens were made.
LostFor(k, a) ==
    \/ calls[k].err = "ErrInsufficientEntropy" /\ forms[a].types = {"code"}
    \/ /\ calls[k].err = "ErrServerError"
       /\ \/ \E i \in Responses : Request(i) = a /\ TimeOf(Claims(i), "exp") < now
          \/ forms[a].nonce = "short" /\ Contended(a)
          \/ forms[a].hint # None
          \/ forms[a].prompt # <<>> /\ sessions[a].id.authTime = 0

LostInv == \A k \in Calls : Lost(k) => LostFor(k, calls[k].req)

Invariant ==
    /\ TypeInv
    /\ RequestsInv
    /\ CallsInv
    /\ AccessTokensInv
    /\ IdTokensInv
    /\ BoundInv
    /\ HashesInv
    /\ TakenInv
    /\ AuthenticationInv
    /\ ClonesInv
    /\ DoneInv
    /\ ExpiryInv
    /\ LostInv

-----------------------------------------------------------------------------
(* The maps of claims.                                                     *)

\* The map m has a claim, unless the claim is empty.
HasString(m, name, s) ==
    IF s = "" THEN name \notin DOMAIN m ELSE name \in DOMAIN m /\ m[name] = String(s)
HasTime(m, name, t) ==
    IF t = 0 THEN name \notin DOMAIN m ELSE name \in DOMAIN m /\ m[name] = Int64(t)

\* Two claims.
LEMMA StringPair ==
    ASSUME NEW x, NEW y, x # y, NEW s, NEW u,
           NEW m, m = Over(StringClaim(x, s), StringClaim(y, u))
    PROVE  DOMAIN m \subseteq {x, y} /\ HasString(m, x, s) /\ HasString(m, y, u)
  BY DEF Over, StringClaim, NoClaims, HasString

LEMMA TimePair ==
    ASSUME NEW x, NEW y, x # y, NEW t \in Nat, NEW u \in Nat,
           NEW m, m = Over(TimeClaim(x, t), TimeClaim(y, u))
    PROVE  DOMAIN m \subseteq {x, y} /\ HasTime(m, x, t) /\ HasTime(m, y, u)
  BY DEF Over, TimeClaim, NoClaims, HasTime

\* A claim that only one of two maps may have.
LEMMA OverKeeps ==
    ASSUME NEW m, NEW n, NEW r, r = Over(m, n), NEW k, k \notin DOMAIN m \/ k \notin DOMAIN n
    PROVE  /\ k \in DOMAIN r <=> k \in DOMAIN m \/ k \in DOMAIN n
           /\ k \in DOMAIN m => r[k] = m[k]
           /\ k \in DOMAIN n => r[k] = n[k]
  BY DEF Over

LEMMA OverHasString ==
    ASSUME NEW m, NEW n, NEW r, r = Over(m, n), NEW k, NEW s,
           \/ k \notin DOMAIN m /\ HasString(n, k, s)
           \/ k \notin DOMAIN n /\ HasString(m, k, s)
    PROVE  HasString(r, k, s)
<1>1. /\ k \in DOMAIN r <=> k \in DOMAIN m \/ k \in DOMAIN n
      /\ k \in DOMAIN m => r[k] = m[k]
      /\ k \in DOMAIN n => r[k] = n[k]
  <2>1. k \notin DOMAIN m \/ k \notin DOMAIN n
    OBVIOUS
  <2> QED
    BY <2>1, OverKeeps
<1> QED
  BY <1>1, Zenon DEF HasString

\* JSON keeps strings and times, and what is left out.
LEMMA JSONKeeps ==
    ASSUME NEW m, NEW r, r = JSON(m), NEW k
    PROVE  /\ DOMAIN r = DOMAIN m
           /\ \A s : HasString(m, k, s) => HasString(r, k, s)
           /\ \A t \in Nat : HasTime(m, k, t) => HasTime(r, k, t)
<1>1. DOMAIN r = DOMAIN m
  BY DEF JSON
<1>2. ASSUME NEW s, HasString(m, k, s) PROVE HasString(r, k, s)
  <2>1. k \in DOMAIN m /\ m[k] = String(s) => k \in DOMAIN r /\ r[k] = String(s)
    <3>1. ASSUME m[k] = String(s) PROVE m[k][1] # "[]string"
      BY <3>1 DEF String
    <3> QED
      BY <3>1 DEF JSON
  <2>2. CASE s = ""
    BY <1>1, <1>2, <2>2, Zenon DEF HasString
  <2>3. CASE s # ""
    BY <1>2, <2>1, <2>3, Zenon DEF HasString
  <2> QED
    BY <2>2, <2>3
<1>3. ASSUME NEW t \in Nat, HasTime(m, k, t) PROVE HasTime(r, k, t)
  BY <1>3 DEF JSON, HasTime, Int64
<1> QED
  BY <1>1, <1>2, <1>3

\* A reader gets the value of a claim, and the empty value of one that is left out.
LEMMA StringRead ==
    ASSUME NEW m, NEW k, NEW s, HasString(m, k, s)
    PROVE  StringOf(m, k) = s
<1>1. CASE s = ""
  <2>1. k \notin DOMAIN m
    BY <1>1, Zenon DEF HasString
  <2> QED
    BY <1>1, <2>1 DEF StringOf
<1>2. CASE s # ""
  <2>1. k \in DOMAIN m /\ m[k] = String(s)
    BY <1>2, Zenon DEF HasString
  <2>2. m[k][1] = "string" /\ m[k][2] = s
    BY <2>1 DEF String
  <2> QED
    BY <2>1, <2>2 DEF StringOf
<1> QED
  BY <1>1, <1>2

LEMMA TimeRead ==
    ASSUME NEW m, NEW k, NEW t \in Nat, HasTime(m, k, t)
    PROVE  TimeOf(m, k) = t
<1>1. CASE t = 0
  BY <1>1 DEF HasTime, TimeOf
<1>2. CASE t # 0
  <2>1. k \in DOMAIN m /\ m[k][1] = "int64" /\ m[k][2] = t
    BY <1>2 DEF HasTime, Int64
  <2> QED
    BY <2>1 DEF TimeOf
<1> QED
  BY <1>1, <1>2

TokenID(c, i) == IF c.jti = "" THEN i ELSE c.jti

\* The map of an ID token's claims.
LEMMA IDTokenClaims ==
    ASSUME NEW c \in IDClaims, NEW i, NEW m, m = IDTokenToMap(c, i)
    PROVE  /\ HasString(m, "sub", c.sub)
           /\ "jti" \in DOMAIN m /\ m["jti"] = String(TokenID(c, i))
           /\ HasTime(m, "iat", c.iat) /\ HasTime(m, "exp", c.exp)
           /\ HasTime(m, "rat", c.rat) /\ HasTime(m, "auth_time", c.authTime)
           /\ HasString(m, "nonce", c.nonce)
           /\ HasString(m, "at_hash", c.atHash) /\ HasString(m, "c_hash", c.cHash)
<1>1. PICK A : A = Over(StringClaim("sub", c.sub), StringClaim("iss", c.iss))
  OBVIOUS
<1>2. PICK B : B = Over(Claim("jti", String(TokenID(c, i))),
                        Claim("aud", Strings(c.aud)))
  OBVIOUS
<1>3. PICK C : C = Over(TimeClaim("iat", c.iat), TimeClaim("exp", c.exp))
  OBVIOUS
<1>4. PICK D : D = Over(TimeClaim("rat", c.rat), TimeClaim("auth_time", c.authTime))
  OBVIOUS
<1>5. PICK E : E = Over(StringClaim("nonce", c.nonce), StringClaim("at_hash", c.atHash))
  OBVIOUS
<1>6. PICK F : F = Over(StringClaim("c_hash", c.cHash), StringClaim("acr", c.acr))
  OBVIOUS
<1>7. m = Over(Over(A, B), Over(Over(C, D), Over(E, F)))
  BY <1>1, <1>2, <1>3, <1>4, <1>5, <1>6, Zenon DEF IDTokenToMap, TokenID
<1>8. PICK AB, CD, EF, CF : /\ AB = Over(A, B) /\ CD = Over(C, D) /\ EF = Over(E, F)
                            /\ CF = Over(CD, EF) /\ m = Over(AB, CF)
  BY <1>7
<1>9. c.exp \in Nat /\ c.iat \in Nat /\ c.rat \in Nat /\ c.authTime \in Nat
  BY DEF IDClaims
<1>10. DOMAIN A \subseteq {"sub", "iss"} /\ HasString(A, "sub", c.sub)
  BY <1>1, StringPair
<1>11. DOMAIN B = {"jti", "aud"} /\ B["jti"] = String(TokenID(c, i))
  BY <1>2 DEF Over, Claim
<1>12. DOMAIN C \subseteq {"iat", "exp"} /\ HasTime(C, "iat", c.iat) /\ HasTime(C, "exp", c.exp)
  BY <1>3, <1>9, TimePair
<1>13. /\ DOMAIN D \subseteq {"rat", "auth_time"}
       /\ HasTime(D, "rat", c.rat) /\ HasTime(D, "auth_time", c.authTime)
  BY <1>4, <1>9, TimePair
<1>14. /\ DOMAIN E \subseteq {"nonce", "at_hash"}
       /\ HasString(E, "nonce", c.nonce) /\ HasString(E, "at_hash", c.atHash)
  BY <1>5, StringPair
<1>15. DOMAIN F \subseteq {"c_hash", "acr"} /\ HasString(F, "c_hash", c.cHash)
  BY <1>6, StringPair
<1>16. /\ DOMAIN AB = DOMAIN A \union DOMAIN B /\ DOMAIN CD = DOMAIN C \union DOMAIN D
       /\ DOMAIN EF = DOMAIN E \union DOMAIN F /\ DOMAIN CF = DOMAIN CD \union DOMAIN EF
       /\ DOMAIN m = DOMAIN AB \union DOMAIN CF
  BY <1>8 DEF Over
<1>17. /\ "sub" \notin DOMAIN B /\ "jti" \notin DOMAIN A
       /\ {"sub", "jti"} \intersect DOMAIN CF = {}
       /\ {"iat", "exp", "rat", "auth_time", "nonce", "at_hash", "c_hash"}
             \intersect DOMAIN AB = {}
       /\ {"nonce", "at_hash", "c_hash"} \intersect DOMAIN CD = {}
       /\ {"iat", "exp", "rat", "auth_time"} \intersect DOMAIN EF = {}
  BY <1>10, <1>11, <1>12, <1>13, <1>14, <1>15, <1>16
<1>18. /\ HasString(AB, "sub", c.sub)
       /\ "jti" \in DOMAIN AB /\ AB["jti"] = String(TokenID(c, i))
  <2>1. HasString(AB, "sub", c.sub)
    BY <1>8, <1>10, <1>17, OverHasString
  <2>2. "jti" \in DOMAIN AB /\ AB["jti"] = B["jti"]
    BY <1>8, <1>11, <1>17, OverKeeps
  <2> QED
    BY <1>11, <2>1, <2>2
<1>19. /\ HasTime(CD, "iat", c.iat) /\ HasTime(CD, "exp", c.exp)
       /\ HasTime(CD, "rat", c.rat) /\ HasTime(CD, "auth_time", c.authTime)
  BY <1>8, <1>12, <1>13, OverKeeps DEF HasTime
<1>20. /\ HasString(EF, "nonce", c.nonce) /\ HasString(EF, "at_hash", c.atHash)
       /\ HasString(EF, "c_hash", c.cHash)
  BY <1>8, <1>14, <1>15, OverHasString
<1>21. /\ HasTime(CF, "iat", c.iat) /\ HasTime(CF, "exp", c.exp)
       /\ HasTime(CF, "rat", c.rat) /\ HasTime(CF, "auth_time", c.authTime)
  BY <1>8, <1>17, <1>19, OverKeeps DEF HasTime
<1>22. /\ HasString(CF, "nonce", c.nonce) /\ HasString(CF, "at_hash", c.atHash)
       /\ HasString(CF, "c_hash", c.cHash)
  BY <1>8, <1>17, <1>20, OverHasString
<1>23. /\ HasTime(m, "iat", c.iat) /\ HasTime(m, "exp", c.exp)
       /\ HasTime(m, "rat", c.rat) /\ HasTime(m, "auth_time", c.authTime)
  BY <1>8, <1>17, <1>21, OverKeeps DEF HasTime
<1>24. /\ HasString(m, "nonce", c.nonce) /\ HasString(m, "at_hash", c.atHash)
       /\ HasString(m, "c_hash", c.cHash)
  BY <1>8, <1>17, <1>22, OverHasString
<1>25. /\ HasString(m, "sub", c.sub)
       /\ "jti" \in DOMAIN m /\ m["jti"] = String(TokenID(c, i))
  <2>1. HasString(m, "sub", c.sub)
    BY <1>8, <1>17, <1>18, OverHasString
  <2>2. "jti" \in DOMAIN m /\ m["jti"] = AB["jti"]
    BY <1>8, <1>17, <1>18, OverKeeps
  <2> QED
    BY <1>18, <2>1, <2>2
<1> QED
  BY <1>23, <1>24, <1>25

\* What a reader finds in an ID token.
LEMMA IDTokenReads ==
    ASSUME NEW c \in IDClaims, NEW i, NEW m, m = JSON(IDTokenToMap(c, i))
    PROVE  /\ m["jti"] = String(TokenID(c, i))
           /\ c.sub # "" => m["sub"] = String(c.sub)
           /\ c.authTime # 0 => m["auth_time"] = Int64(c.authTime)
           /\ TimeOf(m, "auth_time") = c.authTime
           /\ TimeOf(m, "rat") = c.rat
           /\ TimeOf(m, "exp") = c.exp
           /\ TimeOf(m, "iat") = c.iat
           /\ StringOf(m, "nonce") = c.nonce
           /\ StringOf(m, "at_hash") = c.atHash /\ ("at_hash" \in DOMAIN m <=> c.atHash # "")
           /\ StringOf(m, "c_hash") = c.cHash /\ ("c_hash" \in DOMAIN m <=> c.cHash # "")
<1>1. PICK n : n = IDTokenToMap(c, i)
  OBVIOUS
<1>2. m = JSON(n)
  BY <1>1
<1>3. /\ HasString(n, "sub", c.sub)
      /\ "jti" \in DOMAIN n /\ n["jti"] = String(TokenID(c, i))
      /\ HasTime(n, "iat", c.iat) /\ HasTime(n, "exp", c.exp)
      /\ HasTime(n, "rat", c.rat) /\ HasTime(n, "auth_time", c.authTime)
      /\ HasString(n, "nonce", c.nonce)
      /\ HasString(n, "at_hash", c.atHash) /\ HasString(n, "c_hash", c.cHash)
  BY <1>1, IDTokenClaims
<1>4. c.exp \in Nat /\ c.iat \in Nat /\ c.rat \in Nat /\ c.authTime \in Nat
  BY DEF IDClaims
<1>5. /\ HasString(m, "sub", c.sub) /\ HasString(m, "nonce", c.nonce)
      /\ HasString(m, "at_hash", c.atHash) /\ HasString(m, "c_hash", c.cHash)
  BY <1>2, <1>3, JSONKeeps
<1>6. /\ HasTime(m, "iat", c.iat) /\ HasTime(m, "exp", c.exp)
      /\ HasTime(m, "rat", c.rat) /\ HasTime(m, "auth_time", c.authTime)
  BY <1>2, <1>3, <1>4, JSONKeeps
<1>7. m["jti"] = String(TokenID(c, i))
  <2>1. n["jti"][1] # "[]string"
    BY <1>3 DEF String
  <2> QED
    BY <1>2, <1>3, <2>1 DEF JSON
<1>8. /\ StringOf(m, "nonce") = c.nonce /\ StringOf(m, "at_hash") = c.atHash
      /\ StringOf(m, "c_hash") = c.cHash
  BY <1>5, StringRead
<1>9. /\ TimeOf(m, "auth_time") = c.authTime /\ TimeOf(m, "rat") = c.rat
      /\ TimeOf(m, "exp") = c.exp /\ TimeOf(m, "iat") = c.iat
  BY <1>4, <1>6, TimeRead
<1> QED
  BY <1>5, <1>6, <1>7, <1>8, <1>9 DEF HasString, HasTime

LEMMA TextsHave ==
    /\ "" \in Texts /\ "0" \in Texts /\ "other" \in Texts
    /\ Subject \in Texts /\ Issuer \in Texts /\ ClientID \in Texts
    /\ \A f \in Forms : f.nonce \in Texts
  BY DEF Texts

LEMMA Lifespans ==
    /\ AccessTokenLifespan \in Nat /\ DefaultExpiryTime \in Nat /\ Leeway \in Nat
    /\ IDTokenLifespan["implicit"] \in Nat /\ IDTokenLifespan["authorization_code"] \in Nat
    /\ IDTokenLifespan["refresh_token"] \in Nat
  BY IdTokensAssumption

\* The clock starts at 1.
LEMMA Clock == TypeInv => now \in Nat /\ now > 0 /\ now <= MaxTime
<1>1. MaxTime \in Nat
  BY IdTokensAssumption
<1> QED
  BY <1>1 DEF TypeInv

\* The claims that GenerateAccessToken leaves in the session.
LEMMA SignedClaimsType ==
    ASSUME TypeInv, NEW s \in SessionType, NEW c, c = SignedClaims(s)
    PROVE  /\ c \in JWTClaims
           /\ c.sub = s.jwt.sub /\ c.extra = s.jwt.extra /\ c.exp = s.accessExp
           /\ c.scope = GrantedScopes /\ c.scopeField = ScopeField
<1>1. s.jwt \in JWTClaims /\ s.accessExp \in Nat /\ now \in Nat
  BY Clock DEF SessionType
<1>2. Issuer \in Texts /\ ScopeField \in ScopeFields
  BY IdTokensAssumption, TextsHave
<1>3. PICK w : w = With(s.jwt, s.accessExp, GrantedScopes, GrantedAudience)
  OBVIOUS
<1>4. /\ w \in JWTClaims /\ w.sub = s.jwt.sub /\ w.extra = s.jwt.extra
      /\ w.exp = s.accessExp /\ w.scope = GrantedScopes
  <2>1. GrantedScopes \in ScopeLists /\ GrantedAudience \in Audiences
    BY DEF ScopeLists, Audiences
  <2> QED
    BY <1>1, <1>3, <2>1 DEF JWTClaims, With
<1>5. PICK d : d = WithDefaults(w, now, Issuer)
  OBVIOUS
<1>6. /\ d \in JWTClaims /\ d.sub = w.sub /\ d.extra = w.extra
      /\ d.exp = w.exp /\ d.scope = w.scope
  BY <1>1, <1>2, <1>4, <1>5 DEF JWTClaims, WithDefaults
<1>7. c = [d EXCEPT !.scopeField = ScopeField]
  BY <1>3, <1>5 DEF SignedClaims, WithScopeField
<1> QED
  BY <1>2, <1>4, <1>6, <1>7 DEF JWTClaims

\* The scope is in one claim, or in two that say the same.
HasScopes(m, list) ==
    IF GrantedScopes = <<>> THEN "scp" \notin DOMAIN m /\ "scope" \notin DOMAIN m
    ELSE /\ "scp" \in DOMAIN m \/ "scope" \in DOMAIN m
         /\ "scp" \in DOMAIN m => m["scp"] = <<list, GrantedScopes>>
         /\ "scope" \in DOMAIN m => m["scope"] = Joined(GrantedScopes)

LEMMA ScopeClaimsHave ==
    ASSUME NEW c, c.scope = GrantedScopes, c.scopeField \in ScopeFields,
           NEW m, m = ScopeClaims(c)
    PROVE  DOMAIN m \subseteq {"scp", "scope"} /\ HasScopes(m, "[]string")
<1>1. CASE c.scope = <<>>
  BY <1>1 DEF ScopeClaims, NoClaims, HasScopes
<1>2. CASE c.scope # <<>>
  BY <1>2 DEF ScopeClaims, NoClaims, HasScopes, Over, Claim, Strings, ScopeFields
<1> QED
  BY <1>1, <1>2

LEMMA ScopesRead ==
    ASSUME NEW m, HasScopes(m, "[]interface")
    PROVE  ScopesOf(m) = {GrantedScopes}
<1>1. CASE GrantedScopes = <<>>
  BY <1>1 DEF HasScopes, ScopesOf
<1>2. CASE GrantedScopes # <<>>
  <2>1. "scp" \in DOMAIN m => m["scp"][1] = "[]interface" /\ m["scp"][2] = GrantedScopes
    BY <1>2 DEF HasScopes
  <2>2. "scope" \in DOMAIN m => m["scope"][1] = "joined" /\ m["scope"][2] = GrantedScopes
    BY <1>2 DEF HasScopes, Joined
  <2>3. "scp" \in DOMAIN m \/ "scope" \in DOMAIN m
    BY <1>2 DEF HasScopes
  <2> QED
    BY <2>1, <2>2, <2>3 DEF ScopesOf
<1> QED
  BY <1>1, <1>2

LEMMA JWTTypes ==
    ASSUME NEW c \in JWTClaims
    PROVE  c.iat \in Nat /\ c.exp \in Nat /\ c.nbf \in Nat /\ c.scopeField \in ScopeFields
  BY DEF JWTClaims

\* The map of an access token's claims.
LEMMA JWTClaimsMap ==
    ASSUME NEW c \in JWTClaims, c.extra = ClientExtra, c.scope = GrantedScopes,
           NEW i, NEW m, m = JWTToMap(c, i)
    PROVE  /\ HasString(m, "sub", c.sub) /\ HasTime(m, "exp", c.exp)
           /\ "client_id" \in DOMAIN m /\ m["client_id"] = String(ClientID)
           /\ HasScopes(m, "[]string")
<1>1. PICK X : X = Only(c.extra, DOMAIN c.extra \ Registered(c))
  OBVIOUS
<1>2. PICK P : P = Over(StringClaim("sub", c.sub), StringClaim("iss", c.iss))
  OBVIOUS
<1>3. PICK Q : Q = Over(Claim("jti", String(i)), Claim("aud", Strings(c.aud)))
  OBVIOUS
<1>4. PICK R : R = Over(TimeClaim("iat", c.iat), TimeClaim("nbf", c.nbf))
  OBVIOUS
<1>5. PICK S, T : S = ScopeClaims(c) /\ T = TimeClaim("exp", c.exp)
  OBVIOUS
<1>6. PICK TS, RS, QS, PS : /\ TS = Over(T, S) /\ RS = Over(R, TS)
                            /\ QS = Over(Q, RS) /\ PS = Over(P, QS) /\ m = Over(X, PS)
  <2>1. m = Over(X, Over(P, Over(Q, Over(R, Over(T, S)))))
    BY <1>1, <1>2, <1>3, <1>4, <1>5, Zenon DEF JWTToMap
  <2> QED
    BY <2>1
<1>7. /\ c.iat \in Nat /\ c.exp \in Nat /\ c.nbf \in Nat /\ c.scopeField \in ScopeFields
  BY JWTTypes
<1>8. DOMAIN X = {"client_id"} /\ X["client_id"] = String(ClientID)
  <2>1. DOMAIN c.extra = {"client_id"} /\ c.extra["client_id"] = String(ClientID)
    BY DEF ClientExtra, Claim
  <2>2. "client_id" \notin Registered(c)
    BY DEF Registered
  <2> QED
    BY <1>1, <2>1, <2>2 DEF Only
<1>9. DOMAIN P \subseteq {"sub", "iss"} /\ HasString(P, "sub", c.sub)
  BY <1>2, StringPair
<1>10. DOMAIN Q = {"jti", "aud"}
  BY <1>3 DEF Over, Claim
<1>11. DOMAIN R \subseteq {"iat", "nbf"}
  BY <1>4, <1>7, TimePair
<1>12. DOMAIN S \subseteq {"scp", "scope"} /\ HasScopes(S, "[]string")
  BY <1>5, <1>7, ScopeClaimsHave
<1>13. DOMAIN T \subseteq {"exp"} /\ HasTime(T, "exp", c.exp)
  BY <1>5, <1>7 DEF TimeClaim, NoClaims, HasTime
<1>14. /\ DOMAIN TS = DOMAIN T \union DOMAIN S /\ DOMAIN RS = DOMAIN R \union DOMAIN TS
       /\ DOMAIN QS = DOMAIN Q \union DOMAIN RS /\ DOMAIN PS = DOMAIN P \union DOMAIN QS
       /\ DOMAIN m = DOMAIN X \union DOMAIN PS
  BY <1>6 DEF Over
<1>15. /\ "sub" \notin DOMAIN QS /\ "sub" \notin DOMAIN X
       /\ {"exp", "scp", "scope"} \intersect DOMAIN R = {}
       /\ {"exp", "scp", "scope"} \intersect DOMAIN Q = {}
       /\ {"exp", "scp", "scope"} \intersect DOMAIN P = {}
       /\ {"exp", "scp", "scope"} \intersect DOMAIN X = {}
       /\ "exp" \notin DOMAIN S /\ "scp" \notin DOMAIN T /\ "scope" \notin DOMAIN T
       /\ "client_id" \notin DOMAIN PS
  BY <1>8, <1>9, <1>10, <1>11, <1>12, <1>13, <1>14
<1>16. HasString(m, "sub", c.sub)
  <2>1. HasString(PS, "sub", c.sub)
    BY <1>6, <1>9, <1>15, OverHasString
  <2> QED
    BY <1>6, <2>1, <1>15, OverHasString
<1>17. "exp" \in DOMAIN m <=> "exp" \in DOMAIN T
  BY <1>14, <1>15
<1>18. "exp" \in DOMAIN T => m["exp"] = T["exp"]
  BY <1>6, <1>15, <1>14 DEF Over
<1>19. HasTime(m, "exp", c.exp)
  BY <1>13, <1>17, <1>18 DEF HasTime
<1>20. /\ "scp" \in DOMAIN m <=> "scp" \in DOMAIN S
       /\ "scope" \in DOMAIN m <=> "scope" \in DOMAIN S
  BY <1>14, <1>15
<1>21. /\ "scp" \in DOMAIN S => m["scp"] = S["scp"]
       /\ "scope" \in DOMAIN S => m["scope"] = S["scope"]
  BY <1>6, <1>15, <1>14 DEF Over
<1>22. HasScopes(m, "[]string")
  BY <1>12, <1>20, <1>21, Zenon DEF HasScopes
<1>23. "client_id" \in DOMAIN m /\ m["client_id"] = String(ClientID)
  BY <1>6, <1>8, <1>15, OverKeeps
<1> QED
  BY <1>16, <1>19, <1>22, <1>23

\* What a reader finds in an access token.
LEMMA AccessTokenReads ==
    ASSUME NEW c \in JWTClaims, c.extra = ClientExtra, c.scope = GrantedScopes,
           NEW i, NEW m, m = JSON(JWTToMap(c, i))
    PROVE  /\ TimeOf(m, "exp") = c.exp
           /\ StringOf(m, "sub") = c.sub /\ StringOf(m, "client_id") = ClientID
           /\ ScopesOf(m) = {GrantedScopes}
<1>1. PICK n : n = JWTToMap(c, i)
  OBVIOUS
<1>2. m = JSON(n)
  BY <1>1
<1>3. /\ HasString(n, "sub", c.sub) /\ HasTime(n, "exp", c.exp)
      /\ "client_id" \in DOMAIN n /\ n["client_id"] = String(ClientID)
      /\ HasScopes(n, "[]string")
  BY <1>1, JWTClaimsMap
<1>4. c.exp \in Nat
  BY JWTTypes
<1>5. HasString(m, "sub", c.sub) /\ HasTime(m, "exp", c.exp)
  BY <1>2, <1>3, <1>4, JSONKeeps
<1>6. "client_id" \in DOMAIN m /\ m["client_id"] = String(ClientID)
  <2>1. n["client_id"][1] # "[]string"
    BY <1>3 DEF String
  <2> QED
    BY <1>2, <1>3, <2>1 DEF JSON
<1>7. StringOf(m, "client_id") = ClientID
  <2>1. m["client_id"][1] = "string" /\ m["client_id"][2] = ClientID
    BY <1>6 DEF String
  <2> QED
    BY <1>6, <2>1 DEF StringOf
<1>8. HasScopes(m, "[]interface")
  <2>1. DOMAIN m = DOMAIN n
    BY <1>2 DEF JSON
  <2>2. CASE GrantedScopes = <<>>
    BY <1>3, <2>1, <2>2, Zenon DEF HasScopes
  <2>3. CASE GrantedScopes # <<>>
    <3>1. "scp" \in DOMAIN n => n["scp"][1] = "[]string" /\ n["scp"][2] = GrantedScopes
      BY <1>3, <2>3 DEF HasScopes
    <3>2. "scp" \in DOMAIN m => m["scp"] = <<"[]interface", GrantedScopes>>
      BY <1>2, <2>1, <3>1 DEF JSON
    <3>3. "scope" \in DOMAIN n => n["scope"] = Joined(GrantedScopes)
      BY <1>3, <2>3, Zenon DEF HasScopes
    <3>4. "scope" \in DOMAIN n => n["scope"][1] # "[]string"
      BY <3>3 DEF Joined
    <3>5. "scope" \in DOMAIN m => m["scope"] = n["scope"]
      BY <1>2, <2>1, <3>4 DEF JSON
    <3>6. "scp" \in DOMAIN n \/ "scope" \in DOMAIN n
      BY <1>3, <2>3, Zenon DEF HasScopes
    <3> QED
      BY <2>1, <2>3, <3>2, <3>3, <3>5, <3>6, Zenon DEF HasScopes
  <2> QED
    BY <2>2, <2>3
<1> QED
  BY <1>4, <1>5, <1>7, <1>8, StringRead, TimeRead, ScopesRead

-----------------------------------------------------------------------------
(* The checks.                                                             *)

LEMMA IDTypes ==
    ASSUME NEW c \in IDClaims
    PROVE  /\ c.sub \in Texts /\ c.nonce \in Texts /\ c.aud \in Seq(Texts)
           /\ c.exp \in Nat /\ c.iat \in Nat /\ c.rat \in Nat /\ c.authTime \in Nat
  BY DEF IDClaims

LEMMA FormTypes ==
    ASSUME NEW f \in Forms
    PROVE  /\ f.maxAge \in Nat /\ f.authTime \in Nat /\ f.rat \in Nat /\ f.nonce \in Texts
           /\ f # None /\ f.types \subseteq {"code", "token", "id_token"}
  BY FormsAssumption, NothingAssumption, TextsHave

LEMMA MaxAgeChecked ==
    ASSUME NEW f \in Forms, NEW c \in IDClaims, NEW tooOld, tooOld # "nil"
    PROVE  MaxAgeError(f, c, tooOld) = "nil" <=>
              (f.maxAge > 0 =>
                  c.authTime # 0 /\ c.rat # 0 /\ c.authTime + f.maxAge >= c.rat)
  BY FormTypes, IDTypes DEF MaxAgeError

\* What ValidatePrompt has made sure of.
LEMMA PromptChecked ==
    ASSUME TypeInv, NEW f \in Forms, NEW c \in IDClaims, ValidatePrompt(f, c) = "nil"
    PROVE  /\ c.sub # "" /\ c.authTime <= now + Leeway
           /\ f.maxAge > 0 => c.authTime # 0 /\ c.rat # 0 /\ c.authTime + f.maxAge >= c.rat
           /\ Has(f.prompt, "login") => c.authTime >= c.rat
           /\ Has(f.prompt, "none") => c.authTime # 0 /\ c.authTime <= c.rat
<1>1. /\ now \in Nat /\ Leeway \in Nat
      /\ c.authTime \in Nat /\ c.rat \in Nat /\ f.maxAge \in Nat
  BY Clock, IdTokensAssumption, FormTypes, IDTypes
<1>2. /\ c.sub # "" /\ ~(c.authTime > now + Leeway)
      /\ MaxAgeError(f, c, "ErrLoginRequired") = "nil"
      /\ ~(Has(f.prompt, "none") /\ c.authTime = 0)
      /\ ~(Has(f.prompt, "none") /\ c.authTime > c.rat)
      /\ ~(Has(f.prompt, "login") /\ c.authTime < c.rat)
  <2> DEFINE rest ==
        IF c.sub = "" \/ c.authTime > now + Leeway THEN "ErrServerError"
        ELSE IF MaxAgeError(f, c, "ErrLoginRequired") # "nil"
        THEN MaxAgeError(f, c, "ErrLoginRequired")
        ELSE IF Has(f.prompt, "none") /\ c.authTime = 0 THEN "ErrServerError"
        ELSE IF Has(f.prompt, "none") /\ c.authTime > c.rat THEN "ErrLoginRequired"
        ELSE IF Has(f.prompt, "login") /\ c.authTime < c.rat THEN "ErrLoginRequired"
        ELSE HintError(f.hint, c.sub, "ErrInvalidRequest", "ErrInvalidRequest", "ErrLoginRequired")
  <2>1. rest = "nil"
    BY Zenon DEF ValidatePrompt
  <2> QED
    BY <2>1, Zenon
<1>3. f.maxAge > 0 => c.authTime # 0 /\ c.rat # 0 /\ c.authTime + f.maxAge >= c.rat
  BY <1>2, MaxAgeChecked
<1>4. /\ ~(c.authTime > now + Leeway)
      /\ ~(Has(f.prompt, "none") /\ c.authTime = 0)
      /\ ~(Has(f.prompt, "none") /\ c.authTime > c.rat)
      /\ ~(Has(f.prompt, "login") /\ c.authTime < c.rat)
  BY <1>2, Zenon
<1>5. /\ c.authTime <= now + Leeway
      /\ Has(f.prompt, "login") => c.authTime >= c.rat
      /\ Has(f.prompt, "none") => c.authTime # 0 /\ c.authTime <= c.rat
  BY <1>1, <1>4
<1> QED
  BY <1>2, <1>3, <1>5, Zenon

\* Why the part of GenerateIDToken that a refresh call skips fails, for the
\* session of a request that the authorize endpoint has accepted.
LEMMA RequestChecked ==
    ASSUME TypeInv, NEW f \in Forms, NEW s \in SessionType, Accepted(f), Fits(s, f),
           RequestError(f, s.id) # "nil"
    PROVE  f.hint # None \/ (f.prompt # <<>> /\ s.id.authTime = 0)
<1> DEFINE c == s.id
<1>1. c \in IDClaims
  BY DEF SessionType
<1>2. /\ now \in Nat /\ Leeway \in Nat /\ c.authTime \in Nat /\ c.rat \in Nat
      /\ f.maxAge \in Nat /\ f.authTime \in Nat /\ f.rat \in Nat
  BY <1>1, Clock, IdTokensAssumption, FormTypes, IDTypes
<1>3. /\ c.rat = f.rat /\ (f.authTime # 0 => c.authTime = f.authTime)
      /\ c.authTime <= now + Leeway
  BY DEF Fits
<1> HIDE DEF c
<1>4. ~(c.authTime > now + Leeway)
  BY <1>2, <1>3
<1>5. MaxAgeError(f, c, "ErrServerError") = "nil"
  <2>1. f.maxAge > 0 => c.authTime # 0 /\ c.rat # 0 /\ c.authTime + f.maxAge >= c.rat
    BY <1>2, <1>3 DEF Accepted
  <2> QED
    BY <1>1, <2>1, MaxAgeChecked
<1>6. ~(f.prompt = <<"none">> /\ c.authTime > c.rat)
  <2>1. ASSUME f.prompt = <<"none">> PROVE c.authTime <= c.rat
    <3>1. Has(f.prompt, "none")
      BY <2>1 DEF Has
    <3> QED
      BY <1>3, <3>1 DEF Accepted
  <2> QED
    BY <1>2, <2>1
<1>7. ~(f.prompt = <<"login">> /\ c.authTime < c.rat)
  <2>1. ASSUME f.prompt = <<"login">> PROVE c.authTime >= c.rat
    <3>1. Has(f.prompt, "login")
      BY <2>1 DEF Has
    <3>2. f.authTime >= f.rat
      BY <3>1 DEF Accepted
    <3> QED
      BY <1>2, <1>3, <3>2
  <2> QED
    BY <1>2, <2>1
<1>8. f.hint = None =>
          HintError(f.hint, c.sub, "ErrServerError", "ErrServerError", "ErrServerError") = "nil"
  BY DEF HintError
<1> QED
  BY <1>4, <1>5, <1>6, <1>7, <1>8, Zenon DEF RequestError, c

\* What GenerateIDToken leaves of the claims, whether it fails or not.
Leaves(f, nonce, c, g) ==
    /\ g.claims \in IDClaims
    /\ g.claims.sub = c.sub /\ g.claims.rat = c.rat /\ g.claims.jti = c.jti
    /\ g.claims.atHash = c.atHash /\ g.claims.cHash = c.cHash
    /\ c.exp # 0 => g.claims.exp = c.exp
    /\ c.exp = 0 => g.claims.exp >= now
    /\ g.err = "nil" =>
          /\ c.sub # "" /\ (f # None => RequestError(f, c) = "nil")
          /\ g.claims.authTime = IF c.authTime = 0 THEN now ELSE c.authTime
          /\ g.claims.nonce = IF nonce = "" THEN c.nonce ELSE nonce
          /\ g.claims.iat = now /\ g.claims.exp >= now
    /\ g.err # "nil" =>
          /\ g.claims.authTime = c.authTime /\ g.claims.nonce = c.nonce
          /\ \/ g.err = "ErrServerError" /\ c.sub = ""
             \/ g.err = "ErrServerError" /\ f # None /\ RequestError(f, c) # "nil"
             \/ g.err = "ErrServerError" /\ c.exp # 0 /\ c.exp < now
             \/ g.err = "ErrInsufficientEntropy" /\ nonce = "short"

LEMMA Generates ==
    ASSUME TypeInv, NEW f \in Forms \union {None}, NEW nonce \in Texts, NEW c \in IDClaims,
           NEW lifespan \in Nat
    PROVE  Leaves(f, nonce, c, GenerateIDToken(f, nonce, c, lifespan))
<1> PICK g : g = GenerateIDToken(f, nonce, c, lifespan)
  OBVIOUS
<1> DEFINE acr == IF f = None THEN c ELSE WithAcr(f, c)
           dated == WithExpiry(acr, lifespan)
<1>1. now \in Nat /\ DefaultExpiryTime \in Nat /\ ClientID \in Texts /\ Issuer \in Texts
  BY Clock, IdTokensAssumption, TextsHave
<1>2. /\ acr \in IDClaims
      /\ acr.sub = c.sub /\ acr.rat = c.rat /\ acr.jti = c.jti /\ acr.atHash = c.atHash
      /\ acr.cHash = c.cHash /\ acr.exp = c.exp /\ acr.authTime = c.authTime
      /\ acr.nonce = c.nonce
  <2>1. PICK zero \in Texts : acr = c \/ acr = [c EXCEPT !.acr = zero]
    <3>1. acr = c \/ acr = [c EXCEPT !.acr = "0"]
      BY Zenon DEF WithAcr
    <3> HIDE DEF acr
    <3> QED
      BY <3>1, TextsHave, Zenon
  <2> HIDE DEF acr
  <2>2. CASE acr = c
    BY <2>2
  <2>3. CASE acr = [c EXCEPT !.acr = zero]
    BY <2>3 DEF IDClaims
  <2> QED
    BY <2>1, <2>2, <2>3
<1> HIDE DEF acr
<1>3. /\ dated \in IDClaims
      /\ dated.sub = c.sub /\ dated.rat = c.rat /\ dated.jti = c.jti
      /\ dated.atHash = c.atHash /\ dated.cHash = c.cHash /\ dated.authTime = c.authTime
      /\ dated.nonce = c.nonce
      /\ c.exp # 0 => dated.exp = c.exp
      /\ c.exp = 0 => dated.exp >= now
  <2> DEFINE later == now + IF lifespan = 0 THEN DefaultExpiryTime ELSE lifespan
  <2>1. later \in Nat /\ later >= now
    BY <1>1
  <2>2. dated = IF acr.exp # 0 THEN acr ELSE [acr EXCEPT !.exp = later]
    BY DEF WithExpiry
  <2> HIDE DEF later, dated
  <2> QED
    BY <1>2, <2>1, <2>2 DEF IDClaims
<1> HIDE DEF dated
<1>4. /\ Completed(dated, nonce) \in IDClaims
      /\ Completed(dated, nonce).sub = c.sub /\ Completed(dated, nonce).rat = c.rat
      /\ Completed(dated, nonce).jti = c.jti /\ Completed(dated, nonce).atHash = c.atHash
      /\ Completed(dated, nonce).cHash = c.cHash /\ Completed(dated, nonce).exp = dated.exp
      /\ Completed(dated, nonce).authTime = IF c.authTime = 0 THEN now ELSE c.authTime
      /\ Completed(dated, nonce).nonce = IF nonce = "" THEN c.nonce ELSE nonce
      /\ Completed(dated, nonce).iat = now
  <2> DEFINE aud == IF \E i \in 1..Len(dated.aud) : dated.aud[i] = ClientID THEN dated.aud
                    ELSE Append(dated.aud, ClientID)
  <2>1. dated.aud \in Seq(Texts) /\ dated.nonce \in Texts
    BY <1>3, IDTypes
  <2>2. aud \in Seq(Texts)
    <3>1. aud = dated.aud \/ aud = Append(dated.aud, ClientID)
      BY Zenon
    <3> HIDE DEF aud
    <3> QED
      BY <1>1, <2>1, <3>1
  <2>3. Completed(dated, nonce) =
          [dated EXCEPT !.authTime = IF dated.authTime = 0 THEN now ELSE dated.authTime,
                        !.iss = IF dated.iss = "" THEN Issuer ELSE dated.iss,
                        !.nonce = IF nonce = "" THEN dated.nonce ELSE nonce,
                        !.aud = aud, !.iat = now]
    BY DEF Completed
  <2> HIDE DEF aud
  <2> QED
    BY <1>1, <1>3, <2>2, <2>3 DEF IDClaims
<1>5. /\ g.claims = IF g.err = "nil" THEN Completed(dated, nonce) ELSE dated
      /\ g.err = IF c.sub = "" THEN "ErrServerError"
                 ELSE IF f # None /\ RequestError(f, c) # "nil" THEN "ErrServerError"
                 ELSE IF dated.exp < now THEN "ErrServerError"
                 ELSE IF nonce = "short" THEN "ErrInsufficientEntropy"
                 ELSE "nil"
  BY DEF GenerateIDToken, dated, acr
<1>6. dated.exp \in Nat /\ c.exp \in Nat
  BY <1>3, IDTypes
<1>7. /\ c.exp # 0 => dated.exp = c.exp
      /\ dated.exp < now => c.exp # 0 /\ c.exp < now
      /\ ~(dated.exp < now) => dated.exp >= now
  BY <1>1, <1>3, <1>6
<1>8. CASE g.err = "nil"
  <2>1. g.claims = Completed(dated, nonce)
    BY <1>5, <1>8, Zenon
  <2>2. c.sub # "" /\ (f # None => RequestError(f, c) = "nil") /\ ~(dated.exp < now)
    BY <1>5, <1>8, Zenon
  <2> QED
    BY <1>3, <1>4, <1>7, <1>8, <2>1, <2>2, Zenon DEF Leaves
<1>9. CASE g.err # "nil"
  <2>1. g.claims = dated
    BY <1>5, <1>9, Zenon
  <2>2. \/ g.err = "ErrServerError" /\ c.sub = ""
        \/ g.err = "ErrServerError" /\ f # None /\ RequestError(f, c) # "nil"
        \/ g.err = "ErrServerError" /\ dated.exp < now
        \/ g.err = "ErrInsufficientEntropy" /\ nonce = "short"
    BY <1>5, <1>9, Zenon
  <2> QED
    BY <1>3, <1>7, <1>9, <2>1, <2>2, Zenon DEF Leaves
<1> QED
  BY <1>8, <1>9

-----------------------------------------------------------------------------
(* The tokens.                                                             *)

LEMMA NewAccessToken ==
    ASSUME TypeInv, NEW s \in SessionType, s.accessExp # 0, s.jwt.sub = Subject,
           s.jwt.extra = ClientExtra, NEW i, NEW token, token = AccessToken(s, i)
    PROVE  AccessTokenFits(token)
<1>1. PICK c : c = SignedClaims(s)
  OBVIOUS
<1>2. /\ c \in JWTClaims
      /\ c.sub = Subject /\ c.extra = ClientExtra /\ c.exp = s.accessExp
      /\ c.scope = GrantedScopes
  BY <1>1, SignedClaimsType
<1>3. PICK m : m = JSON(JWTToMap(c, i))
  OBVIOUS
<1>4. /\ TimeOf(m, "exp") = s.accessExp /\ StringOf(m, "sub") = Subject
      /\ StringOf(m, "client_id") = ClientID /\ ScopesOf(m) = {GrantedScopes}
  BY <1>2, <1>3, AccessTokenReads
<1>5. token = [raw |-> Generate(JWTToMap(c, i), NoClaims, Key), expiresAt |-> s.accessExp]
  BY <1>1 DEF AccessToken
<1>6. PICK header, other : Generate(JWTToMap(c, i), NoClaims, Key)
                             = [header |-> header, claims |-> m, pair |-> other]
  BY <1>3 DEF Generate
<1>7. /\ token.expiresAt = s.accessExp /\ token.raw.claims = m
      /\ DOMAIN token.raw = {"header", "claims", "pair"}
  BY <1>5, <1>6
<1>8. s.accessExp \in Nat
  BY DEF SessionType
<1> QED
  BY <1>4, <1>7, <1>8, Zenon DEF AccessTokenFits

LEMMA NewIDToken ==
    ASSUME TypeInv, NEW c \in IDClaims, NEW i, NEW token, token = IDToken(c, i)
    PROVE  /\ token.at = now /\ token.raw.claims["jti"] = String(TokenID(c, i))
           /\ c.sub # "" => token.raw.claims["sub"] = String(c.sub)
           /\ c.authTime # 0 => token.raw.claims["auth_time"] = Int64(c.authTime)
           /\ TimeOf(token.raw.claims, "auth_time") = c.authTime
           /\ TimeOf(token.raw.claims, "rat") = c.rat
           /\ TimeOf(token.raw.claims, "exp") = c.exp
           /\ TimeOf(token.raw.claims, "iat") = c.iat
           /\ StringOf(token.raw.claims, "nonce") = c.nonce
           /\ StringOf(token.raw.claims, "at_hash") = c.atHash
           /\ "at_hash" \in DOMAIN token.raw.claims <=> c.atHash # ""
           /\ StringOf(token.raw.claims, "c_hash") = c.cHash
           /\ "c_hash" \in DOMAIN token.raw.claims <=> c.cHash # ""
<1>1. PICK m : m = JSON(IDTokenToMap(c, i))
  OBVIOUS
<1>2. token = [raw |-> Generate(IDTokenToMap(c, i), NoClaims, Key), at |-> now]
  BY DEF IDToken
<1>3. PICK header, other : Generate(IDTokenToMap(c, i), NoClaims, Key)
                             = [header |-> header, claims |-> m, pair |-> other]
  BY <1>1 DEF Generate
<1>4. token.at = now /\ token.raw.claims = m
  BY <1>2, <1>3
<1>5. /\ m["jti"] = String(TokenID(c, i))
      /\ c.sub # "" => m["sub"] = String(c.sub)
      /\ c.authTime # 0 => m["auth_time"] = Int64(c.authTime)
      /\ TimeOf(m, "auth_time") = c.authTime /\ TimeOf(m, "rat") = c.rat
      /\ TimeOf(m, "exp") = c.exp /\ TimeOf(m, "iat") = c.iat
      /\ StringOf(m, "nonce") = c.nonce
      /\ StringOf(m, "at_hash") = c.atHash /\ ("at_hash" \in DOMAIN m <=> c.atHash # "")
      /\ StringOf(m, "c_hash") = c.cHash /\ ("c_hash" \in DOMAIN m <=> c.cHash # "")
  BY <1>1, IDTokenReads, Zenon
<1> QED
  BY <1>4, <1>5, Zenon

-----------------------------------------------------------------------------
(* What the actions that write claims do.                                  *)

\* The session an application fills in for an authorize request.
Filled(f) ==
    [NewSession EXCEPT
        !.id.sub = Subject, !.id.authTime = f.authTime, !.id.rat = f.rat,
        !.jwt.sub = Subject, !.jwt.extra = Claim("client_id", String(ClientID))]

LEMMA NewClaims == NewIDTokenClaims \in IDClaims /\ NewJWTClaims \in JWTClaims
<1>1. NewIDTokenClaims \in IDClaims
  <2>1. "" \in Texts /\ "" \in Hashes
    BY TextsHave DEF Hashes
  <2>2. <<>> \in Seq(Texts)
    OBVIOUS
  <2> QED
    BY <2>1, <2>2 DEF NewIDTokenClaims, IDClaims
<1>2. NewJWTClaims \in JWTClaims
  <2>1. /\ "" \in Texts /\ "unset" \in ScopeFields
        /\ <<>> \in ScopeLists /\ <<>> \in Audiences /\ NoClaims \in Extras
    BY TextsHave DEF ScopeFields, ScopeLists, Audiences, Extras
  <2> QED
    BY <2>1 DEF NewJWTClaims, JWTClaims
<1> QED
  BY <1>1, <1>2

LEMMA FilledType ==
    ASSUME NEW f \in Forms, NEW s, s = Filled(f)
    PROVE  /\ s \in SessionType /\ s.id \in IDClaims /\ s.jwt \in JWTClaims
           /\ s.id.sub = Subject /\ s.id.authTime = f.authTime /\ s.id.rat = f.rat
           /\ s.id.jti = "" /\ s.id.nonce = "" /\ s.id.exp = 0
           /\ s.id.atHash = "" /\ s.id.cHash = "" /\ s.accessExp = 0
           /\ s.jwt.sub = Subject /\ s.jwt.extra = ClientExtra
<1>1. PICK c : c = [NewIDTokenClaims EXCEPT !.sub = Subject, !.authTime = f.authTime,
                                            !.rat = f.rat]
  OBVIOUS
<1>2. PICK j : j = [NewJWTClaims EXCEPT !.sub = Subject, !.extra = ClientExtra]
  OBVIOUS
<1>3. /\ c \in IDClaims /\ c.sub = Subject /\ c.authTime = f.authTime /\ c.rat = f.rat
      /\ c.jti = "" /\ c.nonce = "" /\ c.exp = 0 /\ c.atHash = "" /\ c.cHash = ""
  <2>1. Subject \in Texts /\ f.authTime \in Nat /\ f.rat \in Nat
    BY TextsHave, FormTypes
  <2>2. c \in IDClaims /\ c.sub = Subject /\ c.authTime = f.authTime /\ c.rat = f.rat
    BY <1>1, <2>1, NewClaims DEF IDClaims
  <2>3. c.jti = "" /\ c.nonce = "" /\ c.exp = 0 /\ c.atHash = "" /\ c.cHash = ""
    BY <1>1 DEF NewIDTokenClaims
  <2> QED
    BY <2>2, <2>3
<1>4. j \in JWTClaims /\ j.sub = Subject /\ j.extra = ClientExtra
  <2>1. Subject \in Texts /\ ClientExtra \in Extras
    BY TextsHave DEF Extras
  <2> QED
    BY <1>2, <2>1, NewClaims DEF JWTClaims
<1>5. s = [id |-> c, jwt |-> j, accessExp |-> 0]
  BY <1>1, <1>2 DEF Filled, NewSession, ClientExtra
<1>6. s.id = c /\ s.jwt = j /\ s.accessExp = 0
  BY <1>5
<1>7. c \in IDClaims /\ j \in JWTClaims
  BY <1>3, <1>4
<1>8. s \in SessionType
  BY <1>5, <1>7 DEF SessionType
<1> QED
  BY <1>3, <1>4, <1>6, <1>8, Zenon

\* The front channel's access token.
LEMMA FrontTokenDoes ==
    ASSUME TypeInv, NEW f \in Forms, NEW s \in SessionType,
           s.jwt.sub = Subject, s.jwt.extra = ClientExtra,
           NEW r, r = WithFrontToken(f, s)
    PROVE  /\ r \in SessionType /\ r.id = s.id
           /\ r.jwt.sub = Subject /\ r.jwt.extra = ClientExtra
           /\ "token" \in f.types => r.accessExp # 0
<1>1. CASE "token" \notin f.types
  BY <1>1 DEF WithFrontToken
<1>2. CASE "token" \in f.types
  <2>1. PICK e : e = IF s.accessExp = 0 THEN now + AccessTokenLifespan ELSE s.accessExp
    OBVIOUS
  <2>2. e \in Nat \ {0}
    <3>1. s.accessExp \in Nat
      BY DEF SessionType
    <3> QED
      BY <2>1, <3>1, Clock, Lifespans
  <2>3. PICK d : d = [s EXCEPT !.accessExp = e]
    OBVIOUS
  <2>4. d \in SessionType /\ d.id = s.id /\ d.jwt = s.jwt /\ d.accessExp = e
    BY <2>2, <2>3 DEF SessionType
  <2>5. PICK c : c = SignedClaims(d)
    OBVIOUS
  <2>6. c \in JWTClaims /\ c.sub = Subject /\ c.extra = ClientExtra
    BY <2>4, <2>5, SignedClaimsType
  <2>7. r = [d EXCEPT !.jwt = c]
    BY <1>2, <2>1, <2>3, <2>5, Zenon DEF WithFrontToken
  <2> QED
    BY <2>2, <2>4, <2>6, <2>7 DEF SessionType
<1> QED
  BY <1>1, <1>2

\* The hashes of the front channel, in a session that has none.
Hashed(f, s, a, r) ==
    /\ r \in SessionType /\ r.jwt = s.jwt /\ r.accessExp = s.accessExp
    /\ r.id.sub = s.id.sub /\ r.id.rat = s.id.rat /\ r.id.authTime = s.id.authTime
    /\ r.id.jti = s.id.jti /\ r.id.nonce = s.id.nonce /\ r.id.exp = s.id.exp
    /\ r.id.atHash = IF "token" \in f.types THEN a ELSE ""
    /\ r.id.cHash = IF Hybrid(f) THEN a ELSE ""

LEMMA HashesDo ==
    ASSUME NEW a \in AuthReqs, NEW f \in Forms, NEW s \in SessionType,
           s.id.atHash = "", s.id.cHash = ""
    PROVE  Hashed(f, s, a, WithHashes(f, s, a))
<1> PICK r : r = WithHashes(f, s, a)
  OBVIOUS
<1>1. PICK h : h = IF "token" \in f.types THEN a ELSE ""
  OBVIOUS
<1>2. PICK g : g = IF Hybrid(f) THEN a ELSE ""
  OBVIOUS
<1>3. h \in Hashes /\ g \in Hashes
  <2>1. a \in Hashes /\ "" \in Hashes
    BY DEF Hashes, Issuers
  <2> QED
    BY <1>1, <1>2, <2>1, Zenon
<1>4. s.id \in IDClaims
  BY DEF SessionType
<1>5. r = [s EXCEPT !.id.cHash = g, !.id.atHash = h]
  BY <1>1, <1>2, Zenon DEF WithHashes
<1>6. PICK c : c = [s.id EXCEPT !.cHash = g, !.atHash = h]
  OBVIOUS
<1>7. /\ c \in IDClaims /\ c.sub = s.id.sub /\ c.rat = s.id.rat
      /\ c.authTime = s.id.authTime /\ c.jti = s.id.jti /\ c.nonce = s.id.nonce
      /\ c.exp = s.id.exp /\ c.atHash = h /\ c.cHash = g
  BY <1>3, <1>4, <1>6 DEF IDClaims
<1>8. r = [s EXCEPT !.id = c]
  BY <1>4, <1>5, <1>6 DEF SessionType, IDClaims
<1>9. r \in SessionType /\ r.jwt = s.jwt /\ r.accessExp = s.accessExp /\ r.id = c
  BY <1>7, <1>8 DEF SessionType
<1> QED
  BY <1>1, <1>2, <1>7, <1>9, Zenon DEF Hashed

\* What an accepted authorize request leaves: its session s and its tokens.
AuthorizedWith(a, f, s) ==
    /\ forms[a] = None /\ forms' = [forms EXCEPT ![a] = f]
    /\ sessions' = [sessions EXCEPT ![a] = s]
    /\ Accepted(f) /\ Fits(s, f) /\ s.id.jti = ""
    /\ s.id.atHash = IF "token" \in f.types THEN a ELSE ""
    /\ s.id.cHash = IF Hybrid(f) THEN a ELSE ""
    /\ IF "token" \in f.types
       THEN \E token : AccessTokenFits(token) /\ accessTokens' = Issued(accessTokens, a, token)
       ELSE accessTokens' = accessTokens
    /\ IF "id_token" \in f.types
       THEN /\ idTokens' = Issued(idTokens, a, IDToken(s.id, a))
            /\ s.id.authTime # 0 /\ s.id.nonce = f.nonce /\ s.id.iat = now /\ s.id.exp >= now
       ELSE idTokens' = idTokens /\ s.id.nonce = "" /\ s.id.exp = 0
    /\ IF "code" \in f.types
       THEN /\ codes' = [codes EXCEPT ![a] = "active"]
            /\ oidcSessions' = [oidcSessions EXCEPT ![a] = "stored"]
       ELSE codes' = codes /\ oidcSessions' = oidcSessions
    /\ now' = now /\ pair' = pair /\ calls' = calls

LEMMA AuthorizeDoes ==
    ASSUME TypeInv, NEW a \in AuthReqs, NEW f \in Forms, Authorize(a, f)
    PROVE  \E s \in SessionType : AuthorizedWith(a, f, s)
<1>1. PICK start : start = Filled(f)
  OBVIOUS
<1>2. PICK front : front = WithFrontToken(f, start)
  OBVIOUS
<1>3. PICK tokened : tokened = WithHashes(f, front, a)
  OBVIOUS
<1>4. PICK g : g = GenerateIDToken(f, f.nonce, tokened.id, IDTokenLifespan["implicit"])
  OBVIOUS
<1>5. /\ forms[a] = None /\ NonceFits(f) /\ ValidatePrompt(f, start.id) = "nil"
      /\ forms' = [forms EXCEPT ![a] = f]
      /\ IF "code" \in f.types
         THEN /\ codes' = [codes EXCEPT ![a] = "active"]
              /\ oidcSessions' = [oidcSessions EXCEPT ![a] = "stored"]
         ELSE codes' = codes /\ oidcSessions' = oidcSessions
      /\ accessTokens' = IF "token" \in f.types
                         THEN Issued(accessTokens, a, AccessToken(front, a))
                         ELSE accessTokens
      /\ IF "id_token" \in f.types
         THEN /\ g.err = "nil"
              /\ sessions' = [sessions EXCEPT ![a] = [tokened EXCEPT !.id = g.claims]]
              /\ idTokens' = Issued(idTokens, a, IDToken(g.claims, a))
         ELSE sessions' = [sessions EXCEPT ![a] = tokened] /\ idTokens' = idTokens
      /\ now' = now /\ pair' = pair /\ calls' = calls
  <2>1. start = [NewSession EXCEPT
                    !.id.sub = Subject, !.id.authTime = f.authTime, !.id.rat = f.rat,
                    !.jwt.sub = Subject, !.jwt.extra = Claim("client_id", String(ClientID))]
    BY <1>1 DEF Filled
  <2>2. /\ forms[a] = None /\ NonceFits(f) /\ ValidatePrompt(f, start.id) = "nil"
        /\ forms' = [forms EXCEPT ![a] = f]
    BY <2>1 DEF Authorize
  <2>3. IF "code" \in f.types
        THEN /\ codes' = [codes EXCEPT ![a] = "active"]
             /\ oidcSessions' = [oidcSessions EXCEPT ![a] = "stored"]
        ELSE codes' = codes /\ oidcSessions' = oidcSessions
    BY Zenon DEF Authorize
  <2>4. accessTokens' = IF "token" \in f.types
                        THEN Issued(accessTokens, a, AccessToken(front, a))
                        ELSE accessTokens
    BY <1>2, <2>1 DEF Authorize
  <2>5. IF "id_token" \in f.types
        THEN /\ g.err = "nil"
             /\ sessions' = [sessions EXCEPT ![a] = [tokened EXCEPT !.id = g.claims]]
             /\ idTokens' = Issued(idTokens, a, IDToken(g.claims, a))
        ELSE sessions' = [sessions EXCEPT ![a] = tokened] /\ idTokens' = idTokens
    BY <1>2, <1>3, <1>4, <2>1 DEF Authorize
  <2>6. now' = now /\ pair' = pair /\ calls' = calls
    BY Zenon DEF Authorize
  <2> QED
    BY <2>2, <2>3, <2>4, <2>5, <2>6, Zenon
<1>6. /\ start \in SessionType /\ start.id \in IDClaims
      /\ start.id.sub = Subject /\ start.id.authTime = f.authTime /\ start.id.rat = f.rat
      /\ start.id.jti = "" /\ start.id.nonce = "" /\ start.id.exp = 0
      /\ start.id.atHash = "" /\ start.id.cHash = ""
      /\ start.jwt.sub = Subject /\ start.jwt.extra = ClientExtra
  BY <1>1, FilledType
<1>7. /\ front \in SessionType /\ front.id = start.id
      /\ front.jwt.sub = Subject /\ front.jwt.extra = ClientExtra
      /\ "token" \in f.types => front.accessExp # 0
  BY <1>2, <1>6, FrontTokenDoes
<1>8. /\ tokened \in SessionType /\ tokened.jwt = front.jwt
      /\ tokened.id.sub = Subject /\ tokened.id.rat = f.rat /\ tokened.id.authTime = f.authTime
      /\ tokened.id.jti = "" /\ tokened.id.nonce = "" /\ tokened.id.exp = 0
      /\ tokened.id.atHash = IF "token" \in f.types THEN a ELSE ""
      /\ tokened.id.cHash = IF Hybrid(f) THEN a ELSE ""
  <2>1. front.id.atHash = "" /\ front.id.cHash = ""
    BY <1>6, <1>7, Zenon
  <2>2. Hashed(f, front, a, tokened)
    BY <1>3, <1>7, <2>1, HashesDo
  <2> QED
    BY <1>6, <1>7, <2>2, Zenon DEF Hashed
<1>9. Subject # "" /\ f.authTime <= now + Leeway /\ Accepted(f)
  <2>1. /\ start.id.sub # "" /\ start.id.authTime <= now + Leeway
        /\ f.maxAge > 0 => start.id.authTime # 0 /\ start.id.rat # 0
                           /\ start.id.authTime + f.maxAge >= start.id.rat
        /\ Has(f.prompt, "login") => start.id.authTime >= start.id.rat
        /\ Has(f.prompt, "none") => start.id.authTime # 0 /\ start.id.authTime <= start.id.rat
    BY <1>5, <1>6, PromptChecked
  <2>2. f.nonce = "short" => f.types = {"code"}
    BY <1>5 DEF NonceFits
  <2> QED
    BY <1>6, <2>1, <2>2, Zenon DEF Accepted
<1>10. "token" \in f.types => AccessTokenFits(AccessToken(front, a))
  BY <1>7, NewAccessToken
<1>11. CASE "id_token" \in f.types
  <2>1. PICK s : s = [tokened EXCEPT !.id = g.claims]
    OBVIOUS
  <2>2. tokened.id \in IDClaims /\ f.nonce \in Texts
    BY <1>8, FormTypes DEF SessionType
  <2>3. g.err = "nil"
    BY <1>5, <1>11
  <2>4. /\ g.claims \in IDClaims
        /\ g.claims.sub = tokened.id.sub /\ g.claims.rat = tokened.id.rat
        /\ g.claims.jti = tokened.id.jti
        /\ g.claims.atHash = tokened.id.atHash /\ g.claims.cHash = tokened.id.cHash
        /\ g.claims.authTime = IF tokened.id.authTime = 0 THEN now ELSE tokened.id.authTime
        /\ g.claims.nonce = IF f.nonce = "" THEN tokened.id.nonce ELSE f.nonce
        /\ g.claims.iat = now /\ g.claims.exp >= now
    <3>1. f \in Forms \union {None} /\ IDTokenLifespan["implicit"] \in Nat
      BY Lifespans
    <3>2. Leaves(f, f.nonce, tokened.id, g)
      BY <1>4, <2>2, <3>1, Generates
    <3> QED
      BY <2>3, <3>2, Zenon DEF Leaves
  <2>5. s \in SessionType /\ s.id = g.claims /\ s.jwt = tokened.jwt
    <3>1. tokened \in SessionType /\ g.claims \in IDClaims
      BY <1>8, <2>4
    <3> QED
      BY <2>1, <3>1 DEF SessionType
  <2>6. /\ g.claims.authTime # 0 /\ g.claims.authTime <= now + Leeway
        /\ f.authTime # 0 => g.claims.authTime = f.authTime
    <3>1. tokened.id.authTime = f.authTime
      BY <1>8
    <3>2. g.claims.authTime = IF f.authTime = 0 THEN now ELSE f.authTime
      BY <2>4, <3>1, Zenon
    <3>3. f.authTime <= now + Leeway /\ f.authTime \in Nat
      BY <1>9, FormTypes
    <3> QED
      BY <3>2, <3>3, Clock, Lifespans
  <2>7. g.claims.nonce = f.nonce
    BY <1>8, <2>4, Zenon
  <2>8. Fits(s, f)
    BY <1>7, <1>8, <1>9, <2>4, <2>5, <2>6, Zenon DEF Fits
  <2>9. AuthorizedWith(a, f, s)
    BY <1>5, <1>8, <1>9, <1>10, <1>11, <2>1, <2>4, <2>5, <2>6, <2>7, <2>8, Zenon
    DEF AuthorizedWith
  <2> QED
    BY <2>5, <2>9
<1>12. CASE "id_token" \notin f.types
  <2>1. Fits(tokened, f)
    BY <1>7, <1>8, <1>9, Zenon DEF Fits
  <2>2. AuthorizedWith(a, f, tokened)
    BY <1>5, <1>8, <1>9, <1>10, <1>12, <2>1, Zenon DEF AuthorizedWith
  <2> QED
    BY <1>8, <2>2
<1> QED
  BY <1>11, <1>12

\* A call k goes on to a step.
Moved(k, step) ==
    /\ calls[k] # None /\ calls[k] \in Call
    /\ calls' \in [Calls -> Call \union {None}]
    /\ calls'[k] # None /\ calls'[k] \in Call
    /\ calls'[k].req = calls[k].req /\ calls'[k].parent = calls[k].parent
    /\ calls'[k].nonce = calls[k].nonce /\ calls'[k].step = step
    /\ \A j \in Calls : j # k => calls'[j] = calls[j]

LEMMA CallTypes ==
    ASSUME TypeInv, NEW k \in Calls, calls[k] # None
    PROVE  /\ calls[k] \in Call /\ calls[k].req \in AuthReqs
           /\ calls[k].parent \in Calls \union {None} /\ calls[k].step \in Steps
           /\ calls[k].nonce \in {"", "other"} /\ calls[k].req \in Issuers
<1>1. calls[k] \in Call
  BY DEF TypeInv
<1> QED
  BY <1>1 DEF Call, Issuers

LEMMA GotoMoves ==
    ASSUME TypeInv, NEW k \in Calls, calls[k] # None, NEW step \in Steps, Goto(k, step)
    PROVE  Moved(k, step)
<1>1. calls[k] \in Call
  BY CallTypes
<1>2. PICK c : c = [calls[k] EXCEPT !.step = step]
  OBVIOUS
<1>3. /\ c \in Call /\ c.req = calls[k].req /\ c.parent = calls[k].parent
      /\ c.nonce = calls[k].nonce /\ c.step = step
  BY <1>1, <1>2 DEF Call
<1>4. calls \in [Calls -> Call \union {None}]
  BY DEF TypeInv
<1>5. calls' = [calls EXCEPT ![k] = c]
  BY <1>2 DEF Goto
<1>6. c # None
  BY <1>3, NothingAssumption
<1>7. calls' \in [Calls -> Call \union {None}] /\ calls'[k] = c
  BY <1>3, <1>4, <1>5
<1>8. \A j \in Calls : j # k => calls'[j] = calls[j]
  BY <1>4, <1>5
<1> QED
  BY <1>1, <1>3, <1>6, <1>7, <1>8, Zenon DEF Moved

LEMMA FailMoves ==
    ASSUME TypeInv, NEW k \in Calls, calls[k] # None,
           NEW err \in {"nil", "ErrServerError", "ErrInsufficientEntropy"}, Fail(k, err)
    PROVE  Moved(k, "failed") /\ calls'[k].err = err
<1>1. calls[k] \in Call
  BY CallTypes
<1>2. PICK c : c = [calls[k] EXCEPT !.step = "failed", !.err = err]
  OBVIOUS
<1>3. /\ c \in Call /\ c.req = calls[k].req /\ c.parent = calls[k].parent
      /\ c.nonce = calls[k].nonce /\ c.step = "failed" /\ c.err = err
  BY <1>1, <1>2 DEF Call, Steps
<1>4. calls \in [Calls -> Call \union {None}]
  BY DEF TypeInv
<1>5. calls' = [calls EXCEPT ![k] = c]
  <2>1. calls' = [calls EXCEPT ![k].step = "failed", ![k].err = err]
    BY DEF Fail
  <2> QED
    BY <1>2, <1>4, <2>1
<1>6. c # None
  BY <1>3, NothingAssumption
<1>7. calls' \in [Calls -> Call \union {None}] /\ calls'[k] = c
  BY <1>3, <1>4, <1>5
<1>8. \A j \in Calls : j # k => calls'[j] = calls[j]
  BY <1>4, <1>5
<1> QED
  BY <1>1, <1>3, <1>6, <1>7, <1>8, Zenon DEF Moved

\* The session of i becomes s.
Wrote(i, s) ==
    /\ s \in SessionType
    /\ sessions' \in [Issuers -> SessionType] /\ sessions'[i] = s
    /\ \A j \in Issuers : j # i => sessions'[j] = sessions[j]

LEMMA Writes ==
    ASSUME TypeInv, NEW i \in Issuers, NEW s \in SessionType,
           sessions' = [sessions EXCEPT ![i] = s]
    PROVE  Wrote(i, s)
  BY DEF TypeInv, Wrote

LEMMA SessionTypes ==
    ASSUME TypeInv, NEW i \in Issuers
    PROVE  /\ sessions[i] \in SessionType /\ sessions[i].id \in IDClaims
           /\ sessions[i].jwt \in JWTClaims /\ sessions[i].accessExp \in Nat
           /\ \A s : s = [sessions[i] EXCEPT !.id = sessions[i].id] => s = sessions[i]
<1>1. sessions[i] \in SessionType
  BY DEF TypeInv
<1> QED
  BY <1>1 DEF SessionType

\* A session with other claims, or another expiry.
LEMMA WithID ==
    ASSUME NEW s \in SessionType, NEW c \in IDClaims
    PROVE  \E r \in SessionType : /\ r = [s EXCEPT !.id = c]
                                  /\ r.id = c /\ r.jwt = s.jwt /\ r.accessExp = s.accessExp
<1>1. PICK r : r = [s EXCEPT !.id = c]
  OBVIOUS
<1>2. r \in SessionType /\ r.id = c /\ r.jwt = s.jwt /\ r.accessExp = s.accessExp
  BY <1>1 DEF SessionType
<1> QED
  BY <1>1, <1>2, Zenon

LEMMA WithJWT ==
    ASSUME NEW s \in SessionType, NEW c \in JWTClaims
    PROVE  \E r \in SessionType : /\ r = [s EXCEPT !.jwt = c]
                                  /\ r.id = s.id /\ r.jwt = c /\ r.accessExp = s.accessExp
<1>1. PICK r : r = [s EXCEPT !.jwt = c]
  OBVIOUS
<1>2. r \in SessionType /\ r.id = s.id /\ r.jwt = c /\ r.accessExp = s.accessExp
  BY <1>1 DEF SessionType
<1> QED
  BY <1>1, <1>2, Zenon

LEMMA WithAccessExp ==
    ASSUME NEW s \in SessionType, NEW e \in Nat
    PROVE  \E r \in SessionType : /\ r = [s EXCEPT !.accessExp = e]
                                  /\ r.id = s.id /\ r.jwt = s.jwt /\ r.accessExp = e
<1>1. PICK r : r = [s EXCEPT !.accessExp = e]
  OBVIOUS
<1>2. r \in SessionType /\ r.id = s.id /\ r.jwt = s.jwt /\ r.accessExp = e
  BY <1>1 DEF SessionType
<1> QED
  BY <1>1, <1>2, Zenon

\* The exchange that ends: the claims g that GenerateIDToken leaves.
IssuedWith(k, a, g, s) ==
    /\ calls[k] # None /\ calls[k].step = "bound" /\ calls[k].req = a /\ a \in AuthReqs
    /\ Leaves(forms[a], forms[a].nonce, sessions[a].id, g)
    /\ Wrote(a, s)
    /\ s.id = g.claims /\ s.jwt = sessions[a].jwt /\ s.accessExp = sessions[a].accessExp
    /\ IF g.err # "nil"
       THEN Moved(k, "failed") /\ calls'[k].err = g.err /\ idTokens' = idTokens
       ELSE Moved(k, "done") /\ idTokens' = Issued(idTokens, k, IDToken(g.claims, k))
    /\ now' = now /\ pair' = pair /\ forms' = forms /\ codes' = codes
    /\ oidcSessions' = oidcSessions /\ accessTokens' = accessTokens

LEMMA IssueDoes ==
    ASSUME TypeInv, CallsInv, NEW k \in Calls, Issue(k)
    PROVE  \E a, g, s : IssuedWith(k, a, g, s)
<1>1. PICK a : a = calls[k].req
  OBVIOUS
<1>2. PICK g : g = GenerateIDToken(forms[a], forms[a].nonce, sessions[a].id,
                                   IDTokenLifespan["authorization_code"])
  OBVIOUS
<1>3. /\ calls[k] # None /\ calls[k].step = "bound"
      /\ sessions' = [sessions EXCEPT ![a].id = g.claims]
      /\ IF g.err # "nil" THEN Fail(k, g.err) /\ idTokens' = idTokens
         ELSE idTokens' = Issued(idTokens, k, IDToken(g.claims, k)) /\ Goto(k, "done")
      /\ now' = now /\ pair' = pair /\ forms' = forms /\ codes' = codes
      /\ oidcSessions' = oidcSessions /\ accessTokens' = accessTokens
  BY <1>1, <1>2 DEF Issue, At
<1>4. a \in AuthReqs /\ a \in Issuers
  BY <1>1, <1>3, CallTypes
<1>5. forms[a] \in Forms
  BY <1>1, <1>3, <1>4 DEF CallsInv, TypeInv
<1>6. Leaves(forms[a], forms[a].nonce, sessions[a].id, g)
  <2>1. forms[a].nonce \in Texts
    BY <1>5, FormTypes
  <2>2. sessions[a].id \in IDClaims
    BY <1>4, SessionTypes
  <2>3. forms[a] \in Forms \union {None} /\ IDTokenLifespan["authorization_code"] \in Nat
    BY <1>5, Lifespans
  <2> QED
    BY <1>2, <2>1, <2>2, <2>3, Generates
<1>7. g.claims \in IDClaims
  BY <1>6, Zenon DEF Leaves
<1>8. PICK s \in SessionType : /\ s = [sessions[a] EXCEPT !.id = g.claims]
                              /\ s.id = g.claims /\ s.jwt = sessions[a].jwt
                              /\ s.accessExp = sessions[a].accessExp
  BY <1>4, <1>7, SessionTypes, WithID
<1>9. Wrote(a, s)
  <2>1. sessions' = [sessions EXCEPT ![a] = s]
    BY <1>3, <1>8
  <2> QED
    BY <1>4, <2>1, Writes
<1>10. IF g.err # "nil"
       THEN Moved(k, "failed") /\ calls'[k].err = g.err /\ idTokens' = idTokens
       ELSE Moved(k, "done") /\ idTokens' = Issued(idTokens, k, IDToken(g.claims, k))
  <2>1. CASE g.err # "nil"
    <3>1. g.err \in {"nil", "ErrServerError", "ErrInsufficientEntropy"}
      <4>1. g.err = "ErrServerError" \/ g.err = "ErrInsufficientEntropy"
        BY <1>6, <2>1, Zenon DEF Leaves
      <4> QED
        BY <4>1
    <3> QED
      BY <1>3, <2>1, <3>1, FailMoves
  <2>2. CASE g.err = "nil"
    <3>1. "done" \in Steps
      BY DEF Steps
    <3> QED
      BY <1>3, <2>2, <3>1, GotoMoves
  <2> QED
    BY <2>1, <2>2
<1>11. IssuedWith(k, a, g, s)
  BY <1>1, <1>3, <1>4, <1>6, <1>8, <1>9, <1>10, Zenon DEF IssuedWith
<1> QED
  BY <1>11

\* A refresh call, its clone s with the claims of the new tokens.
RefreshedWith(k, p, nonce, s) ==
    /\ k # p /\ calls[k] = None /\ calls[p] # None /\ calls[p].step = "done"
    /\ Wrote(k, s) /\ Fits(s, forms[calls[p].req])
    /\ s.id.jti = k /\ s.id.atHash = k /\ s.id.cHash = ""
    /\ s.id.authTime # 0
    /\ sessions[Session(p)].id.authTime # 0 =>
          s.id.authTime = sessions[Session(p)].id.authTime
    /\ s.id.nonce = IF nonce = "" THEN sessions[Session(p)].id.nonce ELSE nonce
    /\ s.id.iat = now /\ s.id.exp >= now
    /\ \E token : AccessTokenFits(token) /\ accessTokens' = Issued(accessTokens, k, token)
    /\ idTokens' = Issued(idTokens, k, IDToken(s.id, k))
    /\ calls' \in [Calls -> Call \union {None}] /\ calls'[k] # None /\ calls'[k] \in Call
    /\ calls'[k].req = calls[p].req /\ calls'[k].parent = p
    /\ calls'[k].nonce = nonce /\ calls'[k].step = "done"
    /\ \A j \in Calls : j # k => calls'[j] = calls[j]
    /\ now' = now /\ pair' = pair /\ forms' = forms /\ codes' = codes
    /\ oidcSessions' = oidcSessions

\* What a refresh call sends as nonce.
Nonces == {"", "other"}

LEMMA NoncesAre == \A nonce \in Nonces : nonce \in Texts /\ nonce # "short"
<1>1. Nonces \subseteq Texts
  BY TextsHave DEF Nonces
<1>2. \A nonce \in Nonces : nonce # "short"
  BY DEF Nonces
<1> QED
  BY <1>1, <1>2

\* The claims of a clone before its ID token is generated.
Reset(c, k, r) ==
    /\ r \in IDClaims /\ r.sub = c.sub /\ r.rat = c.rat /\ r.authTime = c.authTime
    /\ r.nonce = c.nonce /\ r.jti = k /\ r.atHash = k /\ r.cHash = "" /\ r.exp = 0

LEMMA ResetType ==
    ASSUME NEW c \in IDClaims, NEW k \in Calls
    PROVE  Reset(c, k, ResetClaims(c, k))
<1>1. k \in Hashes /\ "" \in Hashes
  BY DEF Hashes, Issuers
<1>2. PICK r : r = ResetClaims(c, k)
  OBVIOUS
<1>3. r \in IDClaims
  BY <1>1, <1>2 DEF ResetClaims, IDClaims
<1>4. /\ r.sub = c.sub /\ r.rat = c.rat /\ r.authTime = c.authTime
      /\ r.nonce = c.nonce /\ r.jti = k /\ r.atHash = k
  BY <1>2 DEF ResetClaims, IDClaims
<1>5. r.cHash = "" /\ r.exp = 0
  BY <1>2 DEF ResetClaims, IDClaims
<1> QED
  BY <1>2, <1>3, <1>4, <1>5, Zenon DEF Reset

LEMMA RefreshDoes ==
    ASSUME TypeInv, RequestsInv, CallsInv,
           NEW k \in Calls, NEW p \in Calls, NEW nonce \in Nonces,
           Refresh(k, p, nonce)
    PROVE  \E s : RefreshedWith(k, p, nonce, s)
<1>1. PICK clone : clone = [sessions[Session(p)] EXCEPT !.accessExp = now + AccessTokenLifespan]
  OBVIOUS
<1>2. PICK c : c = ResetClaims(clone.id, k)
  OBVIOUS
<1>3. PICK g : g = GenerateIDToken(None, nonce, c, IDTokenLifespan["refresh_token"])
  OBVIOUS
<1>4. /\ calls[k] = None /\ calls[p] # None /\ calls[p].step = "done"
      /\ accessTokens' = Issued(accessTokens, k, AccessToken(clone, k))
      /\ sessions' = [sessions EXCEPT
            ![k] = [clone EXCEPT !.id = g.claims, !.jwt = SignedClaims(clone)]]
      /\ calls' = [calls EXCEPT
            ![k] = [req |-> calls[p].req, parent |-> p, nonce |-> nonce,
                    step |-> IF g.err = "nil" THEN "done" ELSE "failed", err |-> g.err]]
      /\ idTokens' = IF g.err = "nil" THEN Issued(idTokens, k, IDToken(g.claims, k))
                     ELSE idTokens
      /\ now' = now /\ pair' = pair /\ forms' = forms /\ codes' = codes
      /\ oidcSessions' = oidcSessions
  <2>1. calls[k] = None /\ calls[p] # None /\ calls[p].step = "done"
    BY Zenon DEF Refresh, At
  <2>2. accessTokens' = Issued(accessTokens, k, AccessToken(clone, k))
    BY <1>1, Zenon DEF Refresh
  <2>3. sessions' = [sessions EXCEPT
            ![k] = [clone EXCEPT !.id = g.claims, !.jwt = SignedClaims(clone)]]
    BY <1>1, <1>2, <1>3, Zenon DEF Refresh
  <2>4. calls' = [calls EXCEPT
            ![k] = [req |-> calls[p].req, parent |-> p, nonce |-> nonce,
                    step |-> IF g.err = "nil" THEN "done" ELSE "failed", err |-> g.err]]
    BY <1>1, <1>2, <1>3 DEF Refresh
  <2>5. idTokens' = IF g.err = "nil" THEN Issued(idTokens, k, IDToken(g.claims, k))
                    ELSE idTokens
    BY <1>1, <1>2, <1>3 DEF Refresh
  <2>6. /\ now' = now /\ pair' = pair /\ forms' = forms /\ codes' = codes
        /\ oidcSessions' = oidcSessions
    BY Zenon DEF Refresh
  <2> QED
    BY <2>1, <2>2, <2>3, <2>4, <2>5, <2>6, Zenon
<1>5. PICK f : f = forms[calls[p].req]
  OBVIOUS
<1>6. /\ calls[p].req \in AuthReqs /\ f # None /\ Session(p) \in Issuers
      /\ Fits(sessions[Session(p)], f)
  <2>1. calls[p].req \in AuthReqs /\ calls[p].req \in Issuers /\ p \in Issuers
    BY <1>4, CallTypes DEF Issuers
  <2>2. f # None
    BY <1>4, <1>5 DEF CallsInv
  <2>3. CASE calls[p].parent = None
    BY <1>5, <2>1, <2>2, <2>3 DEF RequestsInv, Session
  <2>4. CASE calls[p].parent # None
    BY <1>4, <1>5, <2>1, <2>2, <2>4 DEF CallsInv, RefreshInv, Session
  <2> QED
    BY <2>3, <2>4
<1>7. /\ sessions[Session(p)] \in SessionType /\ sessions[Session(p)].id \in IDClaims
      /\ sessions[Session(p)].id.authTime \in Nat
  <2>1. sessions[Session(p)] \in SessionType /\ sessions[Session(p)].id \in IDClaims
    BY <1>6, SessionTypes
  <2> QED
    BY <2>1, IDTypes
<1>8. /\ clone \in SessionType /\ clone.accessExp # 0
      /\ clone.id = sessions[Session(p)].id /\ clone.jwt = sessions[Session(p)].jwt
  <2>1. PICK e : e = now + AccessTokenLifespan
    OBVIOUS
  <2>2. e \in Nat /\ e # 0
    BY <2>1, Clock, Lifespans
  <2>3. clone = [sessions[Session(p)] EXCEPT !.accessExp = e]
    BY <1>1, <2>1, Zenon
  <2>4. /\ clone \in SessionType /\ clone.accessExp = e
        /\ clone.id = sessions[Session(p)].id /\ clone.jwt = sessions[Session(p)].jwt
    BY <1>7, <2>2, <2>3 DEF SessionType
  <2> QED
    BY <2>2, <2>4
<1>9. clone.id \in IDClaims /\ clone.jwt.sub = Subject /\ clone.jwt.extra = ClientExtra
  BY <1>6, <1>7, <1>8, Zenon DEF Fits
<1>10. /\ c \in IDClaims /\ c.sub = clone.id.sub /\ c.rat = clone.id.rat
       /\ c.authTime = clone.id.authTime /\ c.nonce = clone.id.nonce
       /\ c.jti = k /\ c.atHash = k /\ c.cHash = "" /\ c.exp = 0
  <2>1. clone.id \in IDClaims
    BY <1>9
  <2>2. Reset(clone.id, k, c)
    BY <1>2, <2>1, ResetType
  <2> QED
    BY <2>2, Zenon DEF Reset
<1>11. Leaves(None, nonce, c, g)
  <2>1. None \in Forms \union {None} /\ IDTokenLifespan["refresh_token"] \in Nat
    BY Lifespans
  <2>2. nonce \in Texts
    BY NoncesAre
  <2> QED
    BY <1>3, <1>10, <2>1, <2>2, Generates
<1>12. g.err = "nil"
  <2>1. c.sub # ""
    BY <1>6, <1>8, <1>10, Zenon DEF Fits
  <2>2. nonce # "short"
    BY NoncesAre
  <2>3. g.err # "nil" => \/ c.sub = "" \/ c.exp # 0 \/ nonce = "short"
    BY <1>11, Zenon DEF Leaves
  <2> QED
    BY <1>10, <2>1, <2>2, <2>3, Zenon
<1>13. /\ g.claims \in IDClaims /\ g.claims.sub = c.sub /\ g.claims.rat = c.rat
       /\ g.claims.jti = c.jti /\ g.claims.atHash = c.atHash /\ g.claims.cHash = c.cHash
       /\ g.claims.authTime = IF c.authTime = 0 THEN now ELSE c.authTime
       /\ g.claims.nonce = IF nonce = "" THEN c.nonce ELSE nonce
       /\ g.claims.iat = now /\ g.claims.exp >= now
  BY <1>11, <1>12, Zenon DEF Leaves
<1>14. PICK j : j = SignedClaims(clone)
  OBVIOUS
<1>15. j \in JWTClaims /\ j.sub = Subject /\ j.extra = ClientExtra
  BY <1>8, <1>9, <1>14, SignedClaimsType
<1>16. PICK s : s = [clone EXCEPT !.id = g.claims, !.jwt = j]
  OBVIOUS
<1>17. s \in SessionType /\ s.id = g.claims /\ s.jwt = j
  <2>1. clone \in SessionType /\ g.claims \in IDClaims /\ j \in JWTClaims
    BY <1>8, <1>13, <1>15
  <2> QED
    BY <1>16, <2>1 DEF SessionType
<1>18. Wrote(k, s)
  <2>1. sessions' = [sessions EXCEPT ![k] = s]
    BY <1>4, <1>14, <1>16, Zenon
  <2>2. k \in Issuers
    BY DEF Issuers
  <2> QED
    BY <1>17, <2>1, <2>2, Writes
<1>19. /\ g.claims.authTime # 0 /\ g.claims.authTime <= now + Leeway
       /\ clone.id.authTime # 0 => g.claims.authTime = clone.id.authTime
       /\ f.authTime # 0 => g.claims.authTime = f.authTime
  <2>1. g.claims.authTime = IF clone.id.authTime = 0 THEN now ELSE clone.id.authTime
    BY <1>10, <1>13, Zenon
  <2>2. clone.id.authTime \in Nat
    BY <1>7, <1>8, Zenon
  <2>3. clone.id.authTime <= now + Leeway
    BY <1>6, <1>8, Zenon DEF Fits
  <2>4. f.authTime # 0 => clone.id.authTime = f.authTime
    BY <1>6, <1>8, Zenon DEF Fits
  <2> QED
    BY <2>1, <2>2, <2>3, <2>4, Clock, Lifespans
<1>20. Fits(s, f)
  <2>1. s.id.sub = Subject /\ Subject # "" /\ s.id.rat = f.rat
    BY <1>6, <1>8, <1>10, <1>13, <1>17, Zenon DEF Fits
  <2> QED
    BY <1>15, <1>17, <1>19, <2>1, Zenon DEF Fits
<1>21. \E token : AccessTokenFits(token) /\ accessTokens' = Issued(accessTokens, k, token)
  <2>1. AccessTokenFits(AccessToken(clone, k))
    BY <1>8, <1>9, NewAccessToken
  <2> QED
    BY <1>4, <2>1
<1>22. /\ calls' \in [Calls -> Call \union {None}] /\ calls'[k] # None /\ calls'[k] \in Call
       /\ calls'[k].req = calls[p].req /\ calls'[k].parent = p
       /\ calls'[k].nonce = nonce /\ calls'[k].step = "done"
       /\ \A i \in Calls : i # k => calls'[i] = calls[i]
  <2>1. PICK call : call = [req |-> calls[p].req, parent |-> p, nonce |-> nonce,
                            step |-> "done", err |-> "nil"]
    OBVIOUS
  <2>2. call \in Call
    BY <1>6, <2>1 DEF Call, Steps, Nonces
  <2>3. call # None
    BY <2>2, NothingAssumption
  <2>4. calls' = [calls EXCEPT ![k] = call]
    BY <1>4, <1>12, <2>1
  <2>5. calls \in [Calls -> Call \union {None}]
    BY DEF TypeInv
  <2>6. /\ calls' \in [Calls -> Call \union {None}] /\ calls'[k] = call
        /\ \A i \in Calls : i # k => calls'[i] = calls[i]
    BY <2>2, <2>4, <2>5
  <2>7. /\ call.req = calls[p].req /\ call.parent = p /\ call.nonce = nonce
        /\ call.step = "done"
    BY <2>1
  <2> QED
    BY <2>2, <2>3, <2>6, <2>7, Zenon
<1>23. s.id.nonce = IF nonce = "" THEN sessions[Session(p)].id.nonce ELSE nonce
  BY <1>8, <1>10, <1>13, <1>17, Zenon
<1>24. /\ k # p /\ s.id.jti = k /\ s.id.atHash = k /\ s.id.cHash = ""
       /\ idTokens' = Issued(idTokens, k, IDToken(s.id, k))
  BY <1>4, <1>10, <1>12, <1>13, <1>17, Zenon
<1>25. RefreshedWith(k, p, nonce, s)
  <2>1. /\ s.id.authTime # 0
        /\ sessions[Session(p)].id.authTime # 0 =>
              s.id.authTime = sessions[Session(p)].id.authTime
        /\ s.id.iat = now /\ s.id.exp >= now
    BY <1>8, <1>13, <1>17, <1>19, Zenon
  <2> QED
    BY <1>4, <1>5, <1>18, <1>20, <1>21, <1>22, <1>23, <1>24, <2>1, Zenon DEF RefreshedWith
<1> QED
  BY <1>25

\* A code is presented: the session gets the expiry of the access token.
PresentedWith(k, a, s) ==
    /\ calls[k] = None /\ codes[a] = "active"
    /\ Wrote(a, s) /\ s.id = sessions[a].id /\ s.jwt = sessions[a].jwt /\ s.accessExp # 0
    /\ calls' \in [Calls -> Call \union {None}] /\ calls'[k] # None /\ calls'[k] \in Call
    /\ calls'[k].req = a /\ calls'[k].parent = None /\ calls'[k].step = "presented"
    /\ calls'[k].nonce = ""
    /\ \A j \in Calls : j # k => calls'[j] = calls[j]
    /\ now' = now /\ pair' = pair /\ forms' = forms /\ codes' = codes
    /\ oidcSessions' = oidcSessions /\ accessTokens' = accessTokens /\ idTokens' = idTokens

LEMMA PresentDoes ==
    ASSUME TypeInv, NEW k \in Calls, NEW a \in AuthReqs, Present(k, a)
    PROVE  \E s : PresentedWith(k, a, s)
<1>1. /\ calls[k] = None /\ codes[a] = "active"
      /\ calls' = [calls EXCEPT ![k] =
            [req |-> a, parent |-> None, step |-> "presented", nonce |-> "", err |-> "nil"]]
      /\ sessions' = [sessions EXCEPT ![a].accessExp = now + AccessTokenLifespan]
      /\ now' = now /\ pair' = pair /\ forms' = forms /\ codes' = codes
      /\ oidcSessions' = oidcSessions /\ accessTokens' = accessTokens /\ idTokens' = idTokens
  BY DEF Present
<1>2. a \in Issuers
  BY DEF Issuers
<1>3. PICK e : e = now + AccessTokenLifespan
  OBVIOUS
<1>4. e \in Nat /\ e # 0
  BY <1>3, Clock, Lifespans
<1>5. PICK s \in SessionType : /\ s = [sessions[a] EXCEPT !.accessExp = e]
                              /\ s.id = sessions[a].id /\ s.jwt = sessions[a].jwt
                              /\ s.accessExp = e
  BY <1>2, <1>4, SessionTypes, WithAccessExp
<1>6. Wrote(a, s)
  <2>1. sessions' = [sessions EXCEPT ![a] = s]
    BY <1>1, <1>3, <1>5
  <2> QED
    BY <1>2, <2>1, Writes
<1>7. PICK call : call = [req |-> a, parent |-> None, step |-> "presented", nonce |-> "",
                          err |-> "nil"]
  OBVIOUS
<1>8. /\ call \in Call /\ call.req = a /\ call.parent = None /\ call.step = "presented"
      /\ call.nonce = ""
  BY <1>7 DEF Call, Steps
<1>9. call # None
  BY <1>8, NothingAssumption
<1>10. /\ calls' \in [Calls -> Call \union {None}] /\ calls'[k] = call
       /\ \A j \in Calls : j # k => calls'[j] = calls[j]
  <2>1. calls' = [calls EXCEPT ![k] = call]
    BY <1>1, <1>7
  <2>2. calls \in [Calls -> Call \union {None}]
    BY DEF TypeInv
  <2> QED
    BY <1>8, <2>1, <2>2
<1>11. PresentedWith(k, a, s)
  BY <1>1, <1>4, <1>5, <1>6, <1>8, <1>9, <1>10, Zenon DEF PresentedWith
<1> QED
  BY <1>11

\* An access token is made of the session, unless the code is gone.
GeneratedWith(k, a, s) ==
    /\ calls[k] # None /\ calls[k].step = "presented" /\ calls[k].req = a /\ a \in AuthReqs
    /\ \/ /\ Moved(k, "failed") /\ s = sessions[a] /\ Wrote(a, s)
          /\ accessTokens' = accessTokens
       \/ /\ Moved(k, "generated")
          /\ Wrote(a, s) /\ s.id = sessions[a].id /\ s.accessExp = sessions[a].accessExp
          /\ s.jwt.sub = Subject /\ s.jwt.extra = ClientExtra
          /\ \E token : AccessTokenFits(token) /\ accessTokens' = Issued(accessTokens, k, token)
    /\ now' = now /\ pair' = pair /\ forms' = forms /\ codes' = codes
    /\ oidcSessions' = oidcSessions /\ idTokens' = idTokens

LEMMA GeneratedDoes ==
    ASSUME TypeInv, RequestsInv, CallsInv, NEW k \in Calls, Generated(k)
    PROVE  \E a, s : GeneratedWith(k, a, s)
<1>1. PICK a : a = calls[k].req
  OBVIOUS
<1>2. /\ calls[k] # None /\ calls[k].step = "presented"
      /\ IF codes[a] # "active"
         THEN Fail(k, "ErrServerError") /\ sessions' = sessions /\ accessTokens' = accessTokens
         ELSE /\ accessTokens' = Issued(accessTokens, k, AccessToken(sessions[a], k))
              /\ sessions' = [sessions EXCEPT ![a].jwt = SignedClaims(sessions[a])]
              /\ Goto(k, "generated")
      /\ now' = now /\ pair' = pair /\ forms' = forms /\ codes' = codes
      /\ oidcSessions' = oidcSessions /\ idTokens' = idTokens
  BY <1>1 DEF Generated, At
<1>3. a \in AuthReqs /\ a \in Issuers
  BY <1>1, <1>2, CallTypes
<1>4. sessions[a] \in SessionType
  BY <1>3, SessionTypes
<1>5. CASE codes[a] # "active"
  <2>1. Moved(k, "failed")
    <3>1. "ErrServerError" \in {"nil", "ErrServerError", "ErrInsufficientEntropy"}
      OBVIOUS
    <3> QED
      BY <1>2, <1>5, <3>1, FailMoves
  <2>2. Wrote(a, sessions[a])
    BY <1>2, <1>3, <1>4, <1>5 DEF Wrote, TypeInv
  <2>3. GeneratedWith(k, a, sessions[a])
    BY <1>1, <1>2, <1>3, <1>5, <2>1, <2>2, Zenon DEF GeneratedWith
  <2> QED
    BY <2>3
<1>6. CASE codes[a] = "active"
  <2>1. Moved(k, "generated")
    <3>1. "generated" \in Steps
      BY DEF Steps
    <3> QED
      BY <1>2, <1>6, <3>1, GotoMoves
  <2>2. forms[a] # None /\ Fits(sessions[a], forms[a]) /\ sessions[a].accessExp # 0
    BY <1>1, <1>2, <1>3 DEF CallsInv, RequestsInv
  <2>3. sessions[a].jwt.sub = Subject /\ sessions[a].jwt.extra = ClientExtra
    BY <2>2, Zenon DEF Fits
  <2>4. PICK c : c = SignedClaims(sessions[a])
    OBVIOUS
  <2>5. c \in JWTClaims /\ c.sub = Subject /\ c.extra = ClientExtra
    BY <1>4, <2>3, <2>4, SignedClaimsType
  <2>6. PICK s \in SessionType : /\ s = [sessions[a] EXCEPT !.jwt = c]
                                /\ s.id = sessions[a].id /\ s.jwt = c
                                /\ s.accessExp = sessions[a].accessExp
    BY <1>4, <2>5, WithJWT
  <2>7. Wrote(a, s)
    <3>1. sessions' = [sessions EXCEPT ![a] = s]
      BY <1>2, <1>6, <2>4, <2>6
    <3> QED
      BY <1>3, <3>1, Writes
  <2>8. AccessTokenFits(AccessToken(sessions[a], k))
    BY <1>4, <2>2, <2>3, NewAccessToken
  <2>9. GeneratedWith(k, a, s)
    BY <1>1, <1>2, <1>3, <1>6, <2>1, <2>5, <2>6, <2>7, <2>8, Zenon DEF GeneratedWith
  <2> QED
    BY <2>9
<1> QED
  BY <1>5, <1>6

\* The OpenID Connect session is taken, and the session gets at_hash.
BoundWith(k, a, s) ==
    /\ calls[k] # None /\ calls[k].step = "found" /\ calls[k].req = a /\ a \in AuthReqs
    /\ Moved(k, "bound")
    /\ Wrote(a, s) /\ s.jwt = sessions[a].jwt /\ s.accessExp = sessions[a].accessExp
    /\ s.id = [sessions[a].id EXCEPT !.atHash = k]
    /\ s.id.atHash = k
    /\ oidcSessions' = [oidcSessions EXCEPT ![a] = "deleted"]
    /\ now' = now /\ pair' = pair /\ forms' = forms /\ codes' = codes
    /\ accessTokens' = accessTokens /\ idTokens' = idTokens

LEMMA BindDoes ==
    ASSUME TypeInv, NEW k \in Calls, Bind(k)
    PROVE  \E a, s : BoundWith(k, a, s)
<1>1. PICK a : a = calls[k].req
  OBVIOUS
<1>2. /\ calls[k] # None /\ calls[k].step = "found" /\ Goto(k, "bound")
      /\ sessions' = [sessions EXCEPT ![a].id.atHash = k]
      /\ oidcSessions' = [oidcSessions EXCEPT ![a] = "deleted"]
      /\ now' = now /\ pair' = pair /\ forms' = forms /\ codes' = codes
      /\ accessTokens' = accessTokens /\ idTokens' = idTokens
  BY <1>1 DEF Bind, At
<1>3. a \in AuthReqs /\ a \in Issuers
  BY <1>1, <1>2, CallTypes
<1>4. PICK c : c = [sessions[a].id EXCEPT !.atHash = k]
  OBVIOUS
<1>5. c \in IDClaims /\ c.atHash = k
  <2>1. sessions[a].id \in IDClaims
    BY <1>3, SessionTypes
  <2>2. k \in Hashes
    BY DEF Hashes, Issuers
  <2> QED
    BY <1>4, <2>1, <2>2 DEF IDClaims
<1>6. PICK s \in SessionType : /\ s = [sessions[a] EXCEPT !.id = c]
                              /\ s.id = c /\ s.jwt = sessions[a].jwt
                              /\ s.accessExp = sessions[a].accessExp
  BY <1>3, <1>5, SessionTypes, WithID
<1>7. Wrote(a, s)
  <2>1. sessions' = [sessions EXCEPT ![a] = s]
    BY <1>2, <1>4, <1>6
  <2> QED
    BY <1>3, <2>1, Writes
<1>8. Moved(k, "bound")
  <2>1. "bound" \in Steps
    BY DEF Steps
  <2> QED
    BY <1>2, <2>1, GotoMoves
<1>9. BoundWith(k, a, s)
  BY <1>1, <1>2, <1>3, <1>4, <1>5, <1>6, <1>7, <1>8, Zenon DEF BoundWith
<1> QED
  BY <1>9

\* The steps that write no claims.
MovedOn(k, before, after) ==
    /\ calls[k] # None /\ calls[k].step = before /\ Moved(k, after)
    /\ now' = now /\ pair' = pair /\ forms' = forms /\ sessions' = sessions
    /\ oidcSessions' = oidcSessions /\ accessTokens' = accessTokens /\ idTokens' = idTokens

LEMMA StoreDoes ==
    ASSUME TypeInv, NEW k \in Calls, Store(k)
    PROVE  MovedOn(k, "generated", "stored") /\ codes' = [codes EXCEPT ![calls[k].req] = "used"]
<1>1. calls[k] # None /\ Goto(k, "stored") /\ "stored" \in Steps
  BY DEF Store, At, Steps
<1>2. Moved(k, "stored")
  BY <1>1, GotoMoves
<1> QED
  BY <1>2 DEF Store, At, MovedOn

LEMMA LookupDoes ==
    ASSUME TypeInv, NEW k \in Calls, Lookup(k)
    PROVE  /\ MovedOn(k, "stored",
                 IF oidcSessions[calls[k].req] = "stored" THEN "found" ELSE "done")
           /\ codes' = codes
<1> DEFINE next == IF oidcSessions[calls[k].req] = "stored" THEN "found" ELSE "done"
<1>1. calls[k] # None /\ Goto(k, next) /\ next \in Steps
  BY DEF Lookup, At, Steps
<1> HIDE DEF next
<1>2. Moved(k, next)
  BY <1>1, GotoMoves
<1>3. MovedOn(k, "stored", next)
  BY <1>2 DEF Lookup, At, MovedOn
<1> QED
  BY <1>3 DEF next, Lookup

-----------------------------------------------------------------------------
(* What every step keeps.                                                  *)

\* Answered requests, the call a call is, a failure and the tokens stay.
Keeps ==
    /\ now \in Nat /\ now' \in Nat /\ now' >= now
    /\ \A a \in AuthReqs : forms[a] # None => forms'[a] = forms[a]
    /\ \A k \in Calls : calls[k] # None =>
          /\ calls'[k] # None /\ calls'[k].req = calls[k].req
          /\ calls'[k].parent = calls[k].parent /\ calls'[k].nonce = calls[k].nonce
          /\ calls[k].step = "failed" => calls'[k] = calls[k]
          /\ calls[k].step \in {"bound", "done", "failed"} =>
                calls'[k].step \in {"bound", "done", "failed"}
    /\ \A i \in DOMAIN accessTokens : i \in DOMAIN accessTokens' /\ accessTokens'[i] = accessTokens[i]
    /\ \A i \in DOMAIN idTokens : i \in DOMAIN idTokens' /\ idTokens'[i] = idTokens[i]

CallKept(k) ==
    /\ calls'[k] # None /\ calls'[k].req = calls[k].req
    /\ calls'[k].parent = calls[k].parent /\ calls'[k].nonce = calls[k].nonce
    /\ calls[k].step = "failed" => calls'[k] = calls[k]
    /\ calls[k].step \in {"bound", "done", "failed"} =>
          calls'[k].step \in {"bound", "done", "failed"}

LEMMA MovedKeeps ==
    ASSUME NEW k \in Calls, NEW step, Moved(k, step), calls[k].step # "failed",
           calls[k].step = "bound" => step \in {"done", "failed"}, calls[k].step # "done"
    PROVE  \A j \in Calls : calls[j] # None => CallKept(j)
<1>1. SUFFICES ASSUME NEW j \in Calls, calls[j] # None PROVE CallKept(j)
  OBVIOUS
<1>2. CASE j = k
  BY <1>2 DEF Moved, CallKept
<1>3. CASE j # k
  <2>1. calls'[j] = calls[j]
    BY <1>3 DEF Moved
  <2> QED
    BY <1>1, <2>1 DEF CallKept
<1> QED
  BY <1>2, <1>3

LEMMA IssuedKept ==
    ASSUME NEW tokens, NEW i, i \notin DOMAIN tokens, NEW token, NEW after,
           after = Issued(tokens, i, token)
    PROVE  \A j \in DOMAIN tokens : j \in DOMAIN after /\ after[j] = tokens[j]
  BY DEF Issued

LEMMA StepKeeps ==
    ASSUME TypeInv, RequestsInv, CallsInv, IdNext
    PROVE  Keeps
<1> DEFINE Clocks == now \in Nat /\ now' \in Nat /\ now' >= now
           Frms == \A a \in AuthReqs : forms[a] # None => forms'[a] = forms[a]
           Clls == \A k \in Calls : calls[k] # None => CallKept(k)
           Access == \A i \in DOMAIN accessTokens :
                        i \in DOMAIN accessTokens' /\ accessTokens'[i] = accessTokens[i]
           IDs == \A i \in DOMAIN idTokens : i \in DOMAIN idTokens' /\ idTokens'[i] = idTokens[i]
<1>1. now \in Nat
  BY Clock
<1>2. SUFFICES Clocks /\ Frms /\ Clls /\ Access /\ IDs
  BY Zenon DEF Keeps, CallKept
<1>3. now' = now => Clocks
  BY <1>1
<1>4. forms' = forms => Frms
  OBVIOUS
<1>5. calls' = calls => Clls
  BY DEF CallKept
<1>6. accessTokens' = accessTokens => Access
  OBVIOUS
<1>7. idTokens' = idTokens => IDs
  OBVIOUS
<1> HIDE DEF Clocks, Frms, Clls, Access, IDs
<1>8. ASSUME NEW a \in AuthReqs, NEW f \in Forms, Authorize(a, f)
      PROVE  Clocks /\ Frms /\ Clls /\ Access /\ IDs
  <2>1. PICK s \in SessionType : AuthorizedWith(a, f, s)
    BY <1>8, AuthorizeDoes
  <2>2. forms[a] = None /\ forms' = [forms EXCEPT ![a] = f] /\ now' = now /\ calls' = calls
    BY <2>1, Zenon DEF AuthorizedWith
  <2>3. Frms
    BY <2>2 DEF Frms, TypeInv
  <2>4. a \notin DOMAIN accessTokens /\ a \notin DOMAIN idTokens
    BY <2>2 DEF RequestsInv
  <2>5. Access
    <3>1. accessTokens' = accessTokens \/ \E token : accessTokens' = Issued(accessTokens, a, token)
      BY <2>1, Zenon DEF AuthorizedWith
    <3> QED
      BY <1>6, <2>4, <3>1, IssuedKept DEF Access
  <2>6. IDs
    <3>1. idTokens' = idTokens \/ idTokens' = Issued(idTokens, a, IDToken(s.id, a))
      BY <2>1, Zenon DEF AuthorizedWith
    <3> QED
      BY <1>7, <2>4, <3>1, IssuedKept DEF IDs
  <2> QED
    BY <1>3, <1>5, <2>2, <2>3, <2>5, <2>6
<1>9. ASSUME NEW k \in Calls, NEW a \in AuthReqs, Present(k, a)
      PROVE  Clocks /\ Frms /\ Clls /\ Access /\ IDs
  <2>1. PICK s : PresentedWith(k, a, s)
    BY <1>9, PresentDoes
  <2>2. Clls
    <3>1. \A j \in Calls : calls[j] # None => calls'[j] = calls[j]
      BY <2>1, Zenon DEF PresentedWith
    <3> QED
      BY <3>1 DEF Clls, CallKept
  <2> QED
    BY <1>3, <1>4, <1>6, <1>7, <2>1, <2>2, Zenon DEF PresentedWith
<1>10. ASSUME NEW k \in Calls, Generated(k)
       PROVE  Clocks /\ Frms /\ Clls /\ Access /\ IDs
  <2>1. PICK a, s : GeneratedWith(k, a, s)
    BY <1>10, GeneratedDoes
  <2>2. calls[k] # None /\ calls[k].step = "presented" /\ calls[k].req = a
    BY <2>1, Zenon DEF GeneratedWith
  <2>3. Clls
    <3>1. Moved(k, "failed") \/ Moved(k, "generated")
      BY <2>1, Zenon DEF GeneratedWith
    <3> QED
      BY <2>2, <3>1, MovedKeeps DEF Clls
  <2>4. k \notin DOMAIN accessTokens
    BY <2>2 DEF CallsInv, ExchangeInv, RefreshInv
  <2>5. Access
    <3>1. accessTokens' = accessTokens \/ \E token : accessTokens' = Issued(accessTokens, k, token)
      BY <2>1, Zenon DEF GeneratedWith
    <3> QED
      BY <1>6, <2>4, <3>1, IssuedKept DEF Access
  <2> QED
    BY <1>3, <1>4, <1>7, <2>1, <2>3, <2>5, Zenon DEF GeneratedWith
<1>11. ASSUME NEW k \in Calls, Store(k)
       PROVE  Clocks /\ Frms /\ Clls /\ Access /\ IDs
  <2>1. MovedOn(k, "generated", "stored")
    BY <1>11, StoreDoes
  <2>2. Clls
    BY <2>1, MovedKeeps DEF MovedOn, Clls
  <2> QED
    BY <1>3, <1>4, <1>6, <1>7, <2>1, <2>2, Zenon DEF MovedOn
<1>12. ASSUME NEW k \in Calls, Lookup(k)
       PROVE  Clocks /\ Frms /\ Clls /\ Access /\ IDs
  <2>1. PICK next : MovedOn(k, "stored", next)
    BY <1>12, LookupDoes
  <2>2. Clls
    BY <2>1, MovedKeeps DEF MovedOn, Clls
  <2> QED
    BY <1>3, <1>4, <1>6, <1>7, <2>1, <2>2, Zenon DEF MovedOn
<1>13. ASSUME NEW k \in Calls, Bind(k)
       PROVE  Clocks /\ Frms /\ Clls /\ Access /\ IDs
  <2>1. PICK a, s : BoundWith(k, a, s)
    BY <1>13, BindDoes
  <2>2. Moved(k, "bound") /\ calls[k].step = "found"
    BY <2>1, Zenon DEF BoundWith
  <2>3. Clls
    BY <2>2, MovedKeeps DEF Clls
  <2> QED
    BY <1>3, <1>4, <1>6, <1>7, <2>1, <2>3, Zenon DEF BoundWith
<1>14. ASSUME NEW k \in Calls, Issue(k)
       PROVE  Clocks /\ Frms /\ Clls /\ Access /\ IDs
  <2>1. PICK a, g, s : IssuedWith(k, a, g, s)
    BY <1>14, IssueDoes
  <2>2. calls[k] # None /\ calls[k].step = "bound"
    BY <2>1, Zenon DEF IssuedWith
  <2>3. Clls
    <3>1. Moved(k, "failed") \/ Moved(k, "done")
      BY <2>1, Zenon DEF IssuedWith
    <3> QED
      BY <2>2, <3>1, MovedKeeps DEF Clls
  <2>4. k \notin DOMAIN idTokens
    BY <2>2 DEF CallsInv, ExchangeInv, RefreshInv
  <2>5. IDs
    <3>1. idTokens' = idTokens \/ idTokens' = Issued(idTokens, k, IDToken(g.claims, k))
      BY <2>1, Zenon DEF IssuedWith
    <3> QED
      BY <1>7, <2>4, <3>1, IssuedKept DEF IDs
  <2> QED
    BY <1>3, <1>4, <1>6, <2>1, <2>3, <2>5, Zenon DEF IssuedWith
<1>15. ASSUME NEW k \in Calls, NEW p \in Calls, NEW nonce \in Nonces, Refresh(k, p, nonce)
       PROVE  Clocks /\ Frms /\ Clls /\ Access /\ IDs
  <2>1. PICK s : RefreshedWith(k, p, nonce, s)
    BY <1>15, RefreshDoes
  <2>2. calls[k] = None
    BY <2>1, Zenon DEF RefreshedWith
  <2>3. k \notin DOMAIN accessTokens /\ k \notin DOMAIN idTokens
    BY <2>2 DEF CallsInv
  <2>4. Clls
    <3>1. \A j \in Calls : calls[j] # None => calls'[j] = calls[j]
      BY <2>1, <2>2, Zenon DEF RefreshedWith
    <3> QED
      BY <3>1 DEF Clls, CallKept
  <2>5. Access
    <3>1. PICK token : accessTokens' = Issued(accessTokens, k, token)
      BY <2>1, Zenon DEF RefreshedWith
    <3> QED
      BY <2>3, <3>1, IssuedKept DEF Access
  <2>6. IDs
    <3>1. idTokens' = Issued(idTokens, k, IDToken(s.id, k))
      BY <2>1, Zenon DEF RefreshedWith
    <3> QED
      BY <2>3, <3>1, IssuedKept DEF IDs
  <2> QED
    BY <1>3, <1>4, <2>1, <2>4, <2>5, <2>6, Zenon DEF RefreshedWith
<1>16. ASSUME Tick PROVE Clocks /\ Frms /\ Clls /\ Access /\ IDs
  <2>1. Clocks
    BY <1>1, <1>16 DEF Tick, Clocks
  <2> QED
    BY <1>4, <1>5, <1>6, <1>7, <1>16, <2>1, Zenon DEF Tick
<1>17. ASSUME RotateKey PROVE Clocks /\ Frms /\ Clls /\ Access /\ IDs
  BY <1>3, <1>4, <1>5, <1>6, <1>7, <1>17, Zenon DEF RotateKey
<1> QED
  BY <1>8, <1>9, <1>10, <1>11, <1>12, <1>13, <1>14, <1>15, <1>16, <1>17, Zenon
  DEF IdNext, Nonces

LEMMA ExchangingKept ==
    ASSUME Keeps, NEW k \in Calls, NEW a
    PROVE  /\ Exchanging(k, a) => Exchanging(k, a)'
           /\ Exchanging(k, a) /\ Lost(k) => Lost(k)'
  BY DEF Keeps, Exchanging, Lost

LEMMA ContendedKept ==
    ASSUME Keeps, NEW a, Contended(a)
    PROVE  Contended(a)'
  BY DEF Keeps, Contended

\* Two calls that exchange one code contend for it.
LEMMA TwoContend ==
    ASSUME NEW a, NEW j \in Calls, NEW k \in Calls, j # k, Exchanging(j, a), Exchanging(k, a)
    PROVE  Contended(a)
<1>1. \A l \in {j, k} : /\ calls[l] # None /\ calls[l].req = a /\ calls[l].parent = None
                        /\ l \in DOMAIN accessTokens
  BY DEF Exchanging
<1> QED
  BY <1>1 DEF Contended

\* A response: of an authorize request, or of a call that is done.
LEMMA ResponseIs ==
    ASSUME TypeInv, RequestsInv, CallsInv, NEW i \in Responses
    PROVE  /\ Request(i) \in AuthReqs /\ forms[Request(i)] # None
           /\ i \in AuthReqs => Request(i) = i
           /\ i \notin AuthReqs => /\ i \in Calls /\ calls[i] # None /\ calls[i].step = "done"
                                   /\ i \in DOMAIN accessTokens /\ Request(i) = calls[i].req
<1>1. i \in AuthReqs \/ i \in Calls
  BY DEF TypeInv, Responses, Issuers
<1>2. CASE i \in AuthReqs
  <2>1. forms[i] # None
    BY <1>2 DEF RequestsInv, Responses
  <2> QED
    BY <1>2, <2>1 DEF Request
<1>3. CASE i \notin AuthReqs
  <2>1. calls[i] # None /\ forms[calls[i].req] # None
    BY <1>1, <1>3 DEF CallsInv, Responses
  <2>2. calls[i].step = "done" /\ i \in DOMAIN accessTokens
    BY <1>1, <1>3, <2>1 DEF CallsInv, ExchangeInv, RefreshInv, Responses
  <2>3. calls[i].req \in AuthReqs
    BY <1>1, <1>3, <2>1, CallTypes
  <2> QED
    BY <1>1, <1>3, <2>1, <2>2, <2>3 DEF Request
<1> QED
  BY <1>2, <1>3

\* An earlier response stays what it is.
LEMMA ResponseKept ==
    ASSUME TypeInv, RequestsInv, CallsInv, Keeps, NEW i \in Responses
    PROVE  /\ i \in Responses' /\ idTokens'[i] = idTokens[i]
           /\ Request(i)' = Request(i)
           /\ forms'[Request(i)] = forms[Request(i)] /\ forms'[Request(i)'] = forms[Request(i)]
<1>1. i \in Responses' /\ idTokens'[i] = idTokens[i]
  BY DEF Keeps, Responses
<1>2. Request(i)' = Request(i)
  <2>1. CASE i \in AuthReqs
    BY <2>1 DEF Request
  <2>2. CASE i \notin AuthReqs
    <3>1. i \in Calls /\ calls[i] # None
      BY <2>2, ResponseIs
    <3>2. calls'[i].req = calls[i].req
      BY <3>1 DEF Keeps
    <3> QED
      BY <2>2, <3>2 DEF Request
  <2> QED
    BY <2>1, <2>2
<1>3. Request(i) \in AuthReqs /\ forms[Request(i)] # None
  BY ResponseIs
<1>4. forms'[Request(i)] = forms[Request(i)]
  BY <1>3 DEF Keeps
<1> QED
  BY <1>1, <1>2, <1>4, Zenon

\* Every step keeps the types.
LEMMA StepTypes ==
    ASSUME TypeInv, RequestsInv, CallsInv, IdNext
    PROVE  TypeInv'
<1> DEFINE Rest == /\ forms' \in [AuthReqs -> Forms \union {None}]
                   /\ sessions' \in [Issuers -> SessionType]
                   /\ codes' \in [AuthReqs -> {None, "active", "used"}]
                   /\ oidcSessions' \in [AuthReqs -> {None, "stored", "deleted"}]
                   /\ calls' \in [Calls -> Call \union {None}]
                   /\ DOMAIN accessTokens' \subseteq Issuers
                   /\ DOMAIN idTokens' \subseteq Issuers
           Timed == now' \in 1..MaxTime
           Paired == \E n \in 1..Len(KeyPairs) : pair' = KeyPairs[n]
<1>1. SUFFICES Timed /\ Paired /\ Rest
  BY Zenon DEF TypeInv
<1>2. /\ now' = now => Timed
      /\ pair' = pair => Paired
  BY DEF TypeInv
<1>3. /\ forms \in [AuthReqs -> Forms \union {None}]
      /\ sessions \in [Issuers -> SessionType]
      /\ codes \in [AuthReqs -> {None, "active", "used"}]
      /\ oidcSessions \in [AuthReqs -> {None, "stored", "deleted"}]
      /\ calls \in [Calls -> Call \union {None}]
      /\ DOMAIN accessTokens \subseteq Issuers /\ DOMAIN idTokens \subseteq Issuers
  BY Zenon DEF TypeInv
<1>4. \A i \in Issuers :
         /\ (\E t : accessTokens' = Issued(accessTokens, i, t)) => DOMAIN accessTokens' \subseteq Issuers
         /\ (\E t : idTokens' = Issued(idTokens, i, t)) => DOMAIN idTokens' \subseteq Issuers
  BY <1>3 DEF Issued
<1>5. AuthReqs \subseteq Issuers /\ Calls \subseteq Issuers
  BY DEF Issuers
<1> HIDE DEF Timed, Paired
<1>6. ASSUME NEW a \in AuthReqs, NEW f \in Forms, Authorize(a, f) PROVE Timed /\ Paired /\ Rest
  <2>1. PICK s \in SessionType : AuthorizedWith(a, f, s)
    BY <1>6, AuthorizeDoes
  <2>2. /\ forms' \in [AuthReqs -> Forms \union {None}]
        /\ sessions' \in [Issuers -> SessionType]
        /\ calls' \in [Calls -> Call \union {None}]
    <3>1. /\ forms' = [forms EXCEPT ![a] = f] /\ sessions' = [sessions EXCEPT ![a] = s]
          /\ calls' = calls
      BY <2>1, Zenon DEF AuthorizedWith
    <3> QED
      BY <1>3, <1>5, <3>1
  <2>3. /\ codes' \in [AuthReqs -> {None, "active", "used"}]
        /\ oidcSessions' \in [AuthReqs -> {None, "stored", "deleted"}]
    <3>1. \/ codes' = codes /\ oidcSessions' = oidcSessions
          \/ /\ codes' = [codes EXCEPT ![a] = "active"]
             /\ oidcSessions' = [oidcSessions EXCEPT ![a] = "stored"]
      BY <2>1, Zenon DEF AuthorizedWith
    <3> QED
      BY <1>3, <3>1
  <2>4. DOMAIN accessTokens' \subseteq Issuers /\ DOMAIN idTokens' \subseteq Issuers
    <3>1. accessTokens' = accessTokens \/ \E token : accessTokens' = Issued(accessTokens, a, token)
      BY <2>1, Zenon DEF AuthorizedWith
    <3>2. idTokens' = idTokens \/ \E token : idTokens' = Issued(idTokens, a, token)
      BY <2>1, Zenon DEF AuthorizedWith
    <3> QED
      BY <1>3, <1>4, <1>5, <3>1, <3>2
  <2> QED
    BY <1>2, <2>1, <2>2, <2>3, <2>4, Zenon DEF AuthorizedWith
<1>7. ASSUME NEW k \in Calls, NEW a \in AuthReqs, Present(k, a) PROVE Timed /\ Paired /\ Rest
  <2>1. PICK s : PresentedWith(k, a, s)
    BY <1>7, PresentDoes
  <2> QED
    BY <1>2, <1>3, <2>1, Zenon DEF PresentedWith, Wrote
<1>8. ASSUME NEW k \in Calls, Generated(k) PROVE Timed /\ Paired /\ Rest
  <2>1. PICK a, s : GeneratedWith(k, a, s)
    BY <1>8, GeneratedDoes
  <2>2. DOMAIN accessTokens' \subseteq Issuers
    <3>1. accessTokens' = accessTokens \/ \E token : accessTokens' = Issued(accessTokens, k, token)
      BY <2>1, Zenon DEF GeneratedWith
    <3> QED
      BY <1>3, <1>4, <1>5, <3>1
  <2> QED
    BY <1>2, <1>3, <2>1, <2>2, Zenon DEF GeneratedWith, Wrote, Moved
<1>9. ASSUME NEW k \in Calls, Store(k) PROVE Timed /\ Paired /\ Rest
  <2>1. MovedOn(k, "generated", "stored") /\ codes' = [codes EXCEPT ![calls[k].req] = "used"]
    BY <1>9, StoreDoes
  <2>2. codes' \in [AuthReqs -> {None, "active", "used"}]
    BY <1>3, <2>1
  <2> QED
    BY <1>2, <1>3, <2>1, <2>2, Zenon DEF MovedOn, Moved
<1>10. ASSUME NEW k \in Calls, Lookup(k) PROVE Timed /\ Paired /\ Rest
  <2>1. codes' = codes /\ \E next : MovedOn(k, "stored", next)
    BY <1>10, LookupDoes
  <2> QED
    BY <1>2, <1>3, <2>1, Zenon DEF MovedOn, Moved
<1>11. ASSUME NEW k \in Calls, Bind(k) PROVE Timed /\ Paired /\ Rest
  <2>1. PICK a, s : BoundWith(k, a, s)
    BY <1>11, BindDoes
  <2>2. oidcSessions' \in [AuthReqs -> {None, "stored", "deleted"}]
    <3>1. oidcSessions' = [oidcSessions EXCEPT ![a] = "deleted"]
      BY <2>1, Zenon DEF BoundWith
    <3> QED
      BY <1>3, <3>1
  <2> QED
    BY <1>2, <1>3, <2>1, <2>2, Zenon DEF BoundWith, Wrote, Moved
<1>12. ASSUME NEW k \in Calls, Issue(k) PROVE Timed /\ Paired /\ Rest
  <2>1. PICK a, g, s : IssuedWith(k, a, g, s)
    BY <1>12, IssueDoes
  <2>2. DOMAIN idTokens' \subseteq Issuers
    <3>1. idTokens' = idTokens \/ \E token : idTokens' = Issued(idTokens, k, token)
      BY <2>1, Zenon DEF IssuedWith
    <3> QED
      BY <1>3, <1>4, <1>5, <3>1
  <2> QED
    BY <1>2, <1>3, <2>1, <2>2, Zenon DEF IssuedWith, Wrote, Moved
<1>13. ASSUME NEW k \in Calls, NEW p \in Calls, NEW nonce \in Nonces, Refresh(k, p, nonce)
       PROVE  Timed /\ Paired /\ Rest
  <2>1. PICK s : RefreshedWith(k, p, nonce, s)
    BY <1>13, RefreshDoes
  <2>2. DOMAIN accessTokens' \subseteq Issuers /\ DOMAIN idTokens' \subseteq Issuers
    <3>1. /\ \E token : accessTokens' = Issued(accessTokens, k, token)
          /\ \E token : idTokens' = Issued(idTokens, k, token)
      BY <2>1, Zenon DEF RefreshedWith
    <3> QED
      BY <1>4, <1>5, <3>1
  <2> QED
    BY <1>2, <1>3, <2>1, <2>2, Zenon DEF RefreshedWith, Wrote
<1>14. ASSUME Tick PROVE Timed /\ Paired /\ Rest
  <2>1. Timed
    <3>1. MaxTime \in Nat
      BY IdTokensAssumption
    <3> QED
      BY <1>14, <3>1, Clock DEF Tick, Timed
  <2> QED
    BY <1>2, <1>3, <1>14, <2>1, Zenon DEF Tick
<1>15. ASSUME RotateKey PROVE Timed /\ Paired /\ Rest
  <2>1. Paired
    <3>1. Len(KeyPairs) \in Nat
      <4>1. KeyPairs \in Seq(Range(KeyPairs))
        BY IdTokensAssumption, Zenon
      <4> QED
        BY <4>1
    <3>2. PICK n \in 1..(Len(KeyPairs) - 1) : pair' = KeyPairs[n + 1]
      BY <1>15 DEF RotateKey
    <3>3. n + 1 \in 1..Len(KeyPairs)
      BY <3>1
    <3> QED
      BY <3>2, <3>3 DEF Paired
  <2> QED
    BY <1>2, <1>3, <1>15, <2>1, Zenon DEF RotateKey
<1> HIDE DEF Rest
<1> QED
  BY <1>6, <1>7, <1>8, <1>9, <1>10, <1>11, <1>12, <1>13, <1>14, <1>15, Zenon
  DEF IdNext, Nonces

\* What becomes of an answered authorize request in a step.
Follows(b) ==
    /\ sessions'[b].id.sub = sessions[b].id.sub /\ sessions'[b].id.rat = sessions[b].id.rat
    /\ sessions'[b].id.jti = sessions[b].id.jti
    /\ sessions[b].id.authTime # 0 => sessions'[b].id.authTime = sessions[b].id.authTime
    /\ sessions'[b].id.authTime <= now' + Leeway
    /\ forms[b].authTime # 0 => sessions'[b].id.authTime = forms[b].authTime
    /\ sessions'[b].id.nonce \in {"", forms[b].nonce}
    /\ sessions[b].id.nonce = forms[b].nonce => sessions'[b].id.nonce = forms[b].nonce
    /\ sessions'[b].jwt.sub = Subject /\ sessions'[b].jwt.extra = ClientExtra
    /\ sessions[b].accessExp # 0 => sessions'[b].accessExp # 0

LEMMA SameFollows ==
    ASSUME TypeInv, RequestsInv, Keeps, NEW b \in AuthReqs, forms[b] # None,
           \/ sessions'[b] = sessions[b]
           \/ /\ sessions'[b].id = sessions[b].id /\ sessions'[b].jwt = sessions[b].jwt
              /\ sessions'[b].accessExp # 0
           \/ /\ sessions'[b].id = sessions[b].id /\ sessions'[b].accessExp = sessions[b].accessExp
              /\ sessions'[b].jwt.sub = Subject /\ sessions'[b].jwt.extra = ClientExtra
           \/ /\ \E k : sessions'[b].id = [sessions[b].id EXCEPT !.atHash = k]
              /\ sessions'[b].accessExp = sessions[b].accessExp
              /\ sessions'[b].jwt = sessions[b].jwt
    PROVE  Follows(b)
<1>1. /\ Fits(sessions[b], forms[b]) /\ sessions[b].id.nonce \in {"", forms[b].nonce}
  BY DEF RequestsInv
<1>2. sessions[b].id \in IDClaims
  BY SessionTypes DEF Issuers
<1>3. /\ sessions'[b].id.sub = sessions[b].id.sub /\ sessions'[b].id.rat = sessions[b].id.rat
      /\ sessions'[b].id.jti = sessions[b].id.jti
      /\ sessions'[b].id.authTime = sessions[b].id.authTime
      /\ sessions'[b].id.nonce = sessions[b].id.nonce
  <2>1. CASE sessions'[b].id = sessions[b].id
    BY <2>1, Zenon
  <2>2. CASE \E k : sessions'[b].id = [sessions[b].id EXCEPT !.atHash = k]
    BY <1>2, <2>2 DEF IDClaims
  <2> QED
    BY <2>1, <2>2, Zenon
<1>4. sessions[b].id.authTime <= now' + Leeway
  <2>1. sessions[b].id.authTime <= now + Leeway /\ sessions[b].id.authTime \in Nat
    BY <1>1, <1>2, IDTypes DEF Fits
  <2>2. now \in Nat /\ now' \in Nat /\ now' >= now
    BY DEF Keeps
  <2> QED
    BY <2>1, <2>2, Lifespans
<1>5. /\ sessions'[b].jwt.sub = Subject /\ sessions'[b].jwt.extra = ClientExtra
      /\ sessions[b].accessExp # 0 => sessions'[b].accessExp # 0
  BY <1>1, Zenon DEF Fits
<1>6. forms[b].authTime # 0 => sessions[b].id.authTime = forms[b].authTime
  BY <1>1, Zenon DEF Fits
<1> QED
  BY <1>1, <1>3, <1>4, <1>5, <1>6, Zenon DEF Follows

\* Nothing becomes of an authorize request that is not answered.
Waits(b) ==
    /\ forms'[b] = None /\ codes'[b] = codes[b]
    /\ b \in DOMAIN accessTokens' => b \in DOMAIN accessTokens
    /\ b \in DOMAIN idTokens' => b \in DOMAIN idTokens

LEMMA IssuedAdds ==
    ASSUME NEW tokens, NEW i, NEW token, NEW after, after = Issued(tokens, i, token), NEW b,
           b \in DOMAIN after, b # i
    PROVE  b \in DOMAIN tokens
  BY DEF Issued

\* In every step, an answered request follows, and another one waits or is answered.
LEMMA StepFollows ==
    ASSUME TypeInv, RequestsInv, CallsInv, IdNext, NEW b \in AuthReqs
    PROVE  /\ forms[b] # None => /\ Follows(b) /\ forms'[b] = forms[b]
                                 /\ codes'[b] # None => codes[b] # None
                                 /\ oidcSessions[b] # None => oidcSessions'[b] # None
           /\ forms[b] = None =>
                 Waits(b) \/ \E f \in Forms : \E s \in SessionType : AuthorizedWith(b, f, s)
<1> DEFINE Goal ==
        /\ forms[b] # None => /\ Follows(b) /\ forms'[b] = forms[b]
                              /\ codes'[b] # None => codes[b] # None
                              /\ oidcSessions[b] # None => oidcSessions'[b] # None
        /\ forms[b] = None =>
              Waits(b) \/ \E f \in Forms : \E s \in SessionType : AuthorizedWith(b, f, s)
<1>1. Keeps
  BY StepKeeps
<1>2. /\ b \in Issuers /\ b \notin Calls
      /\ sessions \in [Issuers -> SessionType]
      /\ forms \in [AuthReqs -> Forms \union {None}]
  BY IdTokensAssumption, Zenon DEF Issuers, TypeInv
<1>3. /\ codes \in [AuthReqs -> {None, "active", "used"}]
      /\ oidcSessions \in [AuthReqs -> {None, "stored", "deleted"}]
  BY Zenon DEF TypeInv
<1>4. forms[b] # None /\ sessions'[b] = sessions[b] => Follows(b)
  BY <1>1, SameFollows
<1>5. \A k \in Calls : calls[k] # None => calls[k].req \in AuthReqs /\ forms[calls[k].req] # None
                                          /\ codes[calls[k].req] # None
  BY CallTypes DEF CallsInv
<1>6. \A k \in Calls : k \in Issuers /\ k # b
  BY <1>2 DEF Issuers
<1>7. ASSUME NEW a \in AuthReqs, NEW f \in Forms, Authorize(a, f) PROVE Goal
  <2>1. PICK s \in SessionType : AuthorizedWith(a, f, s)
    BY <1>7, AuthorizeDoes
  <2>2. CASE b = a
    BY <2>1, <2>2, Zenon DEF AuthorizedWith
  <2>3. CASE b # a
    <3>1. sessions'[b] = sessions[b] /\ forms'[b] = forms[b]
      <4>1. forms' = [forms EXCEPT ![a] = f] /\ sessions' = [sessions EXCEPT ![a] = s]
        BY <2>1, Zenon DEF AuthorizedWith
      <4> QED
        BY <1>2, <2>3, <4>1
    <3>2. codes'[b] = codes[b] /\ oidcSessions'[b] = oidcSessions[b]
      <4>1. \/ codes' = codes /\ oidcSessions' = oidcSessions
            \/ /\ codes' = [codes EXCEPT ![a] = "active"]
               /\ oidcSessions' = [oidcSessions EXCEPT ![a] = "stored"]
        BY <2>1, Zenon DEF AuthorizedWith
      <4> QED
        BY <1>3, <2>3, <4>1
    <3>3. b \in DOMAIN accessTokens' => b \in DOMAIN accessTokens
      <4>1. accessTokens' = accessTokens \/ \E t : accessTokens' = Issued(accessTokens, a, t)
        BY <2>1, Zenon DEF AuthorizedWith
      <4> QED
        BY <2>3, <4>1, IssuedAdds
    <3>4. b \in DOMAIN idTokens' => b \in DOMAIN idTokens
      <4>1. idTokens' = idTokens \/ \E t : idTokens' = Issued(idTokens, a, t)
        BY <2>1, Zenon DEF AuthorizedWith
      <4> QED
        BY <2>3, <4>1, IssuedAdds
    <3> QED
      BY <1>4, <3>1, <3>2, <3>3, <3>4, Zenon DEF Waits
  <2> QED
    BY <2>2, <2>3
<1>8. ASSUME NEW k \in Calls, NEW a \in AuthReqs, Present(k, a) PROVE Goal
  <2>1. PICK s : PresentedWith(k, a, s)
    BY <1>8, PresentDoes
  <2>2. forms[b] # None => Follows(b)
    <3>1. CASE b = a
      <4>1. /\ sessions'[b].id = sessions[b].id /\ sessions'[b].jwt = sessions[b].jwt
            /\ sessions'[b].accessExp # 0
        BY <2>1, <3>1, Zenon DEF PresentedWith, Wrote
      <4> QED
        BY <1>1, <4>1, SameFollows
    <3>2. CASE b # a
      BY <1>2, <1>4, <2>1, <3>2, Zenon DEF PresentedWith, Wrote
    <3> QED
      BY <3>1, <3>2
  <2> QED
    BY <2>1, <2>2, Zenon DEF PresentedWith, Waits
<1>9. ASSUME NEW k \in Calls, Generated(k) PROVE Goal
  <2>1. PICK a, s : GeneratedWith(k, a, s)
    BY <1>9, GeneratedDoes
  <2>2. forms[b] # None => Follows(b)
    <3>1. CASE b = a
      <4>1. \/ sessions'[b] = sessions[b]
            \/ /\ sessions'[b].id = sessions[b].id
               /\ sessions'[b].accessExp = sessions[b].accessExp
               /\ sessions'[b].jwt.sub = Subject /\ sessions'[b].jwt.extra = ClientExtra
        BY <2>1, <3>1, Zenon DEF GeneratedWith, Wrote
      <4> QED
        BY <1>1, <4>1, SameFollows
    <3>2. CASE b # a
      BY <1>2, <1>4, <2>1, <3>2, Zenon DEF GeneratedWith, Wrote
    <3> QED
      BY <3>1, <3>2
  <2>3. b \in DOMAIN accessTokens' => b \in DOMAIN accessTokens
    <3>1. accessTokens' = accessTokens \/ \E t : accessTokens' = Issued(accessTokens, k, t)
      BY <2>1, Zenon DEF GeneratedWith
    <3> QED
      BY <1>6, <3>1, IssuedAdds
  <2> QED
    BY <2>1, <2>2, <2>3, Zenon DEF GeneratedWith, Waits
<1>10. ASSUME NEW k \in Calls, Store(k) PROVE Goal
  <2>1. MovedOn(k, "generated", "stored") /\ codes' = [codes EXCEPT ![calls[k].req] = "used"]
    BY <1>10, StoreDoes
  <2>2. calls[k] # None
    BY <2>1 DEF MovedOn
  <2>3. codes'[b] = codes[b] \/ (codes[b] # None /\ forms[b] # None)
    <3>1. CASE b = calls[k].req
      BY <1>5, <2>2, <3>1
    <3>2. CASE b # calls[k].req
      BY <1>3, <2>1, <3>2
    <3> QED
      BY <3>1, <3>2
  <2> QED
    BY <1>4, <2>1, <2>3, Zenon DEF MovedOn, Waits
<1>11. ASSUME NEW k \in Calls, Lookup(k) PROVE Goal
  <2>1. codes' = codes /\ \E next : MovedOn(k, "stored", next)
    BY <1>11, LookupDoes
  <2> QED
    BY <1>4, <2>1, Zenon DEF MovedOn, Waits
<1>12. ASSUME NEW k \in Calls, Bind(k) PROVE Goal
  <2>1. PICK a, s : BoundWith(k, a, s)
    BY <1>12, BindDoes
  <2>2. forms[b] # None => Follows(b)
    <3>1. CASE b = a
      <4>1. /\ \E j : sessions'[b].id = [sessions[b].id EXCEPT !.atHash = j]
            /\ sessions'[b].accessExp = sessions[b].accessExp
            /\ sessions'[b].jwt = sessions[b].jwt
        BY <2>1, <3>1, Zenon DEF BoundWith, Wrote
      <4> QED
        BY <1>1, <4>1, SameFollows
    <3>2. CASE b # a
      BY <1>2, <1>4, <2>1, <3>2, Zenon DEF BoundWith, Wrote
    <3> QED
      BY <3>1, <3>2
  <2>3. oidcSessions[b] # None => oidcSessions'[b] # None
    <3>1. oidcSessions' = [oidcSessions EXCEPT ![a] = "deleted"]
      BY <2>1, Zenon DEF BoundWith
    <3>2. None # "deleted"
      BY NothingAssumption
    <3> QED
      BY <1>3, <3>1, <3>2
  <2> QED
    BY <2>1, <2>2, <2>3, Zenon DEF BoundWith, Waits
<1>13. ASSUME NEW k \in Calls, Issue(k) PROVE Goal
  <2>1. PICK a, g, s : IssuedWith(k, a, g, s)
    BY <1>13, IssueDoes
  <2>2. forms[b] # None => Follows(b)
    <3>1. CASE b = a /\ forms[b] # None
      <4>1. Leaves(forms[b], forms[b].nonce, sessions[b].id, g)
        BY <2>1, <3>1, Zenon DEF IssuedWith
      <4>2. /\ sessions'[b].id = g.claims /\ sessions'[b].jwt = sessions[b].jwt
            /\ sessions'[b].accessExp = sessions[b].accessExp
        BY <2>1, <3>1, Zenon DEF IssuedWith, Wrote
      <4>3. Fits(sessions[b], forms[b]) /\ sessions[b].id.nonce \in {"", forms[b].nonce}
        BY <3>1 DEF RequestsInv
      <4>4. /\ g.claims.sub = sessions[b].id.sub /\ g.claims.rat = sessions[b].id.rat
            /\ g.claims.jti = sessions[b].id.jti
        BY <4>1, Zenon DEF Leaves
      <4>5. \/ g.claims.authTime = sessions[b].id.authTime
            \/ g.claims.authTime = IF sessions[b].id.authTime = 0 THEN now
                                   ELSE sessions[b].id.authTime
        BY <4>1, Zenon DEF Leaves
      <4>6. /\ sessions[b].id.authTime # 0 => g.claims.authTime = sessions[b].id.authTime
            /\ g.claims.authTime <= now' + Leeway
            /\ forms[b].authTime # 0 => g.claims.authTime = forms[b].authTime
        <5>1. sessions[b].id.authTime <= now + Leeway
          BY <4>3, Zenon DEF Fits
        <5>2. forms[b].authTime # 0 => sessions[b].id.authTime = forms[b].authTime
          BY <4>3, Zenon DEF Fits
        <5>3. sessions[b].id.authTime \in Nat
          BY <1>2, SessionTypes, IDTypes
        <5>4. now' = now /\ now \in Nat
          BY <2>1, Clock DEF IssuedWith
        <5> QED
          BY <4>5, <5>1, <5>2, <5>3, <5>4, Lifespans
      <4>7. /\ g.claims.nonce \in {"", forms[b].nonce}
            /\ sessions[b].id.nonce = forms[b].nonce => g.claims.nonce = forms[b].nonce
        <5>1. \/ g.claims.nonce = sessions[b].id.nonce \/ g.claims.nonce = forms[b].nonce
          BY <4>1, Zenon DEF Leaves
        <5> QED
          BY <4>3, <5>1, Zenon
      <4> QED
        BY <4>2, <4>3, <4>4, <4>6, <4>7, Zenon DEF Follows, Fits
    <3>2. CASE b # a
      BY <1>2, <1>4, <2>1, <3>2, Zenon DEF IssuedWith, Wrote
    <3> QED
      BY <3>1, <3>2
  <2>3. b \in DOMAIN idTokens' => b \in DOMAIN idTokens
    <3>1. idTokens' = idTokens \/ \E t : idTokens' = Issued(idTokens, k, t)
      BY <2>1, Zenon DEF IssuedWith
    <3> QED
      BY <1>6, <3>1, IssuedAdds
  <2> QED
    BY <2>1, <2>2, <2>3, Zenon DEF IssuedWith, Waits
<1>14. ASSUME NEW k \in Calls, NEW p \in Calls, NEW nonce \in Nonces, Refresh(k, p, nonce)
       PROVE  Goal
  <2>1. PICK s : RefreshedWith(k, p, nonce, s)
    BY <1>14, RefreshDoes
  <2>2. sessions'[b] = sessions[b]
    BY <1>2, <1>6, <2>1, Zenon DEF RefreshedWith, Wrote
  <2>3. /\ b \in DOMAIN accessTokens' => b \in DOMAIN accessTokens
        /\ b \in DOMAIN idTokens' => b \in DOMAIN idTokens
    <3>1. /\ \E t : accessTokens' = Issued(accessTokens, k, t)
          /\ \E t : idTokens' = Issued(idTokens, k, t)
      BY <2>1, Zenon DEF RefreshedWith
    <3> QED
      BY <1>6, <3>1, IssuedAdds
  <2> QED
    BY <1>4, <2>1, <2>2, <2>3, Zenon DEF RefreshedWith, Waits
<1>15. ASSUME Tick PROVE Goal
  BY <1>4, <1>15, Zenon DEF Tick, Waits
<1>16. ASSUME RotateKey PROVE Goal
  BY <1>4, <1>16, Zenon DEF RotateKey, Waits
<1> HIDE DEF Goal
<1>17. Goal
  BY <1>7, <1>8, <1>9, <1>10, <1>11, <1>12, <1>13, <1>14, <1>15, <1>16, Zenon
  DEF IdNext, Nonces
<1> QED
  BY <1>17, Zenon DEF Goal

\* The requests.
LEMMA StepRequests ==
    ASSUME TypeInv, RequestsInv, CallsInv, IdNext
    PROVE  RequestsInv'
<1> DEFINE Good(b) ==
        IF forms'[b] = None
        THEN codes'[b] = None /\ b \notin DOMAIN accessTokens' /\ b \notin DOMAIN idTokens'
        ELSE /\ Accepted(forms'[b]) /\ Fits(sessions[b], forms[b])'
             /\ sessions'[b].id.jti = "" /\ sessions'[b].id.nonce \in {"", forms'[b].nonce}
             /\ codes'[b] # None => oidcSessions'[b] # None /\ "code" \in forms'[b].types
<1>1. SUFFICES ASSUME NEW b \in AuthReqs PROVE Good(b)
  BY Zenon DEF RequestsInv
<1>2. TypeInv'
  BY StepTypes
<1>3. CASE forms[b] # None
  <2>1. /\ Follows(b) /\ forms'[b] = forms[b]
        /\ codes'[b] # None => codes[b] # None
        /\ oidcSessions[b] # None => oidcSessions'[b] # None
    BY <1>3, StepFollows
  <2>2. /\ Accepted(forms[b]) /\ Fits(sessions[b], forms[b]) /\ sessions[b].id.jti = ""
        /\ codes[b] # None => oidcSessions[b] # None /\ "code" \in forms[b].types
    BY <1>3, Zenon DEF RequestsInv
  <2>3. Fits(sessions[b], forms[b])'
    BY <2>1, <2>2, Zenon DEF Fits, Follows
  <2> QED
    BY <1>3, <2>1, <2>2, <2>3, Zenon DEF Follows
<1>4. CASE forms[b] = None /\ Waits(b)
  <2>1. codes[b] = None /\ b \notin DOMAIN accessTokens /\ b \notin DOMAIN idTokens
    BY <1>4 DEF RequestsInv
  <2> QED
    BY <1>4, <2>1, Zenon DEF Waits
<1>5. ASSUME forms[b] = None, NEW f \in Forms, NEW s \in SessionType, AuthorizedWith(b, f, s)
      PROVE  Good(b)
  <2>1. /\ forms' = [forms EXCEPT ![b] = f] /\ sessions' = [sessions EXCEPT ![b] = s]
        /\ now' = now /\ Accepted(f) /\ Fits(s, f) /\ s.id.jti = ""
    BY <1>5, Zenon DEF AuthorizedWith
  <2>2. forms'[b] = f /\ sessions'[b] = s /\ f # None
    BY <2>1, NothingAssumption DEF TypeInv, Issuers
  <2>3. Fits(sessions[b], forms[b])'
    BY <2>1, <2>2, Zenon DEF Fits
  <2>4. s.id.nonce \in {"", f.nonce}
    <3>1. s.id.nonce = f.nonce \/ s.id.nonce = ""
      BY <1>5, Zenon DEF AuthorizedWith
    <3> QED
      BY <3>1, Zenon
  <2>5. codes'[b] # None => oidcSessions'[b] # None /\ "code" \in f.types
    <3>1. CASE "code" \in f.types
      <4>1. oidcSessions' = [oidcSessions EXCEPT ![b] = "stored"]
        BY <1>5, <3>1, Zenon DEF AuthorizedWith
      <4>2. oidcSessions'[b] = "stored" /\ None # "stored"
        BY <4>1, NothingAssumption DEF TypeInv
      <4> QED
        BY <3>1, <4>2
    <3>2. CASE "code" \notin f.types
      <4>1. codes' = codes
        BY <1>5, <3>2, Zenon DEF AuthorizedWith
      <4>2. codes[b] = None
        BY <1>5 DEF RequestsInv
      <4> QED
        BY <4>1, <4>2
    <3> QED
      BY <3>1, <3>2
  <2> QED
    BY <2>1, <2>2, <2>3, <2>4, <2>5, Zenon
<1> HIDE DEF Good
<1> QED
  BY <1>3, <1>4, <1>5, StepFollows

\* A code that is used up stays so, and the session of a refresh call stays as it is.
LEMMA StepStays ==
    ASSUME TypeInv, RequestsInv, CallsInv, IdNext
    PROVE  /\ \A b \in AuthReqs : /\ codes[b] # None => codes'[b] # None
                                  /\ codes[b] = "used" => codes'[b] = "used"
           /\ \A j \in Calls : calls[j] # None => sessions'[j] = sessions[j]
<1> DEFINE Codes == \A b \in AuthReqs : /\ codes[b] # None => codes'[b] # None
                                        /\ codes[b] = "used" => codes'[b] = "used"
           Clones == \A j \in Calls : calls[j] # None => sessions'[j] = sessions[j]
<1>1. codes' = codes => Codes
  OBVIOUS
<1>2. sessions' = sessions => Clones
  OBVIOUS
<1>3. \A a \in AuthReqs : \A s : Wrote(a, s) => Clones
  <2>1. \A j \in Calls : j \in Issuers /\ j \notin AuthReqs
    BY IdTokensAssumption, Zenon DEF Issuers
  <2> QED
    BY <2>1, Zenon DEF Wrote
<1>4. \A j \in Calls : calls[j] # None => calls[j].req \in AuthReqs
  BY CallTypes
<1>5. codes \in [AuthReqs -> {None, "active", "used"}] /\ None \notin {"active", "used"}
  BY NothingAssumption DEF TypeInv
<1> HIDE DEF Clones
<1>6. ASSUME NEW a \in AuthReqs, NEW f \in Forms, Authorize(a, f) PROVE Codes /\ Clones
  <2>1. PICK s \in SessionType : AuthorizedWith(a, f, s)
    BY <1>6, AuthorizeDoes
  <2>2. forms[a] = None /\ sessions' = [sessions EXCEPT ![a] = s]
    BY <2>1, Zenon DEF AuthorizedWith
  <2>3. Codes
    <3>1. codes[a] = None
      BY <2>2 DEF RequestsInv
    <3>2. codes' = codes \/ codes' = [codes EXCEPT ![a] = "active"]
      BY <2>1, Zenon DEF AuthorizedWith
    <3>3. CASE codes' = codes
      BY <1>1, <3>3
    <3>4. CASE codes' = [codes EXCEPT ![a] = "active"]
      BY <1>5, <3>1, <3>4
    <3> QED
      BY <3>2, <3>3, <3>4
  <2>4. Wrote(a, s)
    BY <2>2, Writes DEF Issuers
  <2> QED
    BY <1>3, <2>3, <2>4
<1>7. ASSUME NEW k \in Calls, NEW a \in AuthReqs, Present(k, a) PROVE Codes /\ Clones
  <2>1. PICK s : PresentedWith(k, a, s)
    BY <1>7, PresentDoes
  <2> HIDE DEF Codes
  <2> QED
    BY <1>1, <1>3, <2>1, Zenon DEF PresentedWith
<1>8. ASSUME NEW k \in Calls, Generated(k) PROVE Codes /\ Clones
  <2>1. PICK a, s : GeneratedWith(k, a, s)
    BY <1>8, GeneratedDoes
  <2> HIDE DEF Codes
  <2> QED
    BY <1>1, <1>3, <2>1, Zenon DEF GeneratedWith
<1>9. ASSUME NEW k \in Calls, Store(k) PROVE Codes /\ Clones
  <2>1. MovedOn(k, "generated", "stored") /\ codes' = [codes EXCEPT ![calls[k].req] = "used"]
    BY <1>9, StoreDoes
  <2>2. Codes
    BY <1>5, <2>1
  <2> QED
    BY <1>2, <2>1, <2>2, Zenon DEF MovedOn
<1>10. ASSUME NEW k \in Calls, Lookup(k) PROVE Codes /\ Clones
  <2>1. codes' = codes /\ \E next : MovedOn(k, "stored", next)
    BY <1>10, LookupDoes
  <2> HIDE DEF Codes
  <2> QED
    BY <1>1, <1>2, <2>1, Zenon DEF MovedOn
<1>11. ASSUME NEW k \in Calls, Bind(k) PROVE Codes /\ Clones
  <2>1. PICK a, s : BoundWith(k, a, s)
    BY <1>11, BindDoes
  <2> HIDE DEF Codes
  <2> QED
    BY <1>1, <1>3, <2>1, Zenon DEF BoundWith
<1>12. ASSUME NEW k \in Calls, Issue(k) PROVE Codes /\ Clones
  <2>1. PICK a, g, s : IssuedWith(k, a, g, s)
    BY <1>12, IssueDoes
  <2> HIDE DEF Codes
  <2> QED
    BY <1>1, <1>3, <2>1, Zenon DEF IssuedWith
<1>13. ASSUME NEW k \in Calls, NEW p \in Calls, NEW nonce \in Nonces, Refresh(k, p, nonce)
       PROVE  Codes /\ Clones
  <2>1. PICK s : RefreshedWith(k, p, nonce, s)
    BY <1>13, RefreshDoes
  <2>2. codes' = codes /\ calls[k] = None /\ Wrote(k, s)
    BY <2>1, Zenon DEF RefreshedWith
  <2>3. Clones
    BY <2>2, Zenon DEF Wrote, Clones, Issuers
  <2> HIDE DEF Codes
  <2> QED
    BY <1>1, <2>2, <2>3
<1>14. ASSUME Tick PROVE Codes /\ Clones
  BY <1>1, <1>2, <1>14 DEF Tick
<1>15. ASSUME RotateKey PROVE Codes /\ Clones
  BY <1>1, <1>2, <1>15 DEF RotateKey
<1> HIDE DEF Codes
<1>16. Codes /\ Clones
  BY <1>6, <1>7, <1>8, <1>9, <1>10, <1>11, <1>12, <1>13, <1>14, <1>15, Zenon DEF IdNext, Nonces
<1> QED
  BY <1>16 DEF Codes, Clones

\* The conditions on a call after a step.
CallGood(j) ==
    IF calls'[j] = None
    THEN j \notin DOMAIN accessTokens' /\ j \notin DOMAIN idTokens'
    ELSE /\ forms'[calls'[j].req] # None /\ codes'[calls'[j].req] # None
         /\ sessions'[calls'[j].req].accessExp # 0
         /\ IF calls'[j].parent = None THEN ExchangeInv(j)' ELSE RefreshInv(j)'

\* A call that does nothing in a step.
LEMMA CallStays ==
    ASSUME TypeInv, RequestsInv, CallsInv, IdNext, NEW j \in Calls, calls'[j] = calls[j],
           j \in DOMAIN accessTokens' => j \in DOMAIN accessTokens,
           j \in DOMAIN idTokens' => j \in DOMAIN idTokens
    PROVE  CallGood(j)
<1>1. CASE calls[j] = None
  <2>1. j \notin DOMAIN accessTokens /\ j \notin DOMAIN idTokens
    BY <1>1 DEF CallsInv
  <2> QED
    BY <1>1, <2>1, Zenon DEF CallGood
<1>2. CASE calls[j] # None
  <2>1. Keeps /\ sessions'[j] = sessions[j]
    BY <1>2, StepKeeps, StepStays
  <2>2. PICK r \in AuthReqs : r = calls[j].req
    BY <1>2, CallTypes
  <2>3. forms[r] # None /\ codes[r] # None /\ sessions[r].accessExp # 0
    BY <1>2, <2>2 DEF CallsInv
  <2>4. /\ forms'[r] = forms[r] /\ codes'[r] # None /\ sessions'[r].accessExp # 0
        /\ codes[r] = "used" => codes'[r] = "used"
    BY <2>3, StepFollows, StepStays DEF Follows
  <2>5. CASE calls[j].parent = None
    <3>1. ExchangeInv(j)
      BY <1>2, <2>5 DEF CallsInv
    <3>2. j \in DOMAIN accessTokens => j \in DOMAIN accessTokens'
      BY <2>1 DEF Keeps
    <3>3. ExchangeInv(j)'
      BY <2>2, <2>4, <3>1, <3>2, Zenon DEF ExchangeInv
    <3> QED
      BY <1>2, <2>2, <2>3, <2>4, <2>5, <3>3, Zenon DEF CallGood
  <2>6. CASE calls[j].parent # None
    <3>1. RefreshInv(j)
      BY <1>2, <2>6 DEF CallsInv
    <3>2. j \in DOMAIN accessTokens' /\ j \in DOMAIN idTokens'
      BY <2>1, <3>1 DEF Keeps, RefreshInv
    <3>3. Fits(sessions[j], forms[r])
      BY <2>2, <3>1, Zenon DEF RefreshInv
    <3>4. sessions[j].id.authTime <= now' + Leeway
      <4>1. sessions[j].id.authTime <= now + Leeway
        BY <3>3, Zenon DEF Fits
      <4>2. sessions[j].id.authTime \in Nat
        BY SessionTypes, IDTypes DEF Issuers
      <4>3. now \in Nat /\ now' \in Nat /\ now' >= now
        BY <2>1 DEF Keeps
      <4> QED
        BY <4>1, <4>2, <4>3, Lifespans
    <3>5. Fits(sessions[j], forms[calls[j].req])'
      BY <2>1, <2>2, <2>4, <3>3, <3>4, Zenon DEF Fits
    <3>6. RefreshInv(j)'
      BY <2>2, <2>4, <3>1, <3>2, <3>5, Zenon DEF RefreshInv
    <3> QED
      BY <1>2, <2>2, <2>3, <2>4, <2>6, <3>6, Zenon DEF CallGood
  <2> QED
    BY <2>5, <2>6
<1> QED
  BY <1>1, <1>2

\* An exchange that moves on.
LEMMA CallMoves ==
    ASSUME TypeInv, RequestsInv, CallsInv, IdNext, NEW j \in Calls, NEW step, Moved(j, step),
           calls[j].parent = None, step # "presented",
           step \in {"generated", "stored", "found", "bound", "done"} =>
              j \in DOMAIN accessTokens',
           step \in {"stored", "found", "bound", "done"} =>
              codes[calls[j].req] = "used" \/ codes'[calls[j].req] = "used",
           j \in DOMAIN idTokens' => step = "done"
    PROVE  CallGood(j)
<1>1. /\ calls[j] # None /\ calls'[j] # None /\ calls'[j].req = calls[j].req
      /\ calls'[j].parent = calls[j].parent /\ calls'[j].step = step
  BY Zenon DEF Moved
<1>2. PICK r \in AuthReqs : r = calls[j].req
  BY <1>1, CallTypes
<1>3. forms[r] # None /\ codes[r] # None /\ sessions[r].accessExp # 0
  BY <1>1, <1>2 DEF CallsInv
<1>4. /\ forms'[r] = forms[r] /\ codes'[r] # None /\ sessions'[r].accessExp # 0
      /\ codes[r] = "used" => codes'[r] = "used"
  BY <1>3, StepFollows, StepStays DEF Follows
<1>5. ExchangeInv(j)'
  BY <1>1, <1>2, <1>4, Zenon DEF ExchangeInv
<1> QED
  BY <1>1, <1>2, <1>3, <1>4, <1>5, Zenon DEF CallGood

\* The calls.
LEMMA StepCalls ==
    ASSUME TypeInv, RequestsInv, CallsInv, IdNext
    PROVE  CallsInv'
<1>1. SUFFICES ASSUME NEW j \in Calls PROVE CallGood(j)
  BY Zenon DEF CallsInv, CallGood
<1>2. ASSUME calls'[j] = calls[j], NEW k, k # j,
             accessTokens' = accessTokens \/ \E t : accessTokens' = Issued(accessTokens, k, t),
             idTokens' = idTokens \/ \E t : idTokens' = Issued(idTokens, k, t)
      PROVE  CallGood(j)
  <2>1. j \in DOMAIN accessTokens' => j \in DOMAIN accessTokens
    BY <1>2, IssuedAdds
  <2>2. j \in DOMAIN idTokens' => j \in DOMAIN idTokens
    BY <1>2, IssuedAdds
  <2> QED
    BY <1>2, <2>1, <2>2, CallStays
<1>3. calls' = calls /\ accessTokens' = accessTokens /\ idTokens' = idTokens => CallGood(j)
  BY CallStays
<1>4. \A k \in Calls : calls[k] # None =>
         /\ calls[k].req \in AuthReqs
         /\ calls[k].step = "presented" =>
               calls[k].parent = None /\ k \notin DOMAIN accessTokens /\ k \notin DOMAIN idTokens
         /\ calls[k].step \in {"generated", "stored", "found", "bound"} =>
               calls[k].parent = None /\ k \in DOMAIN accessTokens /\ k \notin DOMAIN idTokens
         /\ calls[k].step \in {"stored", "found", "bound"} => codes[calls[k].req] = "used"
  BY CallTypes DEF CallsInv, ExchangeInv, RefreshInv
<1>5. ASSUME NEW a \in AuthReqs, NEW f \in Forms, Authorize(a, f) PROVE CallGood(j)
  <2>1. PICK s \in SessionType : AuthorizedWith(a, f, s)
    BY <1>5, AuthorizeDoes
  <2>2. a # j
    BY IdTokensAssumption, Zenon
  <2>3. calls' = calls
    BY <2>1, Zenon DEF AuthorizedWith
  <2>4. accessTokens' = accessTokens \/ \E t : accessTokens' = Issued(accessTokens, a, t)
    BY <2>1, Zenon DEF AuthorizedWith
  <2>5. idTokens' = idTokens \/ \E t : idTokens' = Issued(idTokens, a, t)
    BY <2>1, Zenon DEF AuthorizedWith
  <2> QED
    BY <1>2, <2>2, <2>3, <2>4, <2>5
<1>6. ASSUME NEW k \in Calls, NEW a \in AuthReqs, Present(k, a) PROVE CallGood(j)
  <2>1. PICK s : PresentedWith(k, a, s)
    BY <1>6, PresentDoes
  <2>2. /\ calls[k] = None /\ codes[a] = "active" /\ codes' = codes /\ forms' = forms
        /\ accessTokens' = accessTokens /\ idTokens' = idTokens
        /\ \A i \in Calls : i # k => calls'[i] = calls[i]
        /\ calls'[k] # None /\ calls'[k].req = a /\ calls'[k].parent = None
        /\ calls'[k].step = "presented" /\ sessions'[a].accessExp # 0
    BY <2>1, Zenon DEF PresentedWith, Wrote
  <2>3. CASE j # k
    BY <1>2, <2>2, <2>3
  <2>4. CASE j = k
    <3>1. k \notin DOMAIN accessTokens /\ k \notin DOMAIN idTokens
      BY <2>2 DEF CallsInv
    <3>2. forms[a] # None /\ codes[a] # None
      <4>1. codes[a] # None
        BY <2>2, NothingAssumption
      <4> QED
        BY <4>1 DEF RequestsInv
    <3>3. ExchangeInv(k)'
      BY <2>2, <3>1 DEF ExchangeInv
    <3> QED
      BY <2>2, <2>4, <3>2, <3>3, Zenon DEF CallGood
  <2> QED
    BY <2>3, <2>4
<1>7. ASSUME NEW k \in Calls, Generated(k) PROVE CallGood(j)
  <2>1. PICK a, s : GeneratedWith(k, a, s)
    BY <1>7, GeneratedDoes
  <2>2. /\ calls[k] # None /\ calls[k].step = "presented" /\ idTokens' = idTokens
        /\ \/ Moved(k, "failed") /\ accessTokens' = accessTokens
           \/ Moved(k, "generated") /\ \E t : accessTokens' = Issued(accessTokens, k, t)
    BY <2>1, Zenon DEF GeneratedWith
  <2>3. CASE j # k
    <3>1. calls'[j] = calls[j]
      BY <2>2, <2>3, Zenon DEF Moved
    <3> QED
      BY <1>2, <2>2, <2>3, <3>1
  <2>4. CASE j = k /\ Moved(k, "failed")
    BY <1>4, <2>2, <2>4, CallMoves
  <2>5. CASE j = k /\ Moved(k, "generated") /\ \E t : accessTokens' = Issued(accessTokens, k, t)
    <3>1. k \in DOMAIN accessTokens'
      BY <2>5 DEF Issued
    <3> QED
      BY <1>4, <2>2, <2>5, <3>1, CallMoves
  <2> QED
    BY <2>2, <2>3, <2>4, <2>5
<1>8. ASSUME NEW k \in Calls, Store(k) PROVE CallGood(j)
  <2>1. MovedOn(k, "generated", "stored") /\ codes' = [codes EXCEPT ![calls[k].req] = "used"]
    BY <1>8, StoreDoes
  <2>2. /\ calls[k] # None /\ calls[k].step = "generated" /\ Moved(k, "stored")
        /\ accessTokens' = accessTokens /\ idTokens' = idTokens
    BY <2>1, Zenon DEF MovedOn
  <2>3. CASE j # k
    BY <1>2, <2>2, <2>3, Zenon DEF Moved
  <2>4. CASE j = k
    <3>1. codes'[calls[k].req] = "used"
      BY <1>4, <2>1, <2>2 DEF TypeInv
    <3> QED
      BY <1>4, <2>2, <2>4, <3>1, CallMoves
  <2> QED
    BY <2>3, <2>4
<1>9. ASSUME NEW k \in Calls, Lookup(k) PROVE CallGood(j)
  <2>1. PICK next \in {"found", "done"} : MovedOn(k, "stored", next)
    BY <1>9, LookupDoes
  <2>2. /\ calls[k] # None /\ calls[k].step = "stored" /\ Moved(k, next)
        /\ accessTokens' = accessTokens /\ idTokens' = idTokens
    BY <2>1, Zenon DEF MovedOn
  <2>3. CASE j # k
    BY <1>2, <2>2, <2>3, Zenon DEF Moved
  <2>4. CASE j = k
    BY <1>4, <2>2, <2>4, CallMoves
  <2> QED
    BY <2>3, <2>4
<1>10. ASSUME NEW k \in Calls, Bind(k) PROVE CallGood(j)
  <2>1. PICK a, s : BoundWith(k, a, s)
    BY <1>10, BindDoes
  <2>2. /\ calls[k] # None /\ calls[k].step = "found" /\ Moved(k, "bound")
        /\ accessTokens' = accessTokens /\ idTokens' = idTokens
    BY <2>1, Zenon DEF BoundWith
  <2>3. CASE j # k
    BY <1>2, <2>2, <2>3, Zenon DEF Moved
  <2>4. CASE j = k
    BY <1>4, <2>2, <2>4, CallMoves
  <2> QED
    BY <2>3, <2>4
<1>11. ASSUME NEW k \in Calls, Issue(k) PROVE CallGood(j)
  <2>1. PICK a, g, s : IssuedWith(k, a, g, s)
    BY <1>11, IssueDoes
  <2>2. /\ calls[k] # None /\ calls[k].step = "bound" /\ accessTokens' = accessTokens
        /\ \/ Moved(k, "failed") /\ idTokens' = idTokens
           \/ Moved(k, "done") /\ \E t : idTokens' = Issued(idTokens, k, t)
    BY <2>1, Zenon DEF IssuedWith
  <2>3. CASE j # k
    <3>1. calls'[j] = calls[j]
      BY <2>2, <2>3, Zenon DEF Moved
    <3> QED
      BY <1>2, <2>2, <2>3, <3>1
  <2>4. CASE j = k /\ Moved(k, "failed") /\ idTokens' = idTokens
    BY <1>4, <2>2, <2>4, CallMoves
  <2>5. CASE j = k /\ Moved(k, "done")
    BY <1>4, <2>2, <2>5, CallMoves
  <2> QED
    BY <2>2, <2>3, <2>4, <2>5
<1>12. ASSUME NEW k \in Calls, NEW p \in Calls, NEW nonce \in Nonces, Refresh(k, p, nonce)
       PROVE  CallGood(j)
  <2>1. PICK s : RefreshedWith(k, p, nonce, s)
    BY <1>12, RefreshDoes
  <2>2. /\ calls[p] # None /\ calls[p].step = "done" /\ codes' = codes /\ forms' = forms
        /\ now' = now /\ Fits(s, forms[calls[p].req]) /\ Wrote(k, s)
        /\ \E t : accessTokens' = Issued(accessTokens, k, t)
        /\ \E t : idTokens' = Issued(idTokens, k, t)
        /\ \A i \in Calls : i # k => calls'[i] = calls[i]
        /\ calls'[k] # None /\ calls'[k].req = calls[p].req /\ calls'[k].parent = p
        /\ calls'[k].step = "done"
    BY <2>1, Zenon DEF RefreshedWith
  <2>3. CASE j # k
    BY <1>2, <2>2, <2>3
  <2>4. CASE j = k
    <3>1. PICK r \in AuthReqs : r = calls[p].req
      BY <2>2, CallTypes
    <3>2. /\ forms[r] # None /\ codes[r] # None /\ sessions[r].accessExp # 0
          /\ codes[r] = "used"
      BY <2>2, <3>1 DEF CallsInv, ExchangeInv, RefreshInv
    <3>3. sessions'[r].accessExp # 0
      BY <3>2, StepFollows DEF Follows
    <3>4. p # None
      BY NothingAssumption, Zenon
    <3>5. k \in DOMAIN accessTokens' /\ k \in DOMAIN idTokens'
      BY <2>2 DEF Issued
    <3>6. sessions'[k] = s
      BY <2>2, Zenon DEF Wrote
    <3>7. Fits(sessions[k], forms[calls[k].req])'
      BY <2>2, <3>6, Zenon DEF Fits
    <3>8. RefreshInv(k)'
      BY <2>2, <3>1, <3>2, <3>5, <3>7, Zenon DEF RefreshInv
    <3> QED
      BY <2>2, <2>4, <3>1, <3>2, <3>3, <3>4, <3>8, Zenon DEF CallGood
  <2> QED
    BY <2>3, <2>4
<1>13. ASSUME Tick PROVE CallGood(j)
  BY <1>3, <1>13 DEF Tick
<1>14. ASSUME RotateKey PROVE CallGood(j)
  BY <1>3, <1>14 DEF RotateKey
<1> QED
  BY <1>5, <1>6, <1>7, <1>8, <1>9, <1>10, <1>11, <1>12, <1>13, <1>14, Zenon DEF IdNext, Nonces

-----------------------------------------------------------------------------
(* Steps that give no ID token.                                            *)

SameID(i) ==
    /\ sessions'[i].id.authTime = sessions[i].id.authTime
    /\ sessions'[i].id.nonce = sessions[i].id.nonce
    /\ sessions'[i].id.exp = sessions[i].id.exp

\* What becomes of a call in a step that answers nobody: it begins, or it does
\* not fail when its tokens are made, and ends only where there is no OpenID
\* Connect session.
QuietCall(k) ==
    \/ /\ calls[k] = None /\ calls'[k].parent = None /\ calls'[k].step = "presented"
       /\ calls'[k].nonce = "" /\ k \notin DOMAIN accessTokens'
    \/ /\ calls[k] # None
       /\ (calls'[k].step = "failed" /\ k \in DOMAIN accessTokens') =>
             (calls[k].step = "failed" /\ k \in DOMAIN accessTokens)
       /\ calls'[k].step = "done" =>
             \/ calls[k].step = "done"
             \/ calls[k].step = "stored" /\ oidcSessions[calls[k].req] # "stored"

Quiet ==
    /\ now' \in Nat
    /\ forms' = forms /\ idTokens' = idTokens
    /\ \A i \in Issuers : SameID(i)
    /\ \A k \in Calls : calls'[k] # None => QuietCall(k)
    /\ \A a \in AuthReqs : a \in DOMAIN accessTokens' => a \in DOMAIN accessTokens
    /\ \/ \E k \in Calls : \E a, s : BoundWith(k, a, s)
       \/ /\ oidcSessions' = oidcSessions
          /\ \A i \in Issuers : sessions'[i].id.atHash = sessions[i].id.atHash
          /\ \A k \in Calls : (calls'[k] # None /\ calls'[k].step = "bound") =>
                calls[k] # None /\ calls[k].step = "bound"

LEMMA SessionsSame ==
    ASSUME NEW a \in Issuers, NEW s, Wrote(a, s), s.id = sessions[a].id
    PROVE  \A i \in Issuers : SameID(i) /\ sessions'[i].id.atHash = sessions[i].id.atHash
<1>1. SUFFICES ASSUME NEW i \in Issuers
               PROVE  SameID(i) /\ sessions'[i].id.atHash = sessions[i].id.atHash
  OBVIOUS
<1>2. sessions'[i].id = sessions[i].id
  BY Zenon DEF Wrote
<1> QED
  BY <1>2, Zenon DEF SameID

\* A call that goes on to a step, without an answer.
LEMMA QuietMove ==
    ASSUME TypeInv, NEW k \in Calls, NEW step, Moved(k, step),
           step = "failed" => k \notin DOMAIN accessTokens',
           step = "done" => calls[k].step = "stored" /\ oidcSessions[calls[k].req] # "stored",
           \A j \in Calls : j # k => (j \in DOMAIN accessTokens' => j \in DOMAIN accessTokens)
    PROVE  /\ \A j \in Calls : calls'[j] # None => QuietCall(j)
           /\ step # "bound" =>
                 \A j \in Calls : (calls'[j] # None /\ calls'[j].step = "bound") =>
                     calls[j] # None /\ calls[j].step = "bound"
<1>1. ASSUME NEW j \in Calls, calls'[j] # None PROVE QuietCall(j)
  <2>1. CASE j = k
    BY <2>1, Zenon DEF Moved, QuietCall
  <2>2. CASE j # k
    <3>1. calls'[j] = calls[j]
      BY <2>2, Zenon DEF Moved
    <3> QED
      BY <1>1, <2>2, <3>1, Zenon DEF QuietCall
  <2> QED
    BY <2>1, <2>2
<1>2. ASSUME step # "bound", NEW j \in Calls, calls'[j] # None, calls'[j].step = "bound"
      PROVE  calls[j] # None /\ calls[j].step = "bound"
  <2>1. j # k
    BY <1>2, Zenon DEF Moved
  <2>2. calls'[j] = calls[j]
    BY <2>1, Zenon DEF Moved
  <2> QED
    BY <1>2, <2>2
<1> QED
  BY <1>1, <1>2

\* Where nothing happens to the calls.
LEMMA QuietStill ==
    ASSUME calls' = calls, accessTokens' = accessTokens
    PROVE  /\ \A j \in Calls : calls'[j] # None => QuietCall(j)
           /\ \A j \in Calls : (calls'[j] # None /\ calls'[j].step = "bound") =>
                 calls[j] # None /\ calls[j].step = "bound"
  BY Zenon DEF QuietCall

LEMMA StepIs ==
    ASSUME TypeInv, RequestsInv, CallsInv, IdNext
    PROVE  \/ \E a \in AuthReqs : \E f \in Forms : \E s \in SessionType : AuthorizedWith(a, f, s)
           \/ \E k \in Calls : \E a, g, s : IssuedWith(k, a, g, s)
           \/ \E k \in Calls : \E p \in Calls : \E nonce \in Nonces : \E s : RefreshedWith(k, p, nonce, s)
           \/ Quiet
<1>1. AuthReqs \subseteq Issuers /\ Calls \subseteq Issuers /\ \A k \in Calls : k \notin AuthReqs
  BY IdTokensAssumption, Zenon DEF Issuers
<1>2. now \in Nat /\ Keeps
  BY Clock, StepKeeps
<1>3. now' \in Nat
  BY <1>2 DEF Keeps
<1>4. sessions' = sessions =>
         \A i \in Issuers : SameID(i) /\ sessions'[i].id.atHash = sessions[i].id.atHash
  BY Zenon DEF SameID
<1>5. ASSUME NEW k \in Calls, NEW a \in AuthReqs, Present(k, a) PROVE Quiet
  <2>1. PICK s : PresentedWith(k, a, s)
    BY <1>5, PresentDoes
  <2>2. /\ calls[k] = None /\ forms' = forms /\ accessTokens' = accessTokens
        /\ idTokens' = idTokens /\ oidcSessions' = oidcSessions
        /\ calls'[k] # None /\ calls'[k].parent = None /\ calls'[k].step = "presented"
        /\ calls'[k].nonce = "" /\ \A j \in Calls : j # k => calls'[j] = calls[j]
        /\ Wrote(a, s) /\ s.id = sessions[a].id
    BY <2>1, Zenon DEF PresentedWith
  <2>3. \A i \in Issuers : SameID(i) /\ sessions'[i].id.atHash = sessions[i].id.atHash
    BY <1>1, <2>2, SessionsSame
  <2>4. k \notin DOMAIN accessTokens
    BY <2>2 DEF CallsInv
  <2>5. \A j \in Calls : calls'[j] # None => QuietCall(j)
    BY <2>2, <2>4, Zenon DEF QuietCall
  <2>6. \A j \in Calls : (calls'[j] # None /\ calls'[j].step = "bound") =>
            calls[j] # None /\ calls[j].step = "bound"
    <3>1. \A j \in Calls : j = k => calls'[j].step # "bound"
      BY <2>2
    <3> QED
      BY <2>2, <3>1, Zenon
  <2> QED
    BY <1>3, <2>2, <2>3, <2>5, <2>6, Zenon DEF Quiet
<1>6. ASSUME NEW k \in Calls, Generated(k) PROVE Quiet
  <2>1. PICK a, s : GeneratedWith(k, a, s)
    BY <1>6, GeneratedDoes
  <2>2. /\ calls[k] # None /\ calls[k].step = "presented" /\ a \in AuthReqs
        /\ forms' = forms /\ idTokens' = idTokens /\ oidcSessions' = oidcSessions
        /\ Wrote(a, s) /\ s.id = sessions[a].id
        /\ \/ Moved(k, "failed") /\ accessTokens' = accessTokens
           \/ Moved(k, "generated") /\ \E t : accessTokens' = Issued(accessTokens, k, t)
    BY <2>1, Zenon DEF GeneratedWith
  <2>3. \A i \in Issuers : SameID(i) /\ sessions'[i].id.atHash = sessions[i].id.atHash
    BY <1>1, <2>2, SessionsSame
  <2>4. k \notin DOMAIN accessTokens
    BY <2>2 DEF CallsInv, ExchangeInv, RefreshInv
  <2>5. \A j : (j # k /\ j \in DOMAIN accessTokens') => j \in DOMAIN accessTokens
    BY <2>2, IssuedAdds
  <2>6. /\ \A j \in Calls : calls'[j] # None => QuietCall(j)
        /\ \A j \in Calls : (calls'[j] # None /\ calls'[j].step = "bound") =>
              calls[j] # None /\ calls[j].step = "bound"
    <3>1. CASE Moved(k, "failed") /\ accessTokens' = accessTokens
      BY <2>4, <2>5, <3>1, QuietMove
    <3>2. CASE Moved(k, "generated")
      BY <2>5, <3>2, QuietMove
    <3> QED
      BY <2>2, <3>1, <3>2
  <2>7. \A b \in AuthReqs : b \in DOMAIN accessTokens' => b \in DOMAIN accessTokens
    BY <1>1, <2>5
  <2> QED
    BY <1>3, <2>2, <2>3, <2>6, <2>7, Zenon DEF Quiet
<1>7. ASSUME NEW k \in Calls, NEW before, NEW after, MovedOn(k, before, after),
             after \notin {"failed", "bound"},
             after = "done" => before = "stored" /\ oidcSessions[calls[k].req] # "stored"
      PROVE  Quiet
  <2>1. /\ calls[k].step = before /\ Moved(k, after) /\ forms' = forms
        /\ sessions' = sessions /\ oidcSessions' = oidcSessions
        /\ accessTokens' = accessTokens /\ idTokens' = idTokens
    BY <1>7, Zenon DEF MovedOn
  <2>2. /\ \A j \in Calls : calls'[j] # None => QuietCall(j)
        /\ \A j \in Calls : (calls'[j] # None /\ calls'[j].step = "bound") =>
              calls[j] # None /\ calls[j].step = "bound"
    BY <1>7, <2>1, QuietMove
  <2> QED
    BY <1>3, <1>4, <2>1, <2>2, Zenon DEF Quiet
<1>8. ASSUME NEW k \in Calls, Store(k) PROVE Quiet
  <2>1. MovedOn(k, "generated", "stored")
    BY <1>8, StoreDoes
  <2> QED
    BY <1>7, <2>1
<1>9. ASSUME NEW k \in Calls, Lookup(k) PROVE Quiet
  <2>1. MovedOn(k, "stored", IF oidcSessions[calls[k].req] = "stored" THEN "found" ELSE "done")
    BY <1>9, LookupDoes
  <2>2. CASE oidcSessions[calls[k].req] = "stored"
    BY <1>7, <2>1, <2>2
  <2>3. CASE oidcSessions[calls[k].req] # "stored"
    BY <1>7, <2>1, <2>3
  <2> QED
    BY <2>2, <2>3
<1>10. ASSUME NEW k \in Calls, Bind(k) PROVE Quiet
  <2>1. PICK a, s : BoundWith(k, a, s)
    BY <1>10, BindDoes
  <2>2. /\ a \in AuthReqs /\ Moved(k, "bound") /\ Wrote(a, s) /\ forms' = forms
        /\ accessTokens' = accessTokens /\ idTokens' = idTokens
        /\ s.id = [sessions[a].id EXCEPT !.atHash = k]
    BY <2>1, Zenon DEF BoundWith
  <2>3. \A i \in Issuers : SameID(i)
    <3>1. SUFFICES ASSUME NEW i \in Issuers PROVE SameID(i)
      OBVIOUS
    <3>2. CASE i = a
      <4>1. sessions'[i].id = [sessions[i].id EXCEPT !.atHash = k]
        BY <2>2, <3>2, Zenon DEF Wrote
      <4>2. sessions[i].id \in IDClaims
        BY SessionTypes
      <4> QED
        BY <4>1, <4>2 DEF SameID, IDClaims
    <3>3. CASE i # a
      <4>1. sessions'[i] = sessions[i]
        BY <2>2, <3>3, Zenon DEF Wrote
      <4> QED
        BY <4>1, Zenon DEF SameID
    <3> QED
      BY <3>2, <3>3
  <2>4. \A j \in Calls : calls'[j] # None => QuietCall(j)
    BY <2>2, QuietMove
  <2> QED
    BY <1>3, <2>1, <2>2, <2>3, <2>4, Zenon DEF Quiet
<1>11. ASSUME Tick PROVE Quiet
  <2>1. /\ forms' = forms /\ idTokens' = idTokens /\ oidcSessions' = oidcSessions
        /\ calls' = calls /\ accessTokens' = accessTokens /\ sessions' = sessions
    BY <1>11, Zenon DEF Tick
  <2> QED
    BY <1>3, <1>4, <2>1, QuietStill, Zenon DEF Quiet
<1>12. ASSUME RotateKey PROVE Quiet
  <2>1. /\ forms' = forms /\ idTokens' = idTokens /\ oidcSessions' = oidcSessions
        /\ calls' = calls /\ accessTokens' = accessTokens /\ sessions' = sessions
    BY <1>12, Zenon DEF RotateKey
  <2> QED
    BY <1>3, <1>4, <2>1, QuietStill, Zenon DEF Quiet
<1>13. ASSUME NEW a \in AuthReqs, NEW f \in Forms, Authorize(a, f)
       PROVE  \E s \in SessionType : AuthorizedWith(a, f, s)
  BY <1>13, AuthorizeDoes
<1>14. ASSUME NEW k \in Calls, Issue(k) PROVE \E a, g, s : IssuedWith(k, a, g, s)
  BY <1>14, IssueDoes
<1>15. ASSUME NEW k \in Calls, NEW p \in Calls, NEW nonce \in Nonces, Refresh(k, p, nonce)
       PROVE  \E s : RefreshedWith(k, p, nonce, s)
  BY <1>15, RefreshDoes
<1> QED
  BY <1>5, <1>6, <1>8, <1>9, <1>10, <1>11, <1>12, <1>13, <1>14, <1>15, Zenon DEF IdNext, Nonces

\* The access tokens.
LEMMA StepAccessTokens ==
    ASSUME TypeInv, RequestsInv, CallsInv, AccessTokensInv, IdNext
    PROVE  AccessTokensInv'
<1> DEFINE Fitting == \/ accessTokens' = accessTokens
                      \/ \E i, t : AccessTokenFits(t) /\ accessTokens' = Issued(accessTokens, i, t)
<1>1. ASSUME NEW k \in Calls, Generated(k) PROVE Fitting
  <2>1. PICK a, s : GeneratedWith(k, a, s)
    BY <1>1, GeneratedDoes
  <2> QED
    BY <2>1, Zenon DEF GeneratedWith
<1>2. ASSUME NEW a \in AuthReqs, NEW f \in Forms, Authorize(a, f) PROVE Fitting
  <2>1. PICK s \in SessionType : AuthorizedWith(a, f, s)
    BY <1>2, AuthorizeDoes
  <2> QED
    BY <2>1, Zenon DEF AuthorizedWith
<1>3. ASSUME NEW k \in Calls, NEW p \in Calls, NEW nonce \in Nonces, Refresh(k, p, nonce)
      PROVE  Fitting
  <2>1. PICK s : RefreshedWith(k, p, nonce, s)
    BY <1>3, RefreshDoes
  <2> QED
    BY <2>1, Zenon DEF RefreshedWith
<1>4. Fitting
  BY <1>1, <1>2, <1>3, Zenon
  DEF IdNext, Nonces, Present, Store, Lookup, Bind, Issue, Tick, RotateKey
<1>5. CASE accessTokens' = accessTokens
  BY <1>5, Zenon DEF AccessTokensInv
<1>6. ASSUME NEW i, NEW t, AccessTokenFits(t), accessTokens' = Issued(accessTokens, i, t)
      PROVE  AccessTokensInv'
  <2>1. \A j \in DOMAIN accessTokens' :
            accessTokens'[j] = t \/ (j \in DOMAIN accessTokens /\ accessTokens'[j] = accessTokens[j])
    BY <1>6 DEF Issued
  <2> QED
    BY <1>6, <2>1, Zenon DEF AccessTokensInv
<1> QED
  BY <1>4, <1>5, <1>6

-----------------------------------------------------------------------------
(* Steps that give an ID token.                                            *)

\* i is answered with an ID token of the claims c, for the request f.
Answers(i, c, f) ==
    /\ i \in Issuers /\ i \notin Responses
    /\ c \in IDClaims /\ idTokens' = Issued(idTokens, i, IDToken(c, i))
    /\ f # None /\ forms'[Request(i)'] = f
    /\ c.sub = Subject /\ Subject # "" /\ TokenID(c, i) = i /\ c.rat = f.rat
    /\ c.authTime # 0 /\ (f.authTime # 0 => c.authTime = f.authTime)
    /\ c.iat = now /\ c.exp >= now

LEMMA AuthorizeAnswers ==
    ASSUME TypeInv, RequestsInv, NEW a \in AuthReqs, NEW f \in Forms, NEW s \in SessionType,
           AuthorizedWith(a, f, s), "id_token" \in f.types
    PROVE  Answers(a, s.id, f)
<1>1. /\ forms[a] = None /\ forms' = [forms EXCEPT ![a] = f] /\ Fits(s, f)
      /\ s.id.jti = "" /\ idTokens' = Issued(idTokens, a, IDToken(s.id, a))
      /\ s.id.authTime # 0 /\ s.id.iat = now /\ s.id.exp >= now
  BY Zenon DEF AuthorizedWith
<1>2. a \notin Responses
  BY <1>1 DEF RequestsInv, Responses
<1>3. forms'[Request(a)'] = f /\ f # None /\ a \in Issuers
  BY <1>1, NothingAssumption DEF Request, TypeInv, Issuers
<1>4. s.id \in IDClaims
  BY DEF SessionType
<1>5. TokenID(s.id, a) = a
  BY <1>1, Zenon DEF TokenID
<1> QED
  BY <1>1, <1>2, <1>3, <1>4, <1>5, Zenon DEF Answers, Fits

LEMMA IssueAnswers ==
    ASSUME TypeInv, RequestsInv, CallsInv, RequestsInv', NEW k \in Calls, NEW a, NEW g, NEW s,
           IssuedWith(k, a, g, s), g.err = "nil"
    PROVE  Answers(k, g.claims, forms[a])
<1>1. /\ calls[k] # None /\ calls[k].step = "bound" /\ calls[k].req = a /\ a \in AuthReqs
      /\ Leaves(forms[a], forms[a].nonce, sessions[a].id, g)
      /\ Wrote(a, s) /\ s.id = g.claims /\ Moved(k, "done") /\ forms' = forms
      /\ idTokens' = Issued(idTokens, k, IDToken(g.claims, k))
  BY Zenon DEF IssuedWith
<1>2. forms[a] # None /\ k \notin Responses
  BY <1>1 DEF CallsInv, ExchangeInv, RefreshInv, Responses
<1>3. Fits(s, forms[a])'
  <2>1. Fits(sessions[a], forms[a])'
    BY <1>1, <1>2, Zenon DEF RequestsInv
  <2> QED
    BY <1>1, <2>1, Zenon DEF Fits, Wrote
<1>4. /\ s.id.sub = Subject /\ Subject # "" /\ s.id.rat = forms[a].rat
      /\ forms[a].authTime # 0 => s.id.authTime = forms[a].authTime
  BY <1>1, <1>3, Zenon DEF Fits
<1>5. /\ g.claims.iat = now /\ g.claims.exp >= now /\ g.claims.jti = sessions[a].id.jti
      /\ g.claims.authTime = IF sessions[a].id.authTime = 0 THEN now ELSE sessions[a].id.authTime
      /\ g.claims \in IDClaims
  BY <1>1, Zenon DEF Leaves
<1>6. g.claims.authTime # 0
  BY <1>5, Clock
<1>7. k \in Issuers /\ k \notin AuthReqs /\ Request(k)' = a
  <2>1. k \in Issuers /\ k \notin AuthReqs
    BY IdTokensAssumption, Zenon DEF Issuers
  <2>2. calls'[k].req = a
    BY <1>1, Zenon DEF Moved
  <2> QED
    BY <2>1, <2>2, Zenon DEF Request
<1>8. TokenID(g.claims, k) = k
  <2>1. sessions[a].id.jti = ""
    BY <1>1, <1>2 DEF RequestsInv
  <2> QED
    BY <1>5, <2>1, Zenon DEF TokenID
<1>9. forms'[Request(k)'] = forms[a]
  BY <1>1, <1>7, Zenon
<1> QED
  BY <1>1, <1>2, <1>4, <1>5, <1>6, <1>7, <1>8, <1>9, Zenon DEF Answers

LEMMA RefreshAnswers ==
    ASSUME TypeInv, CallsInv, NEW k \in Calls, NEW p \in Calls, NEW nonce \in Nonces, NEW s,
           RefreshedWith(k, p, nonce, s)
    PROVE  Answers(k, s.id, forms[calls[p].req])
<1>1. /\ calls[k] = None /\ calls[p] # None /\ Wrote(k, s) /\ Fits(s, forms[calls[p].req])
      /\ s.id.jti = k /\ s.id.authTime # 0 /\ s.id.iat = now /\ s.id.exp >= now
      /\ idTokens' = Issued(idTokens, k, IDToken(s.id, k)) /\ forms' = forms
      /\ calls'[k].req = calls[p].req
  BY Zenon DEF RefreshedWith
<1>2. k \notin Responses /\ forms[calls[p].req] # None
  BY <1>1 DEF CallsInv, Responses
<1>3. k \in Issuers /\ k \notin AuthReqs
  BY IdTokensAssumption, Zenon DEF Issuers
<1>4. Request(k)' = calls[p].req
  BY <1>1, <1>3, Zenon DEF Request
<1>5. s.id \in IDClaims
  BY <1>1 DEF Wrote, SessionType
<1>6. TokenID(s.id, k) = k
  <2>1. k # ""
    BY IdTokensAssumption, Zenon
  <2> QED
    BY <1>1, <2>1, Zenon DEF TokenID
<1> QED
  BY <1>1, <1>2, <1>3, <1>4, <1>5, <1>6, Zenon DEF Answers, Fits

\* An answer is about the request, and the earlier ones stay.
LEMMA AnswersKeep ==
    ASSUME TypeInv, RequestsInv, CallsInv, IdTokensInv, Keeps,
           NEW i, NEW c, NEW f, Answers(i, c, f)
    PROVE  IdTokensInv'
<1>1. /\ i \notin Responses /\ c \in IDClaims /\ idTokens' = Issued(idTokens, i, IDToken(c, i))
      /\ f # None /\ forms'[Request(i)'] = f
      /\ c.sub = Subject /\ Subject # "" /\ TokenID(c, i) = i /\ c.rat = f.rat
      /\ c.authTime # 0 /\ (f.authTime # 0 => c.authTime = f.authTime)
      /\ c.iat = now /\ c.exp >= now
  BY Zenon DEF Answers
<1>2. SUFFICES ASSUME NEW j \in Responses' PROVE IdTokenInv(j, forms[Request(j)])'
  BY Zenon DEF IdTokensInv
<1>3. CASE j = i
  <2>1. PICK token : token = IDToken(c, i)
    OBVIOUS
  <2>2. idTokens'[i] = token
    <3>1. idTokens' = Issued(idTokens, i, token)
      BY <1>1, <2>1, Zenon
    <3> QED
      BY <3>1 DEF Issued
  <2>3. /\ token.at = now /\ token.raw.claims["jti"] = String(TokenID(c, i))
        /\ c.sub # "" => token.raw.claims["sub"] = String(c.sub)
        /\ c.authTime # 0 => token.raw.claims["auth_time"] = Int64(c.authTime)
        /\ TimeOf(token.raw.claims, "auth_time") = c.authTime
        /\ TimeOf(token.raw.claims, "rat") = c.rat
        /\ TimeOf(token.raw.claims, "exp") = c.exp
        /\ TimeOf(token.raw.claims, "iat") = c.iat
    <3>1. c \in IDClaims
      BY <1>1, Zenon
    <3> QED
      BY <2>1, <3>1, NewIDToken
  <2>4. c.authTime \in Nat \ {0} /\ c.exp \in Nat /\ now \in Nat
    BY <1>1, Clock DEF IDClaims
  <2>5. idTokens'[j] = token /\ forms'[Request(j)'] = f
    BY <1>1, <1>3, <2>2, Zenon
  <2>6. /\ token.raw.claims["jti"] = String(i) /\ token.raw.claims["sub"] = String(Subject)
        /\ token.raw.claims["auth_time"] = Int64(TimeOf(token.raw.claims, "auth_time"))
        /\ TimeOf(token.raw.claims, "auth_time") \in Nat \ {0}
        /\ f.authTime # 0 => TimeOf(token.raw.claims, "auth_time") = f.authTime
        /\ TimeOf(token.raw.claims, "rat") = f.rat
        /\ TimeOf(token.raw.claims, "iat") = token.at
        /\ TimeOf(token.raw.claims, "exp") \in Nat /\ token.at \in Nat
        /\ TimeOf(token.raw.claims, "exp") >= token.at
    BY <1>1, <2>3, <2>4, Zenon
  <2> QED
    BY <1>1, <1>3, <2>5, <2>6, Zenon DEF IdTokenInv, Claims
<1>4. CASE j # i
  <2>1. j \in Responses
    <3>1. idTokens' = Issued(idTokens, i, IDToken(c, i))
      BY <1>1, Zenon
    <3> QED
      BY <1>4, <3>1, IssuedAdds DEF Responses
  <2>2. idTokens'[j] = idTokens[j] /\ forms'[Request(j)'] = forms[Request(j)]
    BY <2>1, ResponseKept
  <2>3. IdTokenInv(j, forms[Request(j)])
    BY <2>1 DEF IdTokensInv
  <2> QED
    BY <2>2, <2>3, Zenon DEF IdTokenInv, Claims
<1> QED
  BY <1>3, <1>4

LEMMA NoAnswerKeeps ==
    ASSUME TypeInv, RequestsInv, CallsInv, IdTokensInv, Keeps, idTokens' = idTokens
    PROVE  IdTokensInv'
<1>1. SUFFICES ASSUME NEW j \in Responses' PROVE IdTokenInv(j, forms[Request(j)])'
  BY Zenon DEF IdTokensInv
<1>2. j \in Responses
  BY Zenon DEF Responses
<1>3. idTokens'[j] = idTokens[j] /\ forms'[Request(j)'] = forms[Request(j)]
  BY <1>2, ResponseKept
<1>4. IdTokenInv(j, forms[Request(j)])
  BY <1>2 DEF IdTokensInv
<1> QED
  BY <1>3, <1>4, Zenon DEF IdTokenInv, Claims

LEMMA StepIdTokens ==
    ASSUME TypeInv, RequestsInv, CallsInv, IdTokensInv, IdNext
    PROVE  IdTokensInv'
<1>1. Keeps /\ RequestsInv'
  BY StepKeeps, StepRequests
<1>2. ASSUME NEW a \in AuthReqs, NEW f \in Forms, NEW s \in SessionType, AuthorizedWith(a, f, s)
      PROVE  IdTokensInv'
  <2>1. CASE "id_token" \in f.types
    BY <1>1, <1>2, <2>1, AuthorizeAnswers, AnswersKeep
  <2>2. CASE "id_token" \notin f.types
    <3>1. idTokens' = idTokens
      BY <1>2, <2>2, Zenon DEF AuthorizedWith
    <3> QED
      BY <1>1, <3>1, NoAnswerKeeps
  <2> QED
    BY <2>1, <2>2
<1>3. ASSUME NEW k \in Calls, NEW a, NEW g, NEW s, IssuedWith(k, a, g, s) PROVE IdTokensInv'
  <2>1. CASE g.err = "nil"
    BY <1>1, <1>3, <2>1, IssueAnswers, AnswersKeep
  <2>2. CASE g.err # "nil"
    <3>1. idTokens' = idTokens
      BY <1>3, <2>2, Zenon DEF IssuedWith
    <3> QED
      BY <1>1, <3>1, NoAnswerKeeps
  <2> QED
    BY <2>1, <2>2
<1>4. ASSUME NEW k \in Calls, NEW p \in Calls, NEW nonce \in Nonces, NEW s,
             RefreshedWith(k, p, nonce, s)
      PROVE  IdTokensInv'
  BY <1>1, <1>4, RefreshAnswers, AnswersKeep
<1>5. CASE Quiet
  <2>1. idTokens' = idTokens
    BY <1>5, Zenon DEF Quiet
  <2> QED
    BY <1>1, <2>1, NoAnswerKeeps
<1> QED
  BY <1>2, <1>3, <1>4, <1>5, StepIs

\* What a reader gets out of the new ID token.
LEMMA AnswerReads ==
    ASSUME TypeInv, NEW i, NEW c, NEW f, Answers(i, c, f)
    PROVE  /\ i \in Responses' /\ c \in IDClaims
           /\ \A j \in Responses' : j # i => j \in Responses
           /\ StringOf(Claims(i), "at_hash")' = c.atHash
           /\ ("at_hash" \in DOMAIN Claims(i))' <=> c.atHash # ""
           /\ StringOf(Claims(i), "c_hash")' = c.cHash
           /\ ("c_hash" \in DOMAIN Claims(i))' <=> c.cHash # ""
           /\ StringOf(Claims(i), "nonce")' = c.nonce
           /\ TimeOf(Claims(i), "auth_time")' = c.authTime
           /\ TimeOf(Claims(i), "exp")' = c.exp
<1>1. c \in IDClaims /\ idTokens' = Issued(idTokens, i, IDToken(c, i))
  BY Zenon DEF Answers
<1>2. PICK token : token = IDToken(c, i)
  OBVIOUS
<1>3. idTokens'[i] = token /\ i \in Responses'
  BY <1>1, <1>2 DEF Issued, Responses
<1>4. \A j \in Responses' : j # i => j \in Responses
  BY <1>1, IssuedAdds DEF Responses
<1>5. /\ StringOf(token.raw.claims, "at_hash") = c.atHash
      /\ "at_hash" \in DOMAIN token.raw.claims <=> c.atHash # ""
      /\ StringOf(token.raw.claims, "c_hash") = c.cHash
      /\ "c_hash" \in DOMAIN token.raw.claims <=> c.cHash # ""
      /\ StringOf(token.raw.claims, "nonce") = c.nonce
      /\ TimeOf(token.raw.claims, "auth_time") = c.authTime
      /\ TimeOf(token.raw.claims, "exp") = c.exp
  BY <1>1, <1>2, NewIDToken
<1> QED
  BY <1>1, <1>3, <1>4, <1>5, Zenon DEF Claims

\* A call between its access token and the end of the exchange.
LEMMA ExchangingCall ==
    ASSUME TypeInv, CallsInv, NEW k \in Calls, calls[k] # None,
           calls[k].step \in {"generated", "stored", "found", "bound"}
    PROVE  Exchanging(k, calls[k].req) /\ calls[k].req \in AuthReqs
  BY CallTypes DEF CallsInv, ExchangeInv, RefreshInv, Exchanging

LEMMA StepBound ==
    ASSUME TypeInv, RequestsInv, CallsInv, BoundInv, IdNext
    PROVE  BoundInv'
<1>1. Keeps
  BY StepKeeps
<1>2. SUFFICES ASSUME NEW k \in Calls, calls'[k] # None, calls'[k].step = "bound",
                      ~Contended(calls[k].req)'
               PROVE  sessions'[calls'[k].req].id.atHash = k
  BY Zenon DEF BoundInv
<1>3. ASSUME calls'[k] = calls[k],
             sessions'[calls[k].req].id.atHash = sessions[calls[k].req].id.atHash
      PROVE  sessions'[calls'[k].req].id.atHash = k
  <2>1. calls[k] # None /\ calls[k].step = "bound"
    BY <1>2, <1>3, Zenon
  <2>2. ~Contended(calls[k].req)
    <3>1. PICK r : r = calls[k].req /\ r = calls'[k].req
      BY <1>3, Zenon
    <3>2. ~Contended(r)'
      BY <1>2, <3>1, Zenon
    <3>3. ~Contended(r)
      BY <1>1, <3>2, ContendedKept
    <3> QED
      BY <3>1, <3>3, Zenon
  <2>3. sessions[calls[k].req].id.atHash = k
    BY <2>1, <2>2, Zenon DEF BoundInv
  <2> QED
    BY <1>3, <2>3, Zenon
<1>4. \A j \in Calls : calls[j] # None => calls[j].req \in AuthReqs /\ calls[j].req \in Issuers
  BY CallTypes
<1>5. \A a \in AuthReqs : forms[a] = None => \A j \in Calls : calls[j] # None => calls[j].req # a
  BY DEF CallsInv
<1>6. ASSUME NEW a \in AuthReqs, NEW f \in Forms, NEW s \in SessionType, AuthorizedWith(a, f, s)
      PROVE  sessions'[calls'[k].req].id.atHash = k
  <2>1. forms[a] = None /\ calls' = calls /\ sessions' = [sessions EXCEPT ![a] = s]
    BY <1>6, Zenon DEF AuthorizedWith
  <2>2. calls[k] # None /\ calls[k].req # a /\ calls[k].req \in Issuers /\ a \in Issuers
    BY <1>2, <1>4, <1>5, <2>1 DEF Issuers
  <2>3. Wrote(a, s)
    BY <2>1, <2>2, Writes
  <2>4. sessions'[calls[k].req] = sessions[calls[k].req]
    BY <2>2, <2>3, Zenon DEF Wrote
  <2> QED
    BY <1>3, <2>1, <2>4, Zenon
<1>7. ASSUME NEW j \in Calls, NEW a, NEW g, NEW s, IssuedWith(j, a, g, s)
      PROVE  sessions'[calls'[k].req].id.atHash = k
  <2>1. /\ Moved(j, "failed") \/ Moved(j, "done")
        /\ Wrote(a, s) /\ s.id = g.claims
        /\ Leaves(forms[a], forms[a].nonce, sessions[a].id, g)
    BY <1>7, Zenon DEF IssuedWith
  <2>2. k # j
    BY <1>2, <2>1 DEF Moved
  <2>3. calls'[k] = calls[k]
    BY <2>1, <2>2, Zenon DEF Moved
  <2>4. calls[k].req \in Issuers
    BY <1>2, <1>4, <2>3
  <2>5. sessions'[calls[k].req].id.atHash = sessions[calls[k].req].id.atHash
    <3>1. g.claims.atHash = sessions[a].id.atHash
      BY <2>1, Zenon DEF Leaves
    <3> QED
      BY <2>1, <2>4, <3>1, Zenon DEF Wrote
  <2> QED
    BY <1>3, <2>3, <2>5
<1>8. ASSUME NEW j \in Calls, NEW p \in Calls, NEW nonce \in Nonces, NEW s,
             RefreshedWith(j, p, nonce, s)
      PROVE  sessions'[calls'[k].req].id.atHash = k
  <2>1. /\ calls'[j].step = "done" /\ Wrote(j, s)
        /\ \A i \in Calls : i # j => calls'[i] = calls[i]
    BY <1>8, Zenon DEF RefreshedWith
  <2>2. k # j
    BY <1>2, <2>1
  <2>3. calls'[k] = calls[k]
    BY <2>1, <2>2
  <2>4. calls[k].req \in Issuers /\ calls[k].req # j
    <3>1. calls[k].req \in AuthReqs
      BY <1>2, <1>4, <2>3
    <3> QED
      BY <3>1, IdTokensAssumption, Zenon DEF Issuers
  <2>5. sessions'[calls[k].req] = sessions[calls[k].req]
    BY <2>1, <2>4, Zenon DEF Wrote
  <2> QED
    BY <1>3, <2>3, <2>5, Zenon
<1>9. ASSUME NEW j \in Calls, NEW a, NEW s, BoundWith(j, a, s)
      PROVE  sessions'[calls'[k].req].id.atHash = k
  <2>1. /\ calls[j] # None /\ calls[j].step = "found" /\ calls[j].req = a /\ Moved(j, "bound")
        /\ Wrote(a, s) /\ s.id.atHash = j
    BY <1>9, Zenon DEF BoundWith
  <2>2. CASE k = j
    BY <2>1, <2>2, Zenon DEF Moved, Wrote
  <2>3. CASE k # j
    <3>1. calls'[k] = calls[k]
      BY <2>1, <2>3, Zenon DEF Moved
    <3>2. calls[k] # None /\ calls[k].step = "bound" /\ calls[k].req \in Issuers
      BY <1>2, <1>4, <3>1
    <3>3. calls[k].req # a
      <4>1. SUFFICES ASSUME calls[k].req = a PROVE FALSE
        OBVIOUS
      <4>2. Exchanging(k, a) /\ Exchanging(j, a)
        <5>1. Exchanging(k, calls[k].req)
          BY <3>2, ExchangingCall
        <5>2. Exchanging(j, calls[j].req)
          BY <2>1, ExchangingCall
        <5> QED
          BY <2>1, <4>1, <5>1, <5>2, Zenon
      <4>3. Contended(a)
        BY <2>3, <4>2, TwoContend
      <4>4. Contended(a)'
        BY <1>1, <4>3, ContendedKept
      <4>5. ~Contended(a)'
        BY <1>2, <3>1, <4>1, Zenon
      <4> QED
        BY <4>4, <4>5
    <3>4. sessions'[calls[k].req] = sessions[calls[k].req]
      BY <2>1, <3>2, <3>3, Zenon DEF Wrote
    <3> QED
      BY <1>3, <3>1, <3>4, Zenon
  <2> QED
    BY <2>2, <2>3
<1>10. ASSUME Quiet,
              \A i \in Issuers : sessions'[i].id.atHash = sessions[i].id.atHash,
              \A j \in Calls : (calls'[j] # None /\ calls'[j].step = "bound") =>
                  calls[j] # None /\ calls[j].step = "bound"
       PROVE  sessions'[calls'[k].req].id.atHash = k
  <2>1. calls[k] # None /\ calls[k].step = "bound"
    BY <1>2, <1>10
  <2>2. PICK r \in Issuers : r = calls[k].req /\ calls'[k].req = r
    BY <1>1, <1>4, <2>1 DEF Keeps
  <2>3. ~Contended(r)'
    BY <1>2, <2>2, Zenon
  <2>4. ~Contended(r)
    BY <1>1, <2>3, ContendedKept
  <2>5. sessions[r].id.atHash = k
    BY <2>1, <2>2, <2>4, Zenon DEF BoundInv
  <2> QED
    BY <1>10, <2>2, <2>5, Zenon
<1>11. Quiet => sessions'[calls'[k].req].id.atHash = k
  BY <1>9, <1>10, Zenon DEF Quiet
<1> QED
  BY <1>6, <1>7, <1>8, <1>11, StepIs

\* The hashes of a front channel response that was given before.
LEMMA FrontKept ==
    ASSUME TypeInv, RequestsInv, CallsInv, HashesInv, Keeps, NEW a \in AuthReqs, a \in Responses,
           a \in DOMAIN accessTokens' => a \in DOMAIN accessTokens
    PROVE  FrontHashes(a)'
<1>1. FrontHashes(a)
  BY DEF HashesInv
<1>2. idTokens'[a] = idTokens[a] /\ forms'[a] = forms[a]
  BY ResponseKept, ResponseIs
<1>3. a \in DOMAIN accessTokens => a \in DOMAIN accessTokens'
  BY DEF Keeps
<1> QED
  BY <1>1, <1>2, <1>3, Zenon DEF FrontHashes, Claims

\* The hash of a call's response that was given before.
LEMMA HashKept ==
    ASSUME TypeInv, RequestsInv, CallsInv, HashesInv, Keeps, NEW k \in Calls, k \in Responses,
           (calls[k].parent # None \/ ~Contended(calls[k].req))'
    PROVE  StringOf(Claims(k), "at_hash")' = k
<1>1. k \notin AuthReqs
  BY IdTokensAssumption, Zenon
<1>2. calls[k] # None /\ idTokens'[k] = idTokens[k]
  BY <1>1, ResponseIs, ResponseKept
<1>3. PICK r : r = calls[k].req /\ r = calls'[k].req
  BY <1>2 DEF Keeps
<1>4. calls'[k].parent = calls[k].parent
  BY <1>2 DEF Keeps
<1>5. ~Contended(r)' => ~Contended(r)
  BY ContendedKept
<1>6. calls[k].parent # None \/ ~Contended(r)'
  BY <1>3, <1>4, Zenon
<1>7. calls[k].parent # None \/ ~Contended(calls[k].req)
  BY <1>3, <1>5, <1>6, Zenon
<1>8. StringOf(Claims(k), "at_hash") = k
  BY <1>7 DEF HashesInv
<1> QED
  BY <1>2, <1>8, Zenon DEF Claims

LEMMA StepHashes ==
    ASSUME TypeInv, RequestsInv, CallsInv, BoundInv, HashesInv, IdNext
    PROVE  HashesInv'
<1> DEFINE Front == \A a \in AuthReqs : a \in Responses' => FrontHashes(a)'
           Back == \A k \in Calls :
               (k \in Responses' /\ (calls[k].parent # None \/ ~Contended(calls[k].req))')
                 => StringOf(Claims(k), "at_hash")' = k
<1>1. SUFFICES Front /\ Back
  BY Zenon DEF HashesInv
<1>2. Keeps /\ RequestsInv'
  BY StepKeeps, StepRequests
<1>3. ASSUME idTokens' = idTokens,
             \A a \in AuthReqs : a \in Responses =>
                 (a \in DOMAIN accessTokens' => a \in DOMAIN accessTokens)
      PROVE  Front /\ Back
  <2>1. \A i : i \in Responses' => i \in Responses
    BY <1>3, Zenon DEF Responses
  <2>2. Front
    BY <1>2, <1>3, <2>1, FrontKept
  <2>3. Back
    BY <1>2, <2>1, HashKept
  <2> QED
    BY <2>2, <2>3
<1>4. \A k \in Calls : k \notin AuthReqs
  BY IdTokensAssumption, Zenon
<1>5. ASSUME NEW b \in AuthReqs, NEW f \in Forms, NEW s \in SessionType, AuthorizedWith(b, f, s)
      PROVE  Front /\ Back
  <2>1. b \notin Responses /\ b \notin DOMAIN accessTokens
    <3>1. forms[b] = None
      BY <1>5, Zenon DEF AuthorizedWith
    <3> QED
      BY <3>1 DEF RequestsInv, Responses
  <2>2. accessTokens' = accessTokens \/ \E t : accessTokens' = Issued(accessTokens, b, t)
    BY <1>5, Zenon DEF AuthorizedWith
  <2>3. \A a \in AuthReqs : a \in Responses =>
            (a \in DOMAIN accessTokens' => a \in DOMAIN accessTokens)
    BY <2>1, <2>2, IssuedAdds
  <2>4. CASE "id_token" \notin f.types
    <3>1. idTokens' = idTokens
      BY <1>5, <2>4, Zenon DEF AuthorizedWith
    <3> QED
      BY <1>3, <2>3, <3>1
  <2>5. CASE "id_token" \in f.types
    <3>1. Answers(b, s.id, f)
      BY <1>5, <2>5, AuthorizeAnswers
    <3>2. /\ \A j \in Responses' : j # b => j \in Responses
          /\ StringOf(Claims(b), "at_hash")' = s.id.atHash
          /\ ("at_hash" \in DOMAIN Claims(b))' <=> s.id.atHash # ""
          /\ StringOf(Claims(b), "c_hash")' = s.id.cHash
          /\ ("c_hash" \in DOMAIN Claims(b))' <=> s.id.cHash # ""
      BY <3>1, AnswerReads
    <3>3. /\ s.id.atHash = IF "token" \in f.types THEN b ELSE ""
          /\ s.id.cHash = IF Hybrid(f) THEN b ELSE ""
          /\ forms' = [forms EXCEPT ![b] = f]
      BY <1>5, Zenon DEF AuthorizedWith
    <3>4. forms'[b] = f
      BY <3>3 DEF TypeInv
    <3>5. b \in DOMAIN accessTokens' <=> "token" \in f.types
      <4>1. CASE "token" \in f.types
        <5>1. \E t : accessTokens' = Issued(accessTokens, b, t)
          BY <1>5, <4>1, Zenon DEF AuthorizedWith
        <5> QED
          BY <4>1, <5>1 DEF Issued
      <4>2. CASE "token" \notin f.types
        <5>1. accessTokens' = accessTokens
          BY <1>5, <4>2, Zenon DEF AuthorizedWith
        <5> QED
          BY <2>1, <4>2, <5>1
      <4> QED
        BY <4>1, <4>2
    <3>6. FrontHashes(b)'
      BY <3>2, <3>3, <3>4, <3>5, Zenon DEF FrontHashes
    <3>7. Front
      BY <1>2, <2>3, <3>2, <3>6, FrontKept
    <3>8. Back
      BY <1>2, <1>4, <3>2, HashKept
    <3> QED
      BY <3>7, <3>8
  <2> QED
    BY <2>4, <2>5
<1>6. ASSUME NEW k \in Calls, NEW a, NEW g, NEW s, IssuedWith(k, a, g, s) PROVE Front /\ Back
  <2>1. /\ accessTokens' = accessTokens /\ calls[k] # None /\ calls[k].step = "bound"
        /\ calls[k].req = a /\ Leaves(forms[a], forms[a].nonce, sessions[a].id, g)
    BY <1>6, Zenon DEF IssuedWith
  <2>2. CASE g.err # "nil"
    <3>1. idTokens' = idTokens
      BY <1>6, <2>2, Zenon DEF IssuedWith
    <3> QED
      BY <1>3, <2>1, <3>1
  <2>3. CASE g.err = "nil"
    <3>1. Answers(k, g.claims, forms[a])
      BY <1>2, <1>6, <2>3, IssueAnswers
    <3>2. /\ \A j \in Responses' : j # k => j \in Responses
          /\ StringOf(Claims(k), "at_hash")' = g.claims.atHash
      BY <3>1, AnswerReads
    <3>3. ASSUME (calls[k].parent # None \/ ~Contended(calls[k].req))'
          PROVE  StringOf(Claims(k), "at_hash")' = k
      <4>1. Exchanging(k, a)
        BY <2>1, ExchangingCall
      <4>2. calls'[k].req = a /\ calls'[k].parent = None
        BY <1>2, <4>1 DEF Keeps, Exchanging
      <4>3. ~Contended(a)'
        BY <3>3, <4>2, Zenon
      <4>4. ~Contended(a)
        BY <1>2, <4>3, ContendedKept
      <4>5. sessions[a].id.atHash = k
        BY <2>1, <4>4, Zenon DEF BoundInv
      <4> QED
        BY <2>1, <3>2, <4>5, Zenon DEF Leaves
    <3>4. Front
      BY <1>2, <1>4, <2>1, <3>2, FrontKept
    <3>5. Back
      BY <1>2, <3>2, <3>3, HashKept
    <3> QED
      BY <3>4, <3>5
  <2> QED
    BY <2>2, <2>3
<1>7. ASSUME NEW k \in Calls, NEW p \in Calls, NEW nonce \in Nonces, NEW s,
             RefreshedWith(k, p, nonce, s)
      PROVE  Front /\ Back
  <2>1. s.id.atHash = k /\ \E t : accessTokens' = Issued(accessTokens, k, t)
    BY <1>7, Zenon DEF RefreshedWith
  <2>2. Answers(k, s.id, forms[calls[p].req])
    BY <1>7, RefreshAnswers
  <2>3. /\ \A j \in Responses' : j # k => j \in Responses
        /\ StringOf(Claims(k), "at_hash")' = s.id.atHash
    BY <2>2, AnswerReads
  <2>4. \A a \in AuthReqs : a \in DOMAIN accessTokens' => a \in DOMAIN accessTokens
    BY <1>4, <2>1, IssuedAdds
  <2>5. Front
    BY <1>2, <1>4, <2>3, <2>4, FrontKept
  <2>6. Back
    BY <1>2, <2>1, <2>3, HashKept
  <2> QED
    BY <2>5, <2>6
<1>8. CASE Quiet
  <2>1. idTokens' = idTokens /\ \A a \in AuthReqs : a \in DOMAIN accessTokens' => a \in DOMAIN accessTokens
    BY <1>8, Zenon DEF Quiet
  <2> QED
    BY <1>3, <2>1
<1> QED
  BY <1>5, <1>6, <1>7, <1>8, StepIs

\* The OpenID Connect sessions that are gone.
LEMMA StepTaken ==
    ASSUME TypeInv, RequestsInv, CallsInv, TakenInv, IdNext
    PROVE  TakenInv'
<1> DEFINE Took(k, a) == Exchanging(k, a)' /\ calls'[k].step \in {"bound", "done", "failed"}
<1>1. Keeps
  BY StepKeeps
<1>2. SUFFICES ASSUME NEW a \in AuthReqs, oidcSessions'[a] = "deleted"
               PROVE  \E k \in Calls : Took(k, a)
  BY Zenon DEF TakenInv
<1>3. ASSUME oidcSessions[a] = "deleted" PROVE \E k \in Calls : Took(k, a)
  <2>1. PICK k \in Calls : Exchanging(k, a) /\ calls[k].step \in {"bound", "done", "failed"}
    BY <1>3 DEF TakenInv
  <2>2. Exchanging(k, a)'
    BY <1>1, <2>1, ExchangingKept
  <2>3. calls'[k].step \in {"bound", "done", "failed"}
    BY <1>1, <2>1 DEF Keeps, Exchanging
  <2> QED
    BY <2>2, <2>3
<1>4. ASSUME NEW b \in AuthReqs, NEW f \in Forms, NEW s \in SessionType, AuthorizedWith(b, f, s)
      PROVE  oidcSessions[a] = "deleted"
  <2>1. oidcSessions' = oidcSessions \/ oidcSessions' = [oidcSessions EXCEPT ![b] = "stored"]
    BY <1>4, Zenon DEF AuthorizedWith
  <2> QED
    BY <1>2, <2>1 DEF TypeInv
<1>5. ASSUME NEW k \in Calls, NEW b, NEW s, BoundWith(k, b, s) PROVE \E j \in Calls : Took(j, a)
  <2>1. /\ calls[k] # None /\ calls[k].step = "found" /\ calls[k].req = b /\ Moved(k, "bound")
        /\ oidcSessions' = [oidcSessions EXCEPT ![b] = "deleted"]
    BY <1>5, Zenon DEF BoundWith
  <2>2. CASE a = b
    <3>1. Exchanging(k, calls[k].req)
      BY <2>1, ExchangingCall
    <3>2. Exchanging(k, a)'
      BY <1>1, <2>1, <2>2, <3>1, ExchangingKept
    <3>3. calls'[k].step \in {"bound", "done", "failed"}
      BY <2>1 DEF Moved
    <3> QED
      BY <3>2, <3>3
  <2>3. CASE a # b
    <3>1. oidcSessions[a] = "deleted"
      BY <1>2, <2>1, <2>3 DEF TypeInv
    <3> QED
      BY <1>3, <3>1
  <2> QED
    BY <2>2, <2>3
<1> HIDE DEF Took
<1>6. ASSUME NEW k \in Calls, NEW b, NEW g, NEW s, IssuedWith(k, b, g, s)
      PROVE  oidcSessions[a] = "deleted"
  BY <1>2, <1>6, Zenon DEF IssuedWith
<1>7. ASSUME NEW k \in Calls, NEW p \in Calls, NEW nonce \in Nonces, NEW s,
             RefreshedWith(k, p, nonce, s)
      PROVE  oidcSessions[a] = "deleted"
  BY <1>2, <1>7, Zenon DEF RefreshedWith
<1>8. CASE Quiet
  <2>1. (\E k \in Calls : \E b, s : BoundWith(k, b, s)) \/ oidcSessions' = oidcSessions
    BY <1>8, Zenon DEF Quiet
  <2>2. oidcSessions' = oidcSessions => oidcSessions[a] = "deleted"
    BY <1>2
  <2> QED
    BY <1>3, <1>5, <2>1, <2>2, Zenon
<1> QED
  BY <1>3, <1>4, <1>6, <1>7, <1>8, StepIs

\* The exchanges that end.
LEMMA StepDone ==
    ASSUME TypeInv, RequestsInv, CallsInv, TakenInv, DoneInv, IdNext
    PROVE  DoneInv'
<1>1. Keeps /\ RequestsInv'
  BY StepKeeps, StepRequests
<1>2. SUFFICES ASSUME NEW k \in Calls, calls'[k] # None, calls'[k].parent = None,
                      calls'[k].step = "done", ~Contended(calls[k].req)'
               PROVE  k \in Responses'
  BY Zenon DEF DoneInv
<1>3. calls[k] # None => calls'[k].req = calls[k].req /\ calls[k].parent = None
  BY <1>1, <1>2 DEF Keeps
<1>4. \A r : r = calls'[k].req => ~Contended(r)
  <2>1. SUFFICES ASSUME NEW r, r = calls'[k].req PROVE ~Contended(r)
    OBVIOUS
  <2>2. ~Contended(r)'
    BY <1>2, <2>1, Zenon
  <2> QED
    BY <1>1, <2>2, ContendedKept
<1>5. ASSUME calls[k] # None, calls[k].step = "done" PROVE k \in Responses'
  <2>1. k \in Responses
    BY <1>3, <1>4, <1>5, Zenon DEF DoneInv
  <2> QED
    BY <1>1, <2>1 DEF Keeps, Responses
<1>6. calls'[k] = calls[k] => k \in Responses'
  BY <1>2, <1>5, Zenon
<1>7. ASSUME NEW b \in AuthReqs, NEW f \in Forms, NEW s \in SessionType, AuthorizedWith(b, f, s)
      PROVE  k \in Responses'
  BY <1>6, <1>7, Zenon DEF AuthorizedWith
<1>8. ASSUME NEW j \in Calls, NEW a, NEW g, NEW s, IssuedWith(j, a, g, s)
      PROVE  k \in Responses'
  <2>1. CASE j # k
    <3>1. calls'[k] = calls[k]
      BY <1>8, <2>1, Zenon DEF IssuedWith, Moved
    <3> QED
      BY <1>6, <3>1
  <2>2. CASE j = k
    <3>1. g.err = "nil"
      <4>1. g.err # "nil" => Moved(k, "failed")
        BY <1>8, <2>2, Zenon DEF IssuedWith
      <4>2. ~Moved(k, "failed")
        BY <1>2 DEF Moved
      <4> QED
        BY <4>1, <4>2
    <3>2. Answers(k, g.claims, forms[a])
      BY <1>1, <1>8, <2>2, <3>1, IssueAnswers
    <3> QED
      BY <3>2, AnswerReads
  <2> QED
    BY <2>1, <2>2
<1>9. ASSUME NEW j \in Calls, NEW p \in Calls, NEW nonce \in Nonces, NEW s,
             RefreshedWith(j, p, nonce, s)
      PROVE  k \in Responses'
  <2>1. CASE j # k
    <3>1. calls'[k] = calls[k]
      BY <1>9, <2>1, Zenon DEF RefreshedWith
    <3> QED
      BY <1>6, <3>1
  <2>2. CASE j = k
    <3>1. Answers(k, s.id, forms[calls[p].req])
      BY <1>9, <2>2, RefreshAnswers
    <3> QED
      BY <3>1, AnswerReads
  <2> QED
    BY <2>1, <2>2
<1>10. CASE Quiet
  <2>1. QuietCall(k)
    BY <1>2, <1>10, Zenon DEF Quiet
  <2>2. CASE calls[k] = None
    BY <1>2, <2>1, <2>2 DEF QuietCall
  <2>3. CASE calls[k] # None /\ calls[k].step = "done"
    BY <1>5, <2>3
  <2>4. CASE calls[k] # None /\ calls[k].step = "stored" /\ oidcSessions[calls[k].req] # "stored"
    <3>1. PICK a \in AuthReqs : a = calls[k].req
      BY <2>4, CallTypes
    <3>2. Exchanging(k, a)
      BY <2>4, <3>1, ExchangingCall
    <3>3. oidcSessions[a] = "deleted"
      <4>1. forms[a] # None /\ codes[a] # None
        BY <2>4, <3>1 DEF CallsInv
      <4>2. oidcSessions[a] # None
        BY <4>1 DEF RequestsInv
      <4> QED
        BY <2>4, <3>1, <4>2 DEF TypeInv
    <3>4. PICK j \in Calls : Exchanging(j, a) /\ calls[j].step \in {"bound", "done", "failed"}
      BY <3>3 DEF TakenInv
    <3>5. Contended(a)
      BY <2>4, <3>2, <3>4, TwoContend
    <3> QED
      BY <1>3, <1>4, <2>4, <3>1, <3>5, Zenon
  <2> QED
    BY <1>2, <2>1, <2>2, <2>3, <2>4, Zenon DEF QuietCall
<1> QED
  BY <1>7, <1>8, <1>9, <1>10, StepIs

\* The authentication of the front channel and of the exchanges.
LEMMA StepAuthentication ==
    ASSUME TypeInv, RequestsInv, CallsInv, IdTokensInv, AuthenticationInv, IdNext
    PROVE  AuthenticationInv'
<1>1. Keeps /\ RequestsInv'
  BY StepKeeps, StepRequests
<1>2. SUFFICES ASSUME NEW a \in AuthReqs, NEW i \in Responses',
                      i = a \/ (i \in Calls /\ Exchanging(i, a)')
               PROVE  Authenticated(i, a)'
  BY Zenon DEF AuthenticationInv
<1>3. \A k \in Calls : k \notin AuthReqs
  BY IdTokensAssumption, Zenon
<1>4. ASSUME i \in Responses PROVE Authenticated(i, a)'
  <2>1. i = a \/ (i \in Calls /\ Exchanging(i, a))
    <3>1. ASSUME i \in Calls, Exchanging(i, a)' PROVE Exchanging(i, a)
      <4>1. calls[i] # None /\ i \in DOMAIN accessTokens
        BY <1>3, <1>4, <3>1, ResponseIs
      <4>2. calls'[i].req = calls[i].req /\ calls'[i].parent = calls[i].parent
        BY <1>1, <3>1, <4>1 DEF Keeps
      <4> QED
        BY <3>1, <4>1, <4>2, Zenon DEF Exchanging
    <3> QED
      BY <1>2, <3>1
  <2>2. Authenticated(i, a)
    BY <1>4, <2>1 DEF AuthenticationInv
  <2>3. Request(i) = a
    BY <1>3, <2>1, Zenon DEF Request, Exchanging
  <2>4. forms[a] # None /\ TimeOf(Claims(i), "auth_time") # 0
    <3>1. forms[a] # None
      BY <1>4, <2>3, ResponseIs
    <3>2. IdTokenInv(i, forms[a])
      BY <1>4, <2>3 DEF IdTokensInv
    <3>3. TimeOf(Claims(i), "auth_time") \in Nat \ {0}
      BY <3>2, Zenon DEF IdTokenInv
    <3> QED
      BY <3>1, <3>3
  <2>5. Follows(a) /\ forms'[a] = forms[a]
    BY <2>4, StepFollows
  <2>6. idTokens'[i] = idTokens[i]
    BY <1>1, <1>4, ResponseKept
  <2> QED
    BY <2>2, <2>4, <2>5, <2>6, Zenon DEF Authenticated, Follows, Claims
<1>5. idTokens' = idTokens => Authenticated(i, a)'
  BY <1>4, Zenon DEF Responses
<1>6. ASSUME NEW b \in AuthReqs, NEW f \in Forms, NEW s \in SessionType, AuthorizedWith(b, f, s)
      PROVE  Authenticated(i, a)'
  <2>1. CASE "id_token" \notin f.types
    <3>1. idTokens' = idTokens
      BY <1>6, <2>1, Zenon DEF AuthorizedWith
    <3> QED
      BY <1>5, <3>1
  <2>2. CASE "id_token" \in f.types
    <3>1. Answers(b, s.id, f)
      BY <1>6, <2>2, AuthorizeAnswers
    <3>2. /\ i # b => i \in Responses
          /\ StringOf(Claims(b), "nonce")' = s.id.nonce
          /\ TimeOf(Claims(b), "auth_time")' = s.id.authTime
      BY <3>1, AnswerReads
    <3>3. CASE i = b
      <4>1. a = b
        BY <1>2, <1>3, <3>3
      <4>2. /\ forms' = [forms EXCEPT ![b] = f] /\ sessions' = [sessions EXCEPT ![b] = s]
            /\ s.id.nonce = f.nonce
        BY <1>6, <2>2, Zenon DEF AuthorizedWith
      <4>3. forms'[b] = f /\ sessions'[b] = s
        BY <4>2 DEF TypeInv, Issuers
      <4> QED
        BY <3>2, <3>3, <4>1, <4>2, <4>3, Zenon DEF Authenticated
    <3> QED
      BY <1>4, <3>2, <3>3
  <2> QED
    BY <2>1, <2>2
<1>7. ASSUME NEW k \in Calls, NEW b, NEW g, NEW s, IssuedWith(k, b, g, s)
      PROVE  Authenticated(i, a)'
  <2>1. CASE g.err # "nil"
    <3>1. idTokens' = idTokens
      BY <1>7, <2>1, Zenon DEF IssuedWith
    <3> QED
      BY <1>5, <3>1
  <2>2. CASE g.err = "nil"
    <3>1. Answers(k, g.claims, forms[b])
      BY <1>1, <1>7, <2>2, IssueAnswers
    <3>2. /\ i # k => i \in Responses
          /\ StringOf(Claims(k), "nonce")' = g.claims.nonce
          /\ TimeOf(Claims(k), "auth_time")' = g.claims.authTime
      BY <3>1, AnswerReads
    <3>3. CASE i = k
      <4>1. /\ calls[k] # None /\ calls[k].req = b /\ b \in AuthReqs /\ Moved(k, "done")
            /\ Leaves(forms[b], forms[b].nonce, sessions[b].id, g)
            /\ Wrote(b, s) /\ s.id = g.claims /\ forms' = forms
        BY <1>7, <2>2, Zenon DEF IssuedWith
      <4>2. a = b
        BY <1>2, <1>3, <3>3, <4>1, Zenon DEF Exchanging, Moved
      <4>3. sessions[b].id.nonce \in {"", forms[b].nonce}
        <5>1. forms[b] # None
          BY <4>1 DEF CallsInv
        <5> QED
          BY <4>1, <5>1 DEF RequestsInv
      <4>4. g.claims.nonce = IF forms[b].nonce = "" THEN sessions[b].id.nonce ELSE forms[b].nonce
        BY <2>2, <4>1, Zenon DEF Leaves
      <4>5. g.claims.nonce = forms[b].nonce
        BY <4>3, <4>4, Zenon
      <4> QED
        BY <3>2, <3>3, <4>1, <4>2, <4>5, Zenon DEF Authenticated, Wrote
    <3> QED
      BY <1>4, <3>2, <3>3
  <2> QED
    BY <2>1, <2>2
<1>8. ASSUME NEW k \in Calls, NEW p \in Calls, NEW nonce \in Nonces, NEW s,
             RefreshedWith(k, p, nonce, s)
      PROVE  Authenticated(i, a)'
  <2>1. Answers(k, s.id, forms[calls[p].req])
    BY <1>8, RefreshAnswers
  <2>2. i # k => i \in Responses
    BY <2>1, AnswerReads
  <2>3. i # k
    <3>1. calls'[k].parent = p /\ p # None
      BY <1>8, NothingAssumption, Zenon DEF RefreshedWith
    <3> QED
      BY <1>2, <1>3, <3>1, Zenon DEF Exchanging
  <2> QED
    BY <1>4, <2>2, <2>3
<1>9. CASE Quiet
  BY <1>5, <1>9, Zenon DEF Quiet
<1> QED
  BY <1>6, <1>7, <1>8, <1>9, StepIs

\* The authentication of the refresh calls.
LEMMA StepClones ==
    ASSUME TypeInv, RequestsInv, CallsInv, IdTokensInv, AuthenticationInv, ClonesInv, DoneInv,
           IdNext
    PROVE  ClonesInv'
<1>1. Keeps
  BY StepKeeps
<1>2. SUFFICES ASSUME NEW k \in Calls, calls'[k] # None, calls'[k].parent # None,
                      NEW a, a = calls'[k].req, ~Contended(a)'
               PROVE  CloneFits(k, a)'
  BY Zenon DEF ClonesInv
<1>3. ~Contended(a)
  BY <1>1, <1>2, ContendedKept
<1>4. NoNonces' => NoNonces
  BY <1>1 DEF Keeps, NoNonces
<1>5. ASSUME calls[k] # None PROVE CloneFits(k, a)'
  <2>1. calls[k].req = a /\ calls[k].parent # None /\ a \in AuthReqs
    BY <1>1, <1>2, <1>5, CallTypes DEF Keeps
  <2>2. CloneFits(k, a)
    BY <1>3, <1>5, <2>1, Zenon DEF ClonesInv
  <2>3. forms[a] # None /\ k \in Responses
    BY <1>5, <2>1 DEF CallsInv, RefreshInv, Responses
  <2>4. Follows(a) /\ forms'[a] = forms[a] /\ sessions'[k] = sessions[k]
    BY <1>5, <2>1, <2>3, StepFollows, StepStays
  <2>5. idTokens'[k] = idTokens[k]
    BY <1>1, <2>3, ResponseKept
  <2> QED
    BY <1>4, <2>2, <2>4, <2>5, Zenon DEF CloneFits, Follows, Claims
<1>6. calls'[k] = calls[k] => CloneFits(k, a)'
  BY <1>2, <1>5, Zenon
<1>7. ASSUME NEW b \in AuthReqs, NEW f \in Forms, NEW s \in SessionType, AuthorizedWith(b, f, s)
      PROVE  CloneFits(k, a)'
  BY <1>6, <1>7, Zenon DEF AuthorizedWith
<1>8. ASSUME NEW j \in Calls, NEW b, NEW g, NEW s, IssuedWith(j, b, g, s)
      PROVE  CloneFits(k, a)'
  <2>1. CASE j = k
    BY <1>5, <1>8, <2>1, Zenon DEF IssuedWith
  <2>2. CASE j # k
    BY <1>6, <1>8, <2>2, Zenon DEF IssuedWith, Moved
  <2> QED
    BY <2>1, <2>2
<1>9. ASSUME NEW j \in Calls, NEW p \in Calls, NEW nonce \in Nonces, NEW s,
             RefreshedWith(j, p, nonce, s)
      PROVE  CloneFits(k, a)'
  <2>1. CASE j # k
    BY <1>6, <1>9, <2>1, Zenon DEF RefreshedWith
  <2>2. CASE j = k
    <3>1. /\ calls[p] # None /\ calls[p].step = "done" /\ Wrote(k, s)
          /\ sessions[Session(p)].id.authTime # 0 =>
                s.id.authTime = sessions[Session(p)].id.authTime
          /\ s.id.nonce = IF nonce = "" THEN sessions[Session(p)].id.nonce ELSE nonce
          /\ calls'[k] # None /\ calls'[k].nonce = nonce /\ calls'[k].req = calls[p].req
          /\ forms' = forms
      BY <1>9, <2>2, Zenon DEF RefreshedWith
    <3>2. a = calls[p].req /\ a \in AuthReqs /\ forms[a] # None
      <4>1. a = calls[p].req
        BY <1>2, <3>1, Zenon
      <4> QED
        BY <3>1, <4>1, CallTypes DEF CallsInv
    <3>3. /\ sessions[a].id.authTime # 0
          /\ sessions[Session(p)].id.authTime = sessions[a].id.authTime
          /\ NoNonces => sessions[Session(p)].id.nonce = forms[a].nonce
      <4>1. CASE calls[p].parent = None
        <5>1. p \in Responses
          BY <1>3, <3>1, <3>2, <4>1, Zenon DEF DoneInv
        <5>2. p \notin AuthReqs
          BY IdTokensAssumption, Zenon
        <5>3. p \in DOMAIN accessTokens
          BY <5>1, <5>2, ResponseIs
        <5>4. Exchanging(p, a)
          BY <3>1, <3>2, <4>1, <5>3, Zenon DEF Exchanging
        <5>5. Authenticated(p, a)
          BY <3>2, <5>1, <5>4, Zenon DEF AuthenticationInv
        <5>6. TimeOf(Claims(p), "auth_time") \in Nat \ {0}
          <6>1. IdTokenInv(p, forms[Request(p)])
            BY <5>1 DEF IdTokensInv
          <6> QED
            BY <6>1, Zenon DEF IdTokenInv
        <5>7. TimeOf(Claims(p), "auth_time") # 0
          BY <5>6
        <5> QED
          BY <3>2, <4>1, <5>5, <5>7, Zenon DEF Authenticated, Session
      <4>2. CASE calls[p].parent # None
        <5>1. CloneFits(p, a)
          BY <1>3, <3>1, <3>2, <4>2, Zenon DEF ClonesInv
        <5> QED
          BY <4>2, <5>1, Zenon DEF CloneFits, Session
      <4> QED
        BY <4>1, <4>2
    <3>4. Follows(a)
      BY <3>2, StepFollows
    <3>5. Answers(k, s.id, forms[calls[p].req])
      BY <1>9, <2>2, RefreshAnswers
    <3>6. /\ StringOf(Claims(k), "nonce")' = s.id.nonce
          /\ TimeOf(Claims(k), "auth_time")' = s.id.authTime
      BY <3>5, AnswerReads
    <3>7. NoNonces' => NoNonces /\ s.id.nonce = forms[a].nonce
      <4>1. NoNonces' => nonce = ""
        BY <3>1, Zenon DEF NoNonces
      <4> QED
        BY <1>4, <3>1, <3>3, <4>1, Zenon
    <3>8. sessions'[k] = s /\ forms'[a] = forms[a]
      BY <3>1, Zenon DEF Wrote
    <3>9. sessions'[a].id.authTime = sessions[a].id.authTime
      BY <3>3, <3>4, Zenon DEF Follows
    <3>10. s.id.authTime = sessions[a].id.authTime
      BY <3>1, <3>3, Zenon
    <3> QED
      BY <3>3, <3>6, <3>7, <3>8, <3>9, <3>10, Zenon DEF CloneFits
  <2> QED
    BY <2>1, <2>2
<1>10. CASE Quiet
  <2>1. QuietCall(k)
    BY <1>2, <1>10, Zenon DEF Quiet
  <2> QED
    BY <1>2, <1>5, <2>1, Zenon DEF QuietCall
<1> QED
  BY <1>7, <1>8, <1>9, <1>10, StepIs

-----------------------------------------------------------------------------
(* The exchanges that fail.                                                *)

\* Without the time of an authentication a request with prompt gets no ID token.
LEMMA NoTimeNoToken ==
    ASSUME NEW f, NEW c, f.prompt # <<>>, c.authTime = 0
    PROVE  RequestError(f, c) # "nil"
  BY DEF RequestError

LEMMA PromptStays ==
    ASSUME TypeInv, RequestsInv, CallsInv, IdNext, NEW a \in AuthReqs,
           forms[a] # None, forms[a].prompt # <<>>, sessions[a].id.authTime = 0
    PROVE  sessions'[a].id.authTime = 0
<1>1. a \in Issuers /\ \A k \in Calls : k # a
  BY IdTokensAssumption, Zenon DEF Issuers
<1>2. sessions'[a] = sessions[a] => sessions'[a].id.authTime = 0
  BY Zenon
<1>3. ASSUME NEW b \in AuthReqs, NEW f \in Forms, NEW s \in SessionType, AuthorizedWith(b, f, s)
      PROVE  sessions'[a].id.authTime = 0
  <2>1. forms[b] = None /\ sessions' = [sessions EXCEPT ![b] = s]
    BY <1>3, Zenon DEF AuthorizedWith
  <2>2. sessions'[a] = sessions[a]
    BY <1>1, <2>1 DEF TypeInv
  <2> QED
    BY <1>2, <2>2
<1>4. ASSUME NEW k \in Calls, NEW b, NEW g, NEW s, IssuedWith(k, b, g, s)
      PROVE  sessions'[a].id.authTime = 0
  <2>1. /\ Wrote(b, s) /\ s.id = g.claims
        /\ Leaves(forms[b], forms[b].nonce, sessions[b].id, g)
    BY <1>4, Zenon DEF IssuedWith
  <2>2. CASE b # a
    BY <1>1, <1>2, <2>1, <2>2, Zenon DEF Wrote
  <2>3. CASE b = a
    <3>1. RequestError(forms[a], sessions[a].id) # "nil"
      BY NoTimeNoToken
    <3>2. g.err # "nil"
      BY <2>1, <2>3, <3>1, Zenon DEF Leaves
    <3> QED
      BY <2>1, <2>3, <3>2, Zenon DEF Leaves, Wrote
  <2> QED
    BY <2>2, <2>3
<1>5. ASSUME NEW k \in Calls, NEW p \in Calls, NEW nonce \in Nonces, NEW s,
             RefreshedWith(k, p, nonce, s)
      PROVE  sessions'[a].id.authTime = 0
  BY <1>1, <1>2, <1>5, Zenon DEF RefreshedWith, Wrote
<1>6. CASE Quiet
  BY <1>1, <1>6, Zenon DEF Quiet, SameID
<1> QED
  BY <1>3, <1>4, <1>5, <1>6, StepIs

LEMMA ExpiryKept ==
    ASSUME TypeInv, RequestsInv, CallsInv, IdNext, NEW a \in AuthReqs, forms[a] # None,
           ExpiryFrom(a), sessions'[a].id.exp = sessions[a].id.exp
    PROVE  ExpiryFrom(a)'
<1>1. Keeps
  BY StepKeeps
<1>2. forms'[a] = forms[a]
  BY <1>1 DEF Keeps
<1>3. ASSUME NEW i \in Responses, Request(i) = a, TimeOf(Claims(i), "exp") = sessions[a].id.exp
      PROVE  ExpiryFrom(a)'
  <2>1. i \in Responses' /\ idTokens'[i] = idTokens[i] /\ Request(i)' = a
    BY <1>1, <1>3, ResponseKept
  <2>2. TimeOf(Claims(i), "exp")' = sessions'[a].id.exp
    BY <1>3, <2>1, Zenon DEF Claims
  <2> QED
    BY <2>1, <2>2, Zenon DEF ExpiryFrom
<1>4. ASSUME forms[a].nonce = "short", NEW k \in Calls, Exchanging(k, a), Lost(k)
      PROVE  ExpiryFrom(a)'
  <2>1. Exchanging(k, a)' /\ Lost(k)'
    BY <1>1, <1>4, ExchangingKept
  <2> QED
    BY <1>2, <1>4, <2>1, Zenon DEF ExpiryFrom
<1>5. ASSUME forms[a].hint # None PROVE ExpiryFrom(a)'
  BY <1>2, <1>5, Zenon DEF ExpiryFrom
<1>6. ASSUME forms[a].prompt # <<>>, sessions[a].id.authTime = 0 PROVE ExpiryFrom(a)'
  <2>1. sessions'[a].id.authTime = 0
    BY <1>6, PromptStays
  <2> QED
    BY <1>2, <1>6, <2>1, Zenon DEF ExpiryFrom
<1> QED
  BY <1>3, <1>4, <1>5, <1>6, Zenon DEF ExpiryFrom

\* Why an ID token of an exchange is not generated.
LEMMA IssueFails ==
    ASSUME TypeInv, RequestsInv, CallsInv, NEW k \in Calls, NEW a, NEW g, NEW s,
           IssuedWith(k, a, g, s), g.err # "nil"
    PROVE  LET f == forms[a] IN
           \/ g.err = "ErrServerError" /\ f.hint # None
           \/ g.err = "ErrServerError" /\ f.prompt # <<>> /\ sessions[a].id.authTime = 0
           \/ g.err = "ErrServerError" /\ sessions[a].id.exp # 0 /\ sessions[a].id.exp < now
           \/ g.err = "ErrInsufficientEntropy" /\ f.nonce = "short"
<1>1. /\ calls[k] # None /\ calls[k].req = a /\ a \in AuthReqs
      /\ Leaves(forms[a], forms[a].nonce, sessions[a].id, g)
  BY Zenon DEF IssuedWith
<1>2. forms[a] # None /\ forms[a] \in Forms
  BY <1>1 DEF CallsInv, TypeInv
<1>3. Accepted(forms[a]) /\ Fits(sessions[a], forms[a])
  BY <1>1, <1>2 DEF RequestsInv
<1>4. sessions[a].id.sub # ""
  BY <1>3, Zenon DEF Fits
<1>5. sessions[a] \in SessionType
  BY <1>1 DEF TypeInv, Issuers
<1>6. RequestError(forms[a], sessions[a].id) # "nil" =>
          forms[a].hint # None \/ (forms[a].prompt # <<>> /\ sessions[a].id.authTime = 0)
  BY <1>2, <1>3, <1>5, RequestChecked
<1> QED
  BY <1>1, <1>4, <1>6, Zenon DEF Leaves

LEMMA StepExpiry ==
    ASSUME TypeInv, RequestsInv, CallsInv, ExpiryInv, IdNext
    PROVE  ExpiryInv'
<1>1. Keeps /\ RequestsInv'
  BY StepKeeps, StepRequests
<1>2. SUFFICES ASSUME NEW a \in AuthReqs, forms'[a] # None, sessions'[a].id.exp # 0
               PROVE  ExpiryFrom(a)'
  BY Zenon DEF ExpiryInv
<1>3. ASSUME forms[a] # None, sessions'[a].id.exp = sessions[a].id.exp PROVE ExpiryFrom(a)'
  <2>1. ExpiryFrom(a)
    BY <1>2, <1>3, Zenon DEF ExpiryInv
  <2> QED
    BY <1>3, <2>1, ExpiryKept
<1>4. a \in Issuers /\ \A k \in Calls : k \notin AuthReqs
  BY IdTokensAssumption, Zenon DEF Issuers
<1>5. ASSUME NEW b \in AuthReqs, NEW f \in Forms, NEW s \in SessionType, AuthorizedWith(b, f, s)
      PROVE  ExpiryFrom(a)'
  <2>1. forms' = [forms EXCEPT ![b] = f] /\ sessions' = [sessions EXCEPT ![b] = s]
    BY <1>5, Zenon DEF AuthorizedWith
  <2>2. CASE a # b
    <3>1. forms'[a] = forms[a] /\ sessions'[a] = sessions[a]
      BY <1>4, <2>1, <2>2 DEF TypeInv
    <3> QED
      BY <1>2, <1>3, <3>1, Zenon
  <2>3. CASE a = b
    <3>1. sessions'[a] = s
      BY <1>4, <2>1, <2>3 DEF TypeInv
    <3>2. "id_token" \in f.types
      BY <1>2, <1>5, <2>3, <3>1, Zenon DEF AuthorizedWith
    <3>3. Answers(a, s.id, f)
      BY <1>5, <2>3, <3>2, AuthorizeAnswers
    <3>4. a \in Responses' /\ TimeOf(Claims(a), "exp")' = s.id.exp
      BY <3>3, AnswerReads
    <3>5. Request(a)' = a
      BY Zenon DEF Request
    <3> QED
      BY <3>1, <3>4, <3>5, Zenon DEF ExpiryFrom
  <2> QED
    BY <2>2, <2>3
<1>6. ASSUME NEW k \in Calls, NEW b, NEW g, NEW s, IssuedWith(k, b, g, s)
      PROVE  ExpiryFrom(a)'
  <2>1. /\ calls[k] # None /\ calls[k].step = "bound" /\ calls[k].req = b /\ b \in AuthReqs
        /\ Wrote(b, s) /\ s.id = g.claims /\ forms' = forms
        /\ Leaves(forms[b], forms[b].nonce, sessions[b].id, g)
    BY <1>6, Zenon DEF IssuedWith
  <2>2. CASE a # b
    <3>1. sessions'[a] = sessions[a]
      BY <1>4, <2>1, <2>2, Zenon DEF Wrote
    <3> QED
      BY <1>2, <1>3, <2>1, <3>1, Zenon
  <2>3. CASE a = b /\ g.err = "nil"
    <3>1. Answers(k, g.claims, forms[b])
      BY <1>1, <1>6, <2>3, IssueAnswers
    <3>2. k \in Responses' /\ TimeOf(Claims(k), "exp")' = g.claims.exp
      BY <3>1, AnswerReads
    <3>3. Request(k)' = a
      <4>1. calls'[k].req = b
        BY <1>1, <2>1 DEF Keeps
      <4> QED
        BY <1>4, <2>3, <4>1, Zenon DEF Request
    <3>4. sessions'[a].id.exp = g.claims.exp
      BY <2>1, <2>3, Zenon DEF Wrote
    <3> QED
      BY <3>2, <3>3, <3>4, Zenon DEF ExpiryFrom
  <2>4. CASE a = b /\ g.err # "nil"
    <3>1. sessions'[a].id = g.claims /\ forms'[a] = forms[a]
      BY <2>1, <2>4, Zenon DEF Wrote
    <3>2. CASE sessions[a].id.exp # 0
      <4>1. g.claims.exp = sessions[a].id.exp
        BY <2>1, <2>4, <3>2, Zenon DEF Leaves
      <4> QED
        BY <1>2, <1>3, <2>1, <3>1, <4>1, Zenon
    <3>3. CASE sessions[a].id.exp = 0
      <4>1. \/ forms[a].hint # None
            \/ forms[a].prompt # <<>> /\ sessions[a].id.authTime = 0
            \/ forms[a].nonce = "short"
        BY <1>6, <2>4, <3>3, IssueFails
      <4>2. forms[a].hint # None => ExpiryFrom(a)'
        BY <3>1, Zenon DEF ExpiryFrom
      <4>3. ASSUME forms[a].prompt # <<>>, sessions[a].id.authTime = 0 PROVE ExpiryFrom(a)'
        <5>1. g.claims.authTime = sessions[a].id.authTime
          BY <2>1, <2>4, Zenon DEF Leaves
        <5> QED
          BY <3>1, <4>3, <5>1, Zenon DEF ExpiryFrom
      <4>4. ASSUME forms[a].nonce = "short" PROVE ExpiryFrom(a)'
        <5>1. Exchanging(k, a)
          BY <2>1, <2>4, ExchangingCall
        <5>2. Exchanging(k, a)'
          BY <1>1, <5>1, ExchangingKept
        <5>3. calls'[k].step = "failed"
          BY <1>6, <2>4, Zenon DEF IssuedWith, Moved
        <5>4. Lost(k)'
          BY <5>2, <5>3, Zenon DEF Lost, Exchanging
        <5> QED
          BY <3>1, <4>4, <5>2, <5>4, Zenon DEF ExpiryFrom
      <4> QED
        BY <4>1, <4>2, <4>3, <4>4
    <3> QED
      BY <3>2, <3>3
  <2> QED
    BY <2>2, <2>3, <2>4
<1>7. ASSUME NEW k \in Calls, NEW p \in Calls, NEW nonce \in Nonces, NEW s,
             RefreshedWith(k, p, nonce, s)
      PROVE  ExpiryFrom(a)'
  <2>1. forms' = forms /\ Wrote(k, s)
    BY <1>7, Zenon DEF RefreshedWith
  <2>2. sessions'[a] = sessions[a]
    BY <1>4, <2>1, Zenon DEF Wrote
  <2> QED
    BY <1>2, <1>3, <2>1, <2>2, Zenon
<1>8. CASE Quiet
  <2>1. forms' = forms /\ sessions'[a].id.exp = sessions[a].id.exp
    BY <1>4, <1>8, Zenon DEF Quiet, SameID
  <2> QED
    BY <1>2, <1>3, <2>1, Zenon
<1> QED
  BY <1>5, <1>6, <1>7, <1>8, StepIs

LEMMA LostKept ==
    ASSUME TypeInv, RequestsInv, CallsInv, IdTokensInv, IdNext, NEW k \in Calls, Lost(k),
           NEW a \in AuthReqs, a = calls[k].req, LostFor(k, a)
    PROVE  LostFor(k, a)'
<1>1. Keeps
  BY StepKeeps
<1>2. calls'[k] = calls[k] /\ calls[k] # None
  BY <1>1, Zenon DEF Keeps, Lost
<1>3. forms[a] # None
  BY <1>2 DEF CallsInv
<1>4. forms'[a] = forms[a]
  BY <1>1, <1>3 DEF Keeps
<1>5. ASSUME NEW i \in Responses, Request(i) = a, TimeOf(Claims(i), "exp") < now,
             calls[k].err = "ErrServerError"
      PROVE  LostFor(k, a)'
  <2>1. i \in Responses' /\ idTokens'[i] = idTokens[i] /\ Request(i)' = a
    BY <1>1, <1>5, ResponseKept
  <2>2. TimeOf(Claims(i), "exp") \in Nat
    BY <1>5, Zenon DEF IdTokensInv, IdTokenInv
  <2>3. TimeOf(Claims(i), "exp") < now'
    <3>1. now \in Nat /\ now' \in Nat /\ now' >= now
      BY <1>1, Zenon DEF Keeps
    <3> QED
      BY <1>5, <2>2, <3>1
  <2>4. (TimeOf(Claims(i), "exp") < now)'
    BY <2>1, <2>3, Zenon DEF Claims
  <2> QED
    BY <1>2, <1>5, <2>1, <2>4, Zenon DEF LostFor
<1>6. Contended(a) => Contended(a)'
  BY <1>1, ContendedKept
<1>7. forms[a].prompt # <<>> /\ sessions[a].id.authTime = 0 => sessions'[a].id.authTime = 0
  BY <1>3, PromptStays
<1> QED
  BY <1>2, <1>4, <1>5, <1>6, <1>7, Zenon DEF LostFor

\* What is lost in a step that answers nobody was lost before.
LEMMA QuietLoses ==
    ASSUME Quiet, NEW k \in Calls, Lost(k)'
    PROVE  Lost(k)
<1>1. calls'[k] # None /\ k \in DOMAIN accessTokens' /\ calls'[k].step = "failed"
  BY Zenon DEF Lost
<1>2. QuietCall(k)
  BY <1>1, Zenon DEF Quiet
<1>3. CASE calls[k] = None
  <2>1. k \notin DOMAIN accessTokens'
    BY <1>2, <1>3, Zenon DEF QuietCall
  <2> QED
    BY <1>1, <2>1
<1>4. CASE calls[k] # None
  BY <1>1, <1>2, <1>4, Zenon DEF QuietCall, Lost
<1> QED
  BY <1>3, <1>4

LEMMA StepLost ==
    ASSUME TypeInv, RequestsInv, CallsInv, IdTokensInv, ExpiryInv, LostInv, IdNext
    PROVE  LostInv'
<1>1. Keeps
  BY StepKeeps
<1>2. SUFFICES ASSUME NEW k \in Calls, Lost(k)' PROVE LostFor(k, calls[k].req)'
  BY Zenon DEF LostInv
<1>3. ASSUME Lost(k) PROVE LostFor(k, calls[k].req)'
  <2>1. PICK a \in AuthReqs : a = calls[k].req /\ a = calls'[k].req
    <3>1. calls'[k] = calls[k] /\ calls[k].req \in AuthReqs
      BY <1>1, <1>3, CallTypes, Zenon DEF Keeps, Lost
    <3> QED
      BY <3>1, Zenon
  <2>2. LostFor(k, a)
    BY <1>3, <2>1, Zenon DEF LostInv
  <2>3. LostFor(k, a)'
    BY <1>3, <2>1, <2>2, LostKept
  <2> QED
    BY <2>1, <2>3, Zenon
<1>4. calls'[k] # None /\ k \in DOMAIN accessTokens' /\ calls'[k].step = "failed"
  BY <1>2, Zenon DEF Lost
<1>5. ASSUME NEW b \in AuthReqs, NEW f \in Forms, NEW s \in SessionType, AuthorizedWith(b, f, s)
      PROVE  LostFor(k, calls[k].req)'
  <2>1. calls' = calls
    BY <1>5, Zenon DEF AuthorizedWith
  <2>2. k \in DOMAIN accessTokens
    <3>1. k # b
      BY IdTokensAssumption
    <3>2. CASE "token" \in f.types
      <4>1. PICK token : accessTokens' = Issued(accessTokens, b, token)
        BY <1>5, <3>2, Zenon DEF AuthorizedWith
      <4> QED
        BY <1>4, <3>1, <4>1, IssuedAdds
    <3>3. CASE "token" \notin f.types
      BY <1>4, <1>5, <3>3, Zenon DEF AuthorizedWith
    <3> QED
      BY <3>2, <3>3
  <2>3. Lost(k)
    BY <1>4, <2>1, <2>2, Zenon DEF Lost
  <2> QED
    BY <1>3, <2>3
<1>6. ASSUME NEW j \in Calls, NEW a, NEW g, NEW s, IssuedWith(j, a, g, s)
      PROVE  LostFor(k, calls[k].req)'
  <2>1. /\ calls[j] # None /\ calls[j].step = "bound" /\ calls[j].req = a /\ a \in AuthReqs
        /\ Wrote(a, s) /\ s.id = g.claims /\ forms' = forms /\ accessTokens' = accessTokens
        /\ now' = now /\ Leaves(forms[a], forms[a].nonce, sessions[a].id, g)
    BY <1>6, Zenon DEF IssuedWith
  <2>2. CASE k # j
    <3>1. calls'[k] = calls[k]
      BY <1>6, <2>2, Zenon DEF IssuedWith, Moved
    <3>2. Lost(k)
      BY <1>4, <2>1, <3>1, Zenon DEF Lost
    <3> QED
      BY <1>3, <3>2
  <2>3. CASE k = j
    <3>1. g.err # "nil" /\ calls'[k].err = g.err /\ idTokens' = idTokens
      <4>1. g.err = "nil" => calls'[k].step = "done"
        BY <1>6, <2>3, Zenon DEF IssuedWith, Moved
      <4>2. g.err # "nil"
        BY <1>4, <4>1
      <4> QED
        BY <1>6, <2>3, <4>2, Zenon DEF IssuedWith
    <3>2. calls'[k].req = a
      BY <1>1, <2>1, <2>3, Zenon DEF Keeps
    <3>3. Exchanging(k, a)
      BY <2>1, <2>3, ExchangingCall
    <3>4. forms[a] # None /\ forms[a] \in Forms
      BY <2>1 DEF CallsInv, TypeInv
    <3>5. calls'[k].err = "ErrServerError" /\ forms[a].hint # None => LostFor(k, a)'
      BY <2>1, Zenon DEF LostFor
    <3>6. ASSUME calls'[k].err = "ErrServerError", forms[a].prompt # <<>>,
                 sessions[a].id.authTime = 0
          PROVE  LostFor(k, a)'
      <4>1. sessions'[a].id.authTime = 0
        BY <2>1, <3>4, <3>6, PromptStays
      <4> QED
        BY <2>1, <3>6, <4>1, Zenon DEF LostFor
    <3>7. ASSUME calls'[k].err = "ErrServerError", sessions[a].id.exp # 0,
                 sessions[a].id.exp < now
          PROVE  LostFor(k, a)'
      <4>1. ExpiryFrom(a)
        BY <2>1, <3>4, <3>7, Zenon DEF ExpiryInv
      <4>2. ASSUME NEW i \in Responses, Request(i) = a,
                   TimeOf(Claims(i), "exp") = sessions[a].id.exp
            PROVE  LostFor(k, a)'
        <5>1. i \in Responses' /\ idTokens'[i] = idTokens[i] /\ Request(i)' = a
          BY <1>1, <4>2, ResponseKept
        <5>2. (TimeOf(Claims(i), "exp") < now)'
          BY <2>1, <3>7, <4>2, <5>1, Zenon DEF Claims
        <5> QED
          BY <3>7, <5>1, <5>2, Zenon DEF LostFor
      <4>3. ASSUME forms[a].nonce = "short", NEW i \in Calls, Exchanging(i, a), Lost(i)
            PROVE  LostFor(k, a)'
        <5>1. calls[k].step # "failed"
          BY <2>1, <2>3
        <5>2. i # k
          BY <4>3, <5>1, Zenon DEF Lost
        <5>3. Contended(a)
          BY <3>3, <4>3, <5>2, TwoContend
        <5>4. Contended(a)'
          BY <1>1, <5>3, ContendedKept
        <5> QED
          BY <2>1, <3>7, <4>3, <5>4, Zenon DEF LostFor
      <4> QED
        BY <3>5, <3>6, <3>7, <4>1, <4>2, <4>3, Zenon DEF ExpiryFrom
    <3>8. ASSUME calls'[k].err = "ErrInsufficientEntropy", forms[a].nonce = "short"
          PROVE  LostFor(k, a)'
      <4>1. forms[a].types = {"code"}
        <5>1. Accepted(forms[a])
          BY <2>1, <3>4, Zenon DEF RequestsInv
        <5> QED
          BY <3>8, <5>1, Zenon DEF Accepted
      <4> QED
        BY <2>1, <3>8, <4>1, Zenon DEF LostFor
    <3>9. LostFor(k, a)'
      BY <1>6, <2>3, <3>1, <3>5, <3>6, <3>7, <3>8, IssueFails
    <3> QED
      BY <3>2, <3>9, Zenon
  <2> QED
    BY <2>2, <2>3
<1>7. ASSUME NEW j \in Calls, NEW p \in Calls, NEW nonce \in Nonces, NEW s,
             RefreshedWith(j, p, nonce, s)
      PROVE  LostFor(k, calls[k].req)'
  <2>1. calls'[j].step = "done" /\ \A i \in Calls : i # j => calls'[i] = calls[i]
    BY <1>7, Zenon DEF RefreshedWith
  <2>2. k # j
    BY <1>4, <2>1
  <2>3. k \in DOMAIN accessTokens
    <3>1. PICK token : accessTokens' = Issued(accessTokens, j, token)
      BY <1>7, Zenon DEF RefreshedWith
    <3> QED
      BY <1>4, <2>2, <3>1, IssuedAdds
  <2>4. Lost(k)
    BY <1>4, <2>1, <2>2, <2>3, Zenon DEF Lost
  <2> QED
    BY <1>3, <2>4
<1>8. CASE Quiet
  BY <1>2, <1>3, <1>8, QuietLoses
<1> QED
  BY <1>5, <1>6, <1>7, <1>8, StepIs

-----------------------------------------------------------------------------
(* The invariant.                                                          *)

LEMMA InitInvariant ==
    ASSUME IdInit
    PROVE  Invariant
<1>1. /\ DOMAIN accessTokens = {} /\ DOMAIN idTokens = {} /\ Responses = {}
  BY DEF IdInit, Responses
<1>2. /\ \A a \in AuthReqs : forms[a] = None /\ codes[a] = None /\ oidcSessions[a] = None
      /\ \A k \in Calls : calls[k] = None
  BY DEF IdInit
<1>3. TypeInv
  <2>1. now \in 1..MaxTime /\ \E n \in 1..Len(KeyPairs) : pair = KeyPairs[n]
    <3>1. MaxTime \in Nat \ {0}
      BY IdTokensAssumption, Zenon
    <3>2. KeyPairs \in Seq(Range(KeyPairs)) /\ Len(KeyPairs) > 0
      BY IdTokensAssumption, Zenon
    <3>3. Len(KeyPairs) \in Nat
      BY <3>2, LenProperties
    <3> QED
      BY <3>1, <3>2, <3>3 DEF IdInit
  <2>2. NewSession \in SessionType
    BY NewClaims DEF NewSession, SessionType
  <2>3. sessions \in [Issuers -> SessionType]
    BY <2>2, Zenon DEF IdInit
  <2>4. /\ forms \in [AuthReqs -> Forms \union {None}]
        /\ codes \in [AuthReqs -> {None, "active", "used"}]
        /\ oidcSessions \in [AuthReqs -> {None, "stored", "deleted"}]
        /\ calls \in [Calls -> Call \union {None}]
    BY DEF IdInit
  <2> QED
    BY <1>1, <2>1, <2>3, <2>4, Zenon DEF TypeInv
<1>4. RequestsInv /\ CallsInv
  BY <1>1, <1>2, Zenon DEF RequestsInv, CallsInv
<1>5. AccessTokensInv /\ IdTokensInv
  BY <1>1, Zenon DEF AccessTokensInv, IdTokensInv
<1>6. BoundInv /\ ClonesInv /\ DoneInv
  BY <1>2, Zenon DEF BoundInv, ClonesInv, DoneInv
<1>7. HashesInv /\ AuthenticationInv
  BY <1>1, Zenon DEF HashesInv, AuthenticationInv
<1>8. TakenInv
  BY <1>2, NothingAssumption DEF TakenInv
<1>9. ExpiryInv /\ LostInv
  BY <1>2, Zenon DEF ExpiryInv, LostInv, Lost
<1> QED
  BY <1>3, <1>4, <1>5, <1>6, <1>7, <1>8, <1>9 DEF Invariant

LEMMA StepInvariant ==
    ASSUME Invariant, IdNext
    PROVE  Invariant'
<1>1. /\ TypeInv /\ RequestsInv /\ CallsInv /\ AccessTokensInv /\ IdTokensInv /\ BoundInv
      /\ HashesInv /\ TakenInv /\ AuthenticationInv /\ ClonesInv /\ DoneInv /\ ExpiryInv
      /\ LostInv
  BY DEF Invariant
<1>2. TypeInv' /\ RequestsInv' /\ CallsInv' /\ AccessTokensInv' /\ IdTokensInv'
  BY <1>1, StepTypes, StepRequests, StepCalls, StepAccessTokens, StepIdTokens
<1>3. BoundInv' /\ HashesInv' /\ TakenInv' /\ DoneInv'
  BY <1>1, StepBound, StepHashes, StepTaken, StepDone
<1>4. AuthenticationInv' /\ ClonesInv' /\ ExpiryInv' /\ LostInv'
  BY <1>1, StepAuthentication, StepClones, StepExpiry, StepLost
<1> QED
  BY <1>2, <1>3, <1>4 DEF Invariant

LEMMA StutterInvariant ==
    ASSUME Invariant, UNCHANGED vars
    PROVE  Invariant'
<1>1. /\ now' = now /\ pair' = pair /\ forms' = forms /\ sessions' = sessions
      /\ codes' = codes /\ oidcSessions' = oidcSessions /\ calls' = calls
      /\ accessTokens' = accessTokens /\ idTokens' = idTokens
  BY DEF vars
<1>2. TypeInv'
  BY <1>1, Zenon DEF Invariant, TypeInv
<1>3. RequestsInv' /\ CallsInv'
  BY <1>1, Zenon DEF Invariant, RequestsInv, CallsInv, Fits, ExchangeInv, RefreshInv
<1>4. AccessTokensInv' /\ IdTokensInv'
  BY <1>1, Zenon DEF Invariant, AccessTokensInv, IdTokensInv, IdTokenInv, Responses, Request, Claims
<1>5. BoundInv' /\ DoneInv'
  BY <1>1 DEF Invariant, BoundInv, DoneInv, Contended, Responses
<1>6. HashesInv'
  BY <1>1 DEF Invariant, HashesInv, FrontHashes, Contended, Responses, Claims
<1>7. TakenInv' /\ AuthenticationInv'
  BY <1>1 DEF Invariant, TakenInv, AuthenticationInv, Authenticated, Exchanging, Responses, Claims
<1>8. ClonesInv'
  <2>1. SUFFICES ASSUME NEW k \in Calls, calls'[k] # None, calls'[k].parent # None,
                        ~Contended(calls[k].req)'
                 PROVE  CloneFits(k, calls[k].req)'
    BY Zenon DEF ClonesInv
  <2>2. PICK a : a = calls[k].req /\ a = calls'[k].req
    BY <1>1, Zenon
  <2>3. ~Contended(a)'
    BY <2>1, <2>2, Zenon
  <2>4. ~Contended(a)
    BY <1>1, <2>3 DEF Contended
  <2>5. CloneFits(k, a)
    BY <1>1, <2>1, <2>2, <2>4, Zenon DEF Invariant, ClonesInv
  <2>6. CloneFits(k, a)'
    BY <1>1, <2>5, Zenon DEF CloneFits, Claims, NoNonces
  <2> QED
    BY <2>2, <2>6, Zenon
<1>9. ExpiryInv'
  BY <1>1 DEF Invariant, ExpiryInv, ExpiryFrom, Lost, Exchanging, Responses, Request, Claims
<1>10. LostInv'
  BY <1>1 DEF Invariant, LostInv, LostFor, Lost, Contended, Responses, Request, Claims
<1> QED
  BY <1>2, <1>3, <1>4, <1>5, <1>6, <1>7, <1>8, <1>9, <1>10 DEF Invariant

\* The inductive invariant holds in every state that the handlers reach.
THEOREM IdInvariant == IdSpec => []Invariant
<1>1. IdInit => Invariant
  BY InitInvariant
<1>2. Invariant /\ [IdNext]_vars => Invariant'
  BY StepInvariant, StutterInvariant
<1> QED
  BY <1>1, <1>2, PTL DEF IdSpec

\* Types, and the order of an exchange (IdTypeOK).
THEOREM IdTypes == IdSpec => []IdTypeOK
<1>1. Invariant => IdTypeOK
  <2> SUFFICES ASSUME Invariant PROVE IdTypeOK
    OBVIOUS
  <2>1. TypeInv /\ CallsInv
    BY DEF Invariant
  <2>2. ASSUME NEW k \in Calls, calls[k] # None
        PROVE  /\ calls[k].step \in {"stored", "found", "bound", "done"} =>
                      codes[calls[k].req] = "used" /\ k \in DOMAIN accessTokens
               /\ k \in DOMAIN idTokens => calls[k].step = "done"
    BY <2>1, <2>2 DEF CallsInv, ExchangeInv, RefreshInv
  <2>3. ASSUME NEW k \in Calls, calls[k] # None
        PROVE  /\ calls[k].req \in AuthReqs /\ calls[k].step \in Steps
               /\ calls[k].parent \in Calls \union {None}
    BY <2>1, <2>3, CallTypes
  <2>4. /\ now \in 1..MaxTime /\ \E n \in 1..Len(KeyPairs) : pair = KeyPairs[n]
        /\ \A a \in AuthReqs : /\ forms[a] \in Forms \union {None}
                               /\ codes[a] \in {None, "active", "used"}
                               /\ oidcSessions[a] \in {None, "stored", "deleted"}
    BY <2>1, Zenon DEF TypeInv
  <2> QED
    BY <2>2, <2>3, <2>4, Zenon DEF IdTypeOK
<1> QED
  BY <1>1, IdInvariant, PTL

\* at_hash and c_hash of an ID token are those of the response it is in, although
\* both are kept in a session that the responses of a grant share
\* (IdTokenMatchesResponse).
THEOREM IdTokenHashes == IdSpec => []IdTokenMatchesResponse
<1>1. Invariant => IdTokenMatchesResponse
  <2> SUFFICES ASSUME Invariant, NEW i \in Responses
               PROVE  /\ i \in AuthReqs \/ calls[i].parent # None \/ ~Contended(Request(i)) =>
                            IF i \in DOMAIN accessTokens THEN StringOf(Claims(i), "at_hash") = i
                            ELSE "at_hash" \notin DOMAIN Claims(i)
                      /\ i \in AuthReqs =>
                            IF Hybrid(forms[i]) THEN StringOf(Claims(i), "c_hash") = i
                            ELSE "c_hash" \notin DOMAIN Claims(i)
                      /\ \A j \in Responses \ {i} : Claims(i)["jti"] # Claims(j)["jti"]
    BY Zenon DEF IdTokenMatchesResponse
  <2>1. TypeInv /\ RequestsInv /\ CallsInv /\ IdTokensInv /\ HashesInv
    BY DEF Invariant
  <2>2. i \notin AuthReqs => /\ i \in Calls /\ calls[i] # None /\ i \in DOMAIN accessTokens
                             /\ Request(i) = calls[i].req
    BY <2>1, ResponseIs
  <2>3. i \in AuthReqs => FrontHashes(i)
    BY <2>1, Zenon DEF HashesInv
  <2>4. (i \notin AuthReqs /\ (calls[i].parent # None \/ ~Contended(Request(i)))) =>
            StringOf(Claims(i), "at_hash") = i
    BY <2>1, <2>2, Zenon DEF HashesInv
  <2>5. ASSUME NEW j \in Responses \ {i} PROVE Claims(i)["jti"] # Claims(j)["jti"]
    <3>1. Claims(i)["jti"] = String(i) /\ Claims(j)["jti"] = String(j)
      BY <2>1, Zenon DEF IdTokensInv, IdTokenInv
    <3>2. String(i) # String(j)
      BY DEF String
    <3> QED
      BY <3>1, <3>2
  <2> QED
    BY <2>2, <2>3, <2>4, <2>5, Zenon DEF FrontHashes
<1> QED
  BY <1>1, IdInvariant, PTL

\* All ID tokens of a grant are about one authentication: subject, time and nonce
\* (SameAuthentication).
THEOREM OneAuthentication == IdSpec => []SameAuthentication
<1>1. Invariant => SameAuthentication
  <2> SUFFICES ASSUME Invariant PROVE SameAuthentication
    OBVIOUS
  <2>1. /\ TypeInv /\ RequestsInv /\ CallsInv /\ IdTokensInv /\ AuthenticationInv /\ ClonesInv
    BY DEF Invariant
  <2>2. ASSUME NEW i \in Responses, NEW a, a = Request(i), ~Contended(a)
        PROVE  /\ TimeOf(Claims(i), "auth_time") = sessions[a].id.authTime
               /\ NoNonces => StringOf(Claims(i), "nonce") = forms[a].nonce
    <3>1. /\ a \in AuthReqs /\ (i \in AuthReqs => a = i)
          /\ i \notin AuthReqs => /\ i \in Calls /\ calls[i] # None
                                  /\ i \in DOMAIN accessTokens /\ a = calls[i].req
      BY <2>1, <2>2, ResponseIs
    <3>2. CASE i \in AuthReqs \/ calls[i].parent = None
      <4>1. i = a \/ (i \in Calls /\ Exchanging(i, a))
        BY <3>1, <3>2, Zenon DEF Exchanging
      <4>2. Authenticated(i, a)
        BY <2>1, <3>1, <4>1, Zenon DEF AuthenticationInv
      <4> QED
        BY <4>2, Zenon DEF Authenticated
    <3>3. CASE ~(i \in AuthReqs \/ calls[i].parent = None)
      <4>1. CloneFits(i, a)
        BY <2>1, <2>2, <3>1, <3>3, Zenon DEF ClonesInv
      <4> QED
        BY <4>1, Zenon DEF CloneFits
    <3> QED
      BY <3>2, <3>3
  <2>3. ASSUME NEW i \in Responses
        PROVE  /\ Claims(i)["sub"] = String(Subject)
               /\ Claims(i)["auth_time"] = Int64(TimeOf(Claims(i), "auth_time"))
    BY <2>1, Zenon DEF IdTokensInv, IdTokenInv
  <2>4. ASSUME NEW i \in Responses, NEW j \in Responses, Request(i) = Request(j),
               ~Contended(Request(i))
        PROVE  /\ Claims(i)["sub"] = Claims(j)["sub"]
               /\ Claims(i)["auth_time"] = Claims(j)["auth_time"]
               /\ Claims(i)["sub"] = String(Subject)
               /\ NoNonces => StringOf(Claims(i), "nonce") = forms[Request(i)].nonce
    <3>1. /\ TimeOf(Claims(i), "auth_time") = sessions[Request(i)].id.authTime
          /\ TimeOf(Claims(j), "auth_time") = sessions[Request(i)].id.authTime
          /\ NoNonces => StringOf(Claims(i), "nonce") = forms[Request(i)].nonce
      BY <2>2, <2>4, Zenon
    <3> QED
      BY <2>3, <3>1, Zenon
  <2> QED
    BY <2>4, Zenon DEF SameAuthentication, NoNonces
<1> QED
  BY <1>1, IdInvariant, PTL

\* An ID token has not expired when it is issued, and the authentication fits
\* what the request asked for (IdTokenValidWhenIssued).
THEOREM IdTokensValid == IdSpec => []IdTokenValidWhenIssued
<1>1. Invariant => IdTokenValidWhenIssued
  <2> SUFFICES ASSUME Invariant PROVE IdTokenValidWhenIssued
    OBVIOUS
  <2>1. TypeInv /\ RequestsInv /\ CallsInv /\ IdTokensInv
    BY DEF Invariant
  <2>2. ASSUME NEW i \in Responses, NEW f, f = forms[Request(i)],
               NEW time, time = TimeOf(Claims(i), "auth_time"),
               NEW rat, rat = TimeOf(Claims(i), "rat")
        PROVE  /\ TimeOf(Claims(i), "exp") >= idTokens[i].at
               /\ TimeOf(Claims(i), "iat") = idTokens[i].at
               /\ f.maxAge > 0 => time + f.maxAge >= rat
               /\ Has(f.prompt, "login") => time >= rat
               /\ Has(f.prompt, "none") => time <= rat
    <3>1. IdTokenInv(i, f)
      BY <2>1, <2>2, Zenon DEF IdTokensInv
    <3>2. /\ TimeOf(Claims(i), "exp") >= idTokens[i].at
          /\ TimeOf(Claims(i), "iat") = idTokens[i].at
          /\ rat = f.rat /\ (f.authTime # 0 => time = f.authTime) /\ time \in Nat
      BY <2>2, <3>1, Zenon DEF IdTokenInv
    <3>3. Accepted(f) /\ f \in Forms
      <4>1. Request(i) \in AuthReqs /\ forms[Request(i)] # None
        BY <2>1, ResponseIs
      <4>2. forms[Request(i)] \in Forms
        BY <2>1, <4>1 DEF TypeInv
      <4> QED
        BY <2>1, <2>2, <4>1, <4>2, Zenon DEF RequestsInv
    <3>4. /\ f.maxAge > 0 => f.authTime # 0 /\ f.authTime + f.maxAge >= f.rat
          /\ Has(f.prompt, "login") => f.authTime >= f.rat
          /\ Has(f.prompt, "none") => f.authTime # 0 /\ f.authTime <= f.rat
      BY <3>3, Zenon DEF Accepted
    <3>5. f.authTime \in Nat /\ f.rat \in Nat
      BY <3>3, FormTypes
    <3>6. Has(f.prompt, "login") => time >= rat
      BY <3>2, <3>4, <3>5
    <3> QED
      BY <3>2, <3>4, <3>6, Zenon
  <2> QED
    BY <2>2, Zenon DEF IdTokenValidWhenIssued
<1> QED
  BY <1>1, IdInvariant, PTL

\* An exchange that has used up its code fails only for the reasons named in
\* CodeLostOnlyFor.
THEOREM CodeLost == IdSpec => []CodeLostOnlyFor
<1>1. Invariant => CodeLostOnlyFor
  <2> SUFFICES ASSUME Invariant, NEW k \in Calls, calls[k] # None, k \in DOMAIN accessTokens,
                      calls[k].step = "failed", NEW a, a = calls[k].req, NEW f, f = forms[a]
               PROVE  \/ calls[k].err = "ErrInsufficientEntropy" /\ f.types = {"code"}
                      \/ /\ calls[k].err = "ErrServerError"
                         /\ \/ \E i \in Responses \ {k} : /\ Request(i) = Request(k)
                                                         /\ TimeOf(Claims(i), "exp") < now
                            \/ f.nonce = "short" /\ Contended(Request(k))
                      \/ calls[k].err = "ErrServerError" /\ f.hint # None
                      \/ calls[k].err = "ErrServerError" /\ f.prompt # <<>>
                            /\ sessions[a].id.authTime = 0
    BY Zenon DEF CodeLostOnlyFor
  <2>1. TypeInv /\ RequestsInv /\ CallsInv /\ LostInv
    BY DEF Invariant
  <2>2. Request(k) = a
    BY IdTokensAssumption DEF Request
  <2>3. k \notin Responses
    <3>1. k \in Responses => calls[k].step = "done"
      BY <2>1, IdTokensAssumption, ResponseIs
    <3> QED
      BY <3>1
  <2>4. LostFor(k, a)
    BY <2>1, Zenon DEF LostInv, Lost
  <2> QED
    BY <2>2, <2>3, <2>4, Zenon DEF LostFor
<1> QED
  BY <1>1, IdInvariant, PTL

\* The validator accepts no access token, altered or not, that was not signed
\* with the key the signer has, or that has expired (AcceptedWasSigned).
THEOREM OnlySigned == IdSpec => []AcceptedWasSigned
<1>1. Invariant => AcceptedWasSigned
  <2> SUFFICES ASSUME Invariant, NEW i \in DOMAIN accessTokens, NEW signed,
                      signed = accessTokens[i].raw, NEW raw \in Altered(signed),
                      Introspect(raw) = "nil"
               PROVE  raw = signed /\ raw.pair = pair /\ TimeOf(raw.claims, "exp") >= now
    BY Zenon DEF AcceptedWasSigned
  <2>1. TypeInv /\ AccessTokenFits(accessTokens[i])
    BY Zenon DEF Invariant, AccessTokensInv
  <2>2. Decode(raw, Key, now) = {}
    BY DEF Introspect, ToRFCErr
  <2>3. PICK keyFunc : keyFunc = [gives |-> "key", pair |-> pair, errors |-> {}]
    OBVIOUS
  <2>4. keyFunc.gives = "key" /\ keyFunc.pair = pair /\ ParseErrors(raw, keyFunc, now) = {}
    BY <2>2, <2>3 DEF Decode, CanDecode, Key
  <2>5. raw # Malformed /\ Signed(raw, keyFunc) /\ ValidErrors(raw.claims, now) = {}
    BY <2>4 DEF ParseErrors
  <2>6. raw.pair = pair
    BY <2>4, <2>5 DEF Signed, SignatureVerifies
  <2>7. pair # Unsigned
    <3>1. PICK n \in 1..Len(KeyPairs) : pair = KeyPairs[n]
      BY <2>1 DEF TypeInv
    <3>2. KeyPairs \in Seq(Range(KeyPairs)) /\ Unsigned \notin Range(KeyPairs)
      BY IdTokensAssumption, Zenon
    <3>3. KeyPairs[n] \in Range(KeyPairs)
      BY <3>2, ElementOfSeq
    <3> QED
      BY <3>1, <3>2, <3>3, Zenon
  <2>8. "pair" \in DOMAIN signed
    <3>1. DOMAIN signed = {"header", "claims", "pair"}
      BY <2>1, Zenon DEF AccessTokenFits
    <3> QED
      BY <3>1
  <2>9. raw = signed
    <3>1. \/ raw = signed
          \/ raw = [signed EXCEPT !.pair = Unsigned]
          \/ raw = [signed EXCEPT !.header = Claim("alg", "none"), !.pair = Unsigned]
          \/ raw = [signed EXCEPT !.claims = Over(@, TimeClaim("exp", MaxTime + 1)),
                                  !.pair = Unsigned]
      BY <2>5, Zenon DEF Altered
    <3>2. CASE raw = [signed EXCEPT !.pair = Unsigned]
      BY <2>6, <2>7, <2>8, <3>2
    <3>3. CASE raw = [signed EXCEPT !.header = Claim("alg", "none"), !.pair = Unsigned]
      BY <2>6, <2>7, <2>8, <3>3
    <3>4. CASE raw = [signed EXCEPT !.claims = Over(@, TimeClaim("exp", MaxTime + 1)),
                                    !.pair = Unsigned]
      BY <2>6, <2>7, <2>8, <3>4
    <3> QED
      BY <3>1, <3>2, <3>3, <3>4
  <2>10. TimeOf(raw.claims, "exp") >= now
    <3>1. VerifyExpiresAt(raw.claims, now, FALSE)
      BY <2>5 DEF ValidErrors
    <3>2. PICK exp \in Nat \ {0} : exp = TimeOf(raw.claims, "exp")
      BY <2>1, <2>9, Zenon DEF AccessTokenFits
    <3>3. now <= exp
      BY <3>1, <3>2 DEF VerifyExpiresAt
    <3>4. exp >= now
      BY <2>1, <3>2, <3>3, Clock
    <3> QED
      BY <3>2, <3>4
  <2> QED
    BY <2>6, <2>9, <2>10
<1> QED
  BY <1>1, IdInvariant, PTL

\* What the validator reads out of an access token is what was granted
\* (ReadBackAsGranted).
THEOREM ReadBack == IdSpec => []ReadBackAsGranted
<1>1. Invariant => ReadBackAsGranted
  <2> SUFFICES ASSUME Invariant, NEW i \in DOMAIN accessTokens,
                      NEW m, m = accessTokens[i].raw.claims,
                      NEW r \in AccessTokenJWTToRequest(m)
               PROVE  /\ r.subject = Subject /\ r.client = ClientID
                      /\ r.scopes = GrantedScopes /\ r.expiresAt = accessTokens[i].expiresAt
    BY Zenon DEF ReadBackAsGranted
  <2>1. /\ TimeOf(m, "exp") = accessTokens[i].expiresAt
        /\ StringOf(m, "sub") = Subject /\ StringOf(m, "client_id") = ClientID
        /\ ScopesOf(m) = {GrantedScopes}
    BY Zenon DEF Invariant, AccessTokensInv, AccessTokenFits
  <2>2. PICK c \in FromMap(m) :
            /\ r.subject = c.sub /\ r.client = StringOf(m, "client_id")
            /\ r.scopes = c.scope /\ r.expiresAt = c.exp
    BY DEF AccessTokenJWTToRequest
  <2>3. c.sub = StringOf(m, "sub") /\ c.exp = TimeOf(m, "exp") /\ c.scope \in ScopesOf(m)
    BY DEF FromMap
  <2> QED
    BY <2>1, <2>2, <2>3, Zenon
<1> QED
  BY <1>1, IdInvariant, PTL
=============================================================================
