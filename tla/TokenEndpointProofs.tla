------------------------ MODULE TokenEndpointProofs ------------------------
(***************************************************************************)
(* Proofs about TokenEndpoint, for every configuration, composition,       *)
(* registration and number of calls: whom a call acts for, what the stored *)
(* tokens are within, that an assertion is used once, and what the answers *)
(* and the revocations say of the tables.                                  *)
(***************************************************************************)
EXTENDS TokenEndpoint, TLAPS, SequenceTheorems, WellFoundedInduction

Grant(k) == form[k].grants[1]

\* The grants that have a handler here.
Grants == {"client_credentials", "password", Jwt}

TokenStages == {"token", "handle", "mark", "consent", "populate", "refresh"}
RevocationStages == {"revocation", "discover", "revoke_refresh", "revoke_access"}

\* After all checks of the first phase but that of the JWT ID.
Checked == {"mark", "consent", "populate", "refresh"}

\* Until the access token is stored.
Unissued == {"none", "token", "handle", "mark", "consent", "populate"}
                \union RevocationStages

ClientsNamed == \A id \in ClientIDs : clients[id] # None => clients[id].id = id

\* What a call was called with, by its stage.
Entered(k) ==
    /\ stage[k] = "none" => form[k] = None
    /\ stage[k] \in TokenStages => form[k] \in TokenForms
    /\ stage[k] \in RevocationStages => form[k] \in RevocationForm
    /\ stage[k] # "done" => response[k] = None
    /\ stage[k] \in {"none", "token", "revocation"} => requester[k] = NewRequest

\* Whom it acts for: a client, or nobody and then it has the error.
Authenticated(k) ==
    /\ requester[k].client # Anonymous => Proved(requester[k].client, form[k].cred)
    /\ stage[k] = "handle" =>
          /\ requester[k].client \in Client \/ clientErr[k] # nil
          /\ Served(k) # {} => turn[k] \in Served(k)
    /\ stage[k] \in {"discover", "revoke_refresh", "revoke_access"} =>
          requester[k].client \in Client
    /\ \A s \in requester[k].scopes : form[k] \in TokenForms /\ s \in form[k].scopes

\* The scopes that a request may be granted.
Registered(k) ==
    IF Grant(k) = Jwt THEN KeyScopes[form[k].proof[1]] ELSE requester[k].client.scopes

\* What the first phase has found out.
Permitted(k) ==
    /\ form[k] \in TokenForms
    /\ turn[k] \in Served(k)
    /\ \/ requester[k].client \in Client
       \/ Grant(k) = Jwt /\ config.canSkipClientAuth
    /\ Grant(k) = Jwt => form[k].proof[1] \in DOMAIN KeyScopes
    /\ \A s \in form[k].scopes : ScopeStrategy(config.scopeStrategy, Registered(k), s)
    /\ Grant(k) = "password" \/ (Grant(k) = Jwt /\ ~config.canSkipClientAuth) =>
          Grant(k) \in GetGrantTypes(requester[k].client)
    /\ Grant(k) = "client_credentials" => ~requester[k].client.public

\* The tables have what the call has issued, from what it had been permitted.
Issuance(k) ==
    /\ stage[k] \in Unissued => issued[k] = << >>
    /\ stage[k] \in Checked \/ issued[k] # << >> => Permitted(k)
    /\ stage[k] = "mark" => Grant(k) = Jwt
    /\ stage[k] = "refresh" => issued[k] # << >> /\ Grant(k) = "password"
    /\ issued[k] # << >> =>
          /\ issued[k] = <<requester[k]>>
          /\ Grant(k) = "client_credentials" =>
                Grant(k) \in GetGrantTypes(requester[k].client)
    /\ accessTokens[k] # None => issued[k] # << >> /\ accessTokens[k] = requester[k]
    /\ refreshTokens[k] # None =>
          /\ stage[k] = "done" /\ response[k] = 200 /\ issued[k] # << >>
          /\ refreshTokens[k].req = requester[k]
    /\ response[k] \notin {None, 200} /\ issued[k] # << >> =>
          response[k] = 500 /\ Grant(k) = "password"

\* An assertion with a JWT ID, which the call has marked.
Asserted(k) ==
    /\ stage[k] \in {"consent", "populate", "refresh"} \/ issued[k] # << >>
    /\ Grant(k) = Jwt /\ form[k].proof[2] # None

AssertionsUsedOnce ==
    /\ \A k \in Calls : Asserted(k) => form[k].proof[2] \in usedJTIs
    /\ \A j, k \in Calls :
          Asserted(j) /\ Asserted(k) /\ form[j].proof[2] = form[k].proof[2] => j = k

\* A revocation is for a token that was answered; once its client is compared
\* it is that of the token, and what its first write has done lasts.
Revoking(r) ==
    form[r] \in RevocationForm =>
        LET t == form[r].token IN
        /\ response[t] = 200 /\ issued[t] # << >>
        /\ stage[r] \in {"revoke_refresh", "revoke_access"} =>
              /\ issued[t][1].client # Anonymous
              /\ issued[t][1].client.id = requester[r].client.id
        /\ /\ stage[r] = "revoke_access"
           /\ refreshTokens[t] # None /\ refreshTokens[t].active
           => storeErr[r] # nil

RevokedFor(k) ==
    issued[k] # << >> /\ accessTokens[k] = None =>
        \E r \in Calls :
              /\ form[r] \in RevocationForm /\ form[r].token = k
              /\ requester[r].client \in Client
              /\ issued[k][1].client # Anonymous
              /\ requester[r].client.id = issued[k][1].client.id
              /\ stage[r] = "done"
              /\ refreshTokens[k] # None /\ refreshTokens[k].active
                 => storeErr[r] # nil

DeactivatedFor(k) ==
    issued[k] # << >> /\ refreshTokens[k] # None /\ ~refreshTokens[k].active =>
        \E r \in Calls :
              /\ form[r] \in RevocationForm /\ form[r].token = k
              /\ requester[r].client \in Client
              /\ issued[k][1].client # Anonymous
              /\ requester[r].client.id = issued[k][1].client.id
              /\ stage[r] \in {"revoke_access", "done"}

CallsInv == \A k \in Calls : Entered(k) /\ Authenticated(k) /\ Issuance(k)
RevocationsInv == \A k \in Calls : Revoking(k) /\ RevokedFor(k) /\ DeactivatedFor(k)

EndpointInv ==
    EndpointTypeOK /\ ClientsNamed /\ CallsInv /\ AssertionsUsedOnce /\ RevocationsInv

-----------------------------------------------------------------------------
(* The helpers of the model.                                               *)

\* A set of numbers has a least one.
LEMMA Least ==
    ASSUME NEW S \in SUBSET Nat, S # {}
    PROVE  \E m \in S : \A n \in S : m <= n
<1> DEFINE less == {ss \in Nat \X Nat : ss[1] < ss[2]}
<1>1. IsWellFoundedOn(less, Nat)
  BY NatLessThanWellFounded, Zenon DEF OpToRel
<1>2. \E m \in S : \A n \in S : ~ (<<n, m>> \in less)
  <2> HIDE DEF less
  <2> QED
    BY <1>1, WFMin, Zenon
<1>3. PICK m \in S : \A n \in S : ~ (<<n, m>> \in less)
  BY <1>2
<1>4. ASSUME NEW n \in S PROVE m <= n
  <2>1. m \in Nat /\ n \in Nat
    OBVIOUS
  <2>2. n < m => <<n, m>> \in less
    BY <2>1
  <2>3. QED
    BY <1>3, <2>1, <2>2
<1>5. QED
  BY <1>4

LEMMA FieldAndCodeType ==
    ASSUME NEW link \in Link
    PROVE  FieldAndCode(link)[2] \in Status
<1>1. ASSUME NEW l \in DOMAIN RequestErrors PROVE RequestErrors[l][2] \in Status
  BY <1>1 DEF RequestErrors, Status
<1>2. ASSUME NEW l \in DOMAIN TokenErrors PROVE TokenErrors[l][2] \in Status
  BY <1>2 DEF TokenErrors, Status
<1>3. ASSUME NEW l \in DOMAIN RFC6749Error PROVE RFC6749Error[l][2] \in Status
  BY <1>1, <1>2, <1>3 DEF RFC6749Error
<1>4. QED
  BY <1>3 DEF FieldAndCode, Link, Status

\* Every error is answered with one of the codes of the library.
LEMMA StatusCodeType ==
    ASSUME NEW err \in Error
    PROVE  StatusCode(err) \in Status
<1> DEFINE known == {i \in DOMAIN err : err[i] \notin Foreign}
<1>1. CASE known = {}
  BY <1>1 DEF StatusCode, ErrorToRFC6749Error, Status
<1>2. CASE known # {}
  <2>1. known \in SUBSET Nat
    BY DEF Error
  <2>2. \E m \in known : \A j \in known : m <= j
    <3> HIDE DEF known
    <3> QED
      BY <1>2, <2>1, Least
  <2> DEFINE first == CHOOSE i \in known : \A j \in known : i <= j
  <2>3. first \in known
    BY <2>2
  <2>4. err[first] \in Link
    BY <2>3 DEF Error
  <2>5. StatusCode(err) = FieldAndCode(err[first])[2]
    BY <1>2 DEF StatusCode, ErrorToRFC6749Error
  <2>6. QED
    BY <2>4, <2>5, FieldAndCodeType
<1>3. QED
  BY <1>1, <1>2

LEMMA Wrapping ==
    ASSUME NEW link, NEW cause
    PROVE  WithWrap(link, <<cause>>) = <<link, cause>>
<1> DEFINE err == <<link>> \o <<cause>>
           S == {link, cause}
<1>1. <<link>> \in Seq(S) /\ <<cause>> \in Seq(S)
  OBVIOUS
<1>2. /\ err \in Seq(S) /\ Len(err) = 2
      /\ \A i \in 1 .. 2 : err[i] = IF i <= 1 THEN <<link>>[i] ELSE <<cause>>[i - 1]
  <2> HIDE DEF S
  <2> QED
    BY <1>1, ConcatProperties
<1>3. err[1] = link /\ err[2] = cause
  BY <1>2
<1>4. err = <<link, cause>>
  <2> DEFINE two == <<link, cause>>
  <2>1. two \in Seq(S) /\ Len(two) = 2 /\ two[1] = link /\ two[2] = cause
    OBVIOUS
  <2>2. \A i \in 1 .. Len(err) : err[i] = two[i]
    BY <1>2, <1>3, <2>1
  <2>3. QED
    <3> HIDE DEF err, two, S
    <3> QED
      BY <1>2, <2>1, <2>2, SeqEqual
<1>5. QED
  BY <1>4 DEF WithWrap

\* The status of a failed write, wrapped by a handler.
LEMMA StorageStatus == StatusCode(WithWrap("ErrServerError", <<"errStorage">>)) = 500
<1> DEFINE err == <<"ErrServerError", "errStorage">>
           known == {i \in DOMAIN err : err[i] \notin Foreign}
<1>1. WithWrap("ErrServerError", <<"errStorage">>) = err
  BY Wrapping DEF Foreign
<1>2. known = {1}
  BY DEF Foreign
<1>3. (CHOOSE i \in known : \A j \in known : i <= j) = 1
  BY <1>2
<1>4. "ErrServerError" \in DOMAIN RequestErrors
        /\ RequestErrors["ErrServerError"] = <<"server_error", 500>>
  BY DEF RequestErrors
<1>5. FieldAndCode("ErrServerError") = <<"server_error", 500>>
  BY <1>4 DEF FieldAndCode, Foreign, RFC6749Error
<1>6. QED
  BY <1>1, <1>2, <1>3, <1>5 DEF StatusCode, ErrorToRFC6749Error

ClientsOK(registered) ==
    /\ registered \in [ClientIDs -> Client \union {None}]
    /\ \A id \in ClientIDs : registered[id] # None => registered[id].id = id

LEMMA AuthenticationErrors ==
    ASSUME NEW link \in Link, NEW cause \in Link
    PROVE  /\ <<link>> \in Error /\ <<link>> # nil
           /\ WithWrap(link, <<cause>>) \in Error /\ WithWrap(link, <<cause>>) # nil
<1>1. WithWrap(link, <<cause>>) = <<link, cause>>
  BY Wrapping
<1>2. <<link>> \in Seq(Link) /\ <<link, cause>> \in Seq(Link)
  OBVIOUS
<1>3. <<link>> # << >> /\ <<link, cause>> # << >>
  OBVIOUS
<1>4. QED
  BY <1>1, <1>2, <1>3 DEF Error, nil

LEMMA UsedLinks ==
    {"ErrInvalidRequest", "ErrInvalidClient", "ErrNotFound", "errStorage",
     "errMismatchedHashAndPassword", "ErrServerError", "ErrJTIKnown", "ErrInvalidScope",
     "ErrInvalidGrant", "ErrUnauthorizedClient", "ErrTemporarilyUnavailable"}
        \subseteq Link
<1>1. {"ErrInvalidRequest", "ErrInvalidClient", "ErrNotFound", "ErrServerError",
       "ErrInvalidScope", "ErrInvalidGrant", "ErrUnauthorizedClient",
       "ErrTemporarilyUnavailable"} \subseteq DOMAIN RequestErrors
  BY DEF RequestErrors
<1>2. "ErrJTIKnown" \in DOMAIN TokenErrors
  BY DEF TokenErrors
<1>3. QED
  BY <1>1, <1>2 DEF Link, Foreign, RFC6749Error

\* Whoever is authenticated has proved it, the way it is registered for.
LEMMA AuthenticationProves ==
    ASSUME NEW registered, ClientsOK(registered), NEW cred \in Credentials,
           NEW result, result = AuthenticateClient(registered, cred)
    PROVE  \/ /\ result[1] = "client"
              /\ result[2] \in Client /\ Proved(result[2], cred)
           \/ /\ result[1] = "error"
              /\ result[2] \in Error /\ result[2] # nil
<1>1. CASE cred.assertion # None
  <2> DEFINE id == IF cred.id # None THEN cred.id ELSE cred.assertion
  <2>1. id \in ClientIDs /\ result = AuthenticateByAssertion(registered, cred)
    BY <1>1 DEF Credentials, AuthenticateClient
  <2>2. CASE registered[id] # None /\ registered[id].oidc /\ SignedBy(registered[id], cred)
    BY <2>1, <2>2 DEF ClientsOK, AuthenticateByAssertion, Accept, SignedBy, Proved
  <2>3. CASE ~(registered[id] # None /\ registered[id].oidc /\ SignedBy(registered[id], cred))
    BY <2>1, <2>3, AuthenticationErrors, UsedLinks DEF AuthenticateByAssertion, Refuse
  <2>4. QED
    BY <2>2, <2>3
<1>2. CASE cred.assertion = None
  <2> DEFINE id == PresentedID(cred)
             c == registered[id]
             secret == PresentedSecret(cred)
  <2>1. result = AuthenticateBySecret(registered, cred)
    BY <1>2 DEF AuthenticateClient
  <2>2. CASE /\ id # None /\ c # None /\ MethodAllowed(c, cred)
             /\ c.public \/ checkClientSecret(c, secret)
    <3>1. id \in ClientIDs
      BY <2>2 DEF PresentedID, Credentials
    <3>2. c \in Client /\ c.id = id
      BY <2>2, <3>1 DEF ClientsOK
    <3>3. result = <<"client", c>>
      BY <2>1, <2>2 DEF AuthenticateBySecret, Accept
    <3>4. CASE c.public
      BY <2>2, <3>2, <3>3, <3>4 DEF MethodAllowed, PresentedID, Credentials, Proved
    <3>5. CASE checkClientSecret(c, secret)
      <4>1. secret \in {c.hash} \union c.rotated
        BY <3>5 DEF checkClientSecret, Compare
      <4>2. secret \in Secrets /\ secret # None
        BY <4>1, <3>2, AbsentAssumption DEF Client
      <4>3. CASE cred.basic # None
        BY <2>2, <3>2, <3>3, <4>1, <4>2, <4>3
        DEF MethodAllowed, PresentedID, PresentedSecret, Credentials, Proved
      <4>4. CASE cred.basic = None
        BY <2>2, <3>2, <3>3, <4>1, <4>2, <4>4
        DEF MethodAllowed, PresentedID, PresentedSecret, Proved
      <4>5. QED
        BY <4>3, <4>4
    <3>6. QED
      BY <2>2, <3>4, <3>5
  <2>3. CASE ~(/\ id # None /\ c # None /\ MethodAllowed(c, cred)
               /\ c.public \/ checkClientSecret(c, secret))
    BY <2>1, <2>3, AuthenticationErrors, UsedLinks DEF AuthenticateBySecret, Refuse
  <2>4. QED
    BY <2>2, <2>3
<1>3. QED
  BY <1>1, <1>2

\* What a strategy lets pass is what some registered scope stands for.
LEMMA StrategyMeaning ==
    ASSUME NEW strategy \in ScopeStrategies, NEW haystack \in SUBSET Scopes,
           NEW s \in Scopes, ScopeStrategy(strategy, haystack, s)
    PROVE  \E p \in haystack : s \in Meaning(strategy, p)
<1>1. s \in Seq(STRING)
  BY ScopeAssumption
<1>2. CASE strategy = "exact"
  BY <1>2 DEF ScopeStrategy, ExactScopeStrategy, Meaning
<1>3. CASE strategy = "hierarchic"
  <2>1. PICK p \in haystack :
           \/ p = s
           \/ Len(p) < Len(s) /\ \A k \in DOMAIN p : p[k] = s[k]
    BY <1>3 DEF ScopeStrategy, HierarchicScopeStrategy
  <2>2. p \in Seq(STRING)
    BY ScopeAssumption
  <2>3. Len(p) <= Len(s) /\ \A k \in 1 .. Len(p) : p[k] = s[k]
    BY <1>1, <2>1, <2>2
  <2>4. SubSeq(s, 1, Len(p)) = p
    <3>1. /\ SubSeq(s, 1, Len(p)) \in Seq(STRING)
          /\ Len(SubSeq(s, 1, Len(p))) = Len(p)
          /\ \A i \in 1 .. Len(p) : SubSeq(s, 1, Len(p))[i] = s[i]
      BY <1>1, <2>2, <2>3
    <3>2. QED
      BY <2>2, <2>3, <3>1, SeqEqual
  <2>5. s \in Meaning(strategy, p)
    BY <1>3, <2>3, <2>4 DEF Meaning, IsPrefixOf
  <2>6. QED
    BY <2>5
<1>4. CASE strategy = "wildcard"
  <2>1. PICK p \in haystack :
           /\ Len(p) <= Len(s)
           /\ \A k \in DOMAIN p :
                 /\ k = Len(p) /\ Len(p) # Len(s) => p[k] = "*"
                 /\ (p[k] = "*" /\ s[k] # "") \/ p[k] = s[k]
    BY <1>4 DEF ScopeStrategy, WildcardScopeStrategy
  <2>2. p \in Seq(STRING) /\ p # << >>
    BY ScopeAssumption
  <2>3. Len(p) \in DOMAIN p /\ Len(p) \in Nat /\ Len(s) \in Nat
    BY <1>1, <2>2
  <2>4. Len(s) > Len(p) => p[Len(p)] = "*"
    <3>1. ASSUME Len(s) > Len(p) PROVE p[Len(p)] = "*"
      <4>1. Len(p) # Len(s)
        BY <2>3, <3>1
      <4>2. QED
        BY <2>1, <2>3, <4>1, Zenon
    <3>2. QED
      BY <3>1
  <2>5. \A i \in DOMAIN p : p[i] \in {s[i]} \union (IF s[i] = "" THEN {} ELSE {"*"})
    BY <2>1
  <2>6. Len(s) >= Len(p)
    BY <2>1, <2>3
  <2>7. s \in Meaning(strategy, p)
    BY <1>4, <2>4, <2>5, <2>6 DEF Meaning
  <2>8. QED
    BY <2>7
<1>5. QED
  BY <1>2, <1>3, <1>4 DEF ScopeStrategies

-----------------------------------------------------------------------------
(* Dispatch.                                                               *)

LEMMA FormsApart ==
    /\ TokenForm \intersect RevocationForm = {}
    /\ None \notin TokenForm \union RevocationForm
<1>1. ASSUME NEW f \in TokenForm PROVE "token" \notin DOMAIN f
  BY DEF TokenForm
<1>2. ASSUME NEW f \in RevocationForm PROVE "token" \in DOMAIN f
  BY DEF RevocationForm
<1>3. QED
  BY <1>1, <1>2, AbsentAssumption

\* A composition has at most one handler that is responsible for a request,
\* however often its factories are named.
LEMMA OneHandler ==
    ASSUME NEW k \in Calls, form[k] \in TokenForm, NEW i \in Served(k)
    PROVE  /\ Served(k) = {i} /\ i \in TokenHandlers
           /\ Grant(k) = GrantOf(Factories[i]) /\ form[k].grants = <<Grant(k)>>
           /\ Grant(k) \in Grants
<1> DEFINE g == form[k].grants
<1>1. g \in Seq(GrantTypes)
  BY DEF TokenForm
<1>2. ASSUME NEW j \in Served(k)
      PROVE  /\ j \in TokenHandlers /\ Len(g) = 1 /\ g[1] = GrantOf(Factories[j])
             /\ GrantOf(Factories[j]) \in Grants
  <2>1. j \in TokenHandlers /\ Len(g) = 1 /\ g[1] = GrantOf(Factories[j])
    BY <1>2 DEF Served, CanHandle, ExactOne
  <2>2. g[1] \in GrantTypes
    BY <1>1, <2>1
  <2>3. QED
    BY <2>1, <2>2 DEF GrantOf, GrantTypes, Grants, Jwt
<1>3. ASSUME NEW j \in Served(k) PROVE i = j
  <2>1. GrantOf(Factories[i]) = GrantOf(Factories[j]) /\ GrantOf(Factories[i]) \in Grants
    BY <1>2
  <2>2. Factories[i] = Factories[j]
    BY <2>1 DEF GrantOf, Grants, Jwt
  <2>3. /\ i \in DOMAIN Factories /\ Appends(Factories, i)
        /\ j \in DOMAIN Factories /\ Appends(Factories, j)
    BY <1>2 DEF TokenHandlers, Compose
  <2>4. i \in Nat \ {0} /\ j \in Nat \ {0}
    BY <2>3, EndpointAssumption
  <2>5. ~(i < j) /\ ~(j < i)
    BY <2>2, <2>3, <2>4 DEF Appends
  <2>6. QED
    BY <2>4, <2>5
<1>4. g = <<g[1]>>
  <2>1. Len(g) = 1
    BY <1>2
  <2>2. QED
    BY <1>1, <2>1
<1>5. QED
  BY <1>2, <1>3, <1>4 DEF Grant

LEMMA HandlersAreNumbers == TokenHandlers \subseteq Nat \ {0}
BY EndpointAssumption DEF TokenHandlers, Compose

\* So every loop ends with its first turn.
LEMMA LoopEnds ==
    ASSUME NEW k \in Calls, form[k] \in TokenForm, turn[k] \in Served(k),
           turn \in [Calls -> {0} \union TokenHandlers]
    PROVE  /\ Turn(k) = Grant(k) /\ Later(k) = {}
           /\ \A loop, after : NextTurn(k, loop, after) =>
                 turn' = turn /\ stage' = [stage EXCEPT ![k] = after]
<1>1. Served(k) = {turn[k]} /\ turn[k] \in Nat /\ Turn(k) = Grant(k)
  BY OneHandler, HandlersAreNumbers DEF Turn
<1>2. Later(k) = {}
  BY <1>1 DEF Later
<1>3. Min(Served(k)) = turn[k]
  BY <1>1 DEF Min
<1>4. QED
  BY <1>1, <1>2, <1>3 DEF NextTurn, Enter

LEMMA FirstTurn ==
    ASSUME NEW k \in Calls, form[k] \in TokenForm, Served(k) # {}
    PROVE  Min(Served(k)) \in Served(k) /\ Served(k) \subseteq TokenHandlers
<1>1. PICK i \in Served(k) : TRUE
  OBVIOUS
<1>2. Served(k) = {i} /\ i \in Nat
  BY OneHandler, HandlersAreNumbers
<1>3. Min(Served(k)) = i
  BY <1>2 DEF Min
<1>4. QED
  BY <1>2, <1>3 DEF Served

-----------------------------------------------------------------------------
(* Types.                                                                  *)

ClientsInv == EndpointTypeOK /\ ClientsNamed /\ CallsInv

LEMMA Authenticating ==
    ASSUME ClientsInv, NEW k \in Calls, form[k] # None,
           NEW result, result = AuthenticateClient(clients, form[k].cred)
    PROVE  \/ /\ result[1] = "client" /\ result[1] # "error"
              /\ result[2] \in Client /\ Proved(result[2], form[k].cred)
           \/ /\ result[1] = "error" /\ result[1] # "client"
              /\ result[2] \in Error /\ result[2] # nil
<1>1. form[k].cred \in Credentials
  BY DEF ClientsInv, EndpointTypeOK, TokenForm, RevocationForm
<1>2. ClientsOK(clients)
  BY DEF ClientsInv, EndpointTypeOK, ClientsNamed, ClientsOK
<1>3. QED
  BY <1>1, <1>2, AuthenticationProves

LEMMA Single == \A link \in Link : <<link>> \in Error /\ nil \in Error
BY DEF Error, nil

LEMMA NotFoundWrapped == WithWrap("ErrInvalidGrant", <<"ErrNotFound">>) \in Error
BY AuthenticationErrors, UsedLinks

LEMMA RequestErrorType ==
    ASSUME ClientsInv, NEW k \in Calls, Turn(k) \in Grants
    PROVE  RequestError(k) \in Error
<1>1. ClientCredentialsError(k) \in Error
  BY Single, UsedLinks DEF ClientCredentialsError
<1>2. PasswordError(k) \in Error
  BY Single, UsedLinks, NotFoundWrapped DEF PasswordError
<1>3. CheckRequest(k) \in Error
  BY Single, UsedLinks DEF CheckRequest
<1>4. AssertionError(k) \in Error
  BY <1>3, Single, UsedLinks, NotFoundWrapped DEF AssertionError
<1>5. GrantError(k) \in Error
  BY <1>1, <1>2, <1>4 DEF GrantError, Grants, Jwt
<1>6. QED
  BY <1>5 DEF RequestError, ClientsInv, EndpointTypeOK

LEMMA ResponseErrorType ==
    ASSUME NEW k \in Calls, Turn(k) \in Grants
    PROVE  ResponseError(k) \in Error
BY Single, UsedLinks DEF ResponseError, CheckRequest, Grants, Jwt

LEMMA RevocationStatusType == \A err : RevocationStatus(err) \in Status
BY DEF RevocationStatus, Status

\* In the stages of the two phases the call has its turn.
LEMMA HasTurn ==
    ASSUME ClientsInv, NEW k \in Calls,
           stage[k] \in Checked \/ (stage[k] = "handle" /\ Served(k) # {})
    PROVE  /\ form[k] \in TokenForm /\ form[k] \in TokenForms /\ turn[k] \in Served(k)
           /\ Turn(k) = Grant(k) /\ Turn(k) \in Grants /\ Later(k) = {}
           /\ form[k].grants = <<Grant(k)>>
<1>1. form[k] \in TokenForms /\ turn[k] \in Served(k)
  BY DEF ClientsInv, CallsInv, Entered, Authenticated, Issuance, Permitted, Checked,
         TokenStages
<1>2. form[k] \in TokenForm
  BY <1>1, EndpointAssumption
<1>3. turn \in [Calls -> {0} \union TokenHandlers]
  BY DEF ClientsInv, EndpointTypeOK
<1>4. QED
  BY <1>1, <1>2, <1>3, OneHandler, LoopEnds

\* The steps of a token call with their effects, once its one handler is known.
Elsewhere ==
    /\ UNCHANGED <<config, clients, form, clientErr, turn, storeErr>>
    /\ faults' \in 0 .. MaxFaults

Answered(k) ==
    /\ stage[k] \in {"handle", "mark", "populate", "refresh"}
    /\ stage' = [stage EXCEPT ![k] = "done"]
    /\ \E status \in Status :
          /\ response' = [response EXCEPT ![k] = status]
          /\ stage[k] = "refresh" => status = 500
    /\ UNCHANGED <<requester, usedJTIs, tokenVars>>
    /\ Elsewhere

Checks(k) ==
    /\ stage[k] = "handle" /\ Served(k) # {} /\ RequestError(k) = nil
    /\ stage' = [stage EXCEPT ![k] = IF Grant(k) = Jwt THEN "mark" ELSE "consent"]
    /\ UNCHANGED <<requester, response, usedJTIs, tokenVars>>
    /\ Elsewhere

Marks(k) ==
    /\ stage[k] = "mark" /\ form[k].proof[2] \notin usedJTIs
    /\ stage' = [stage EXCEPT ![k] = "consent"]
    /\ requester' = [requester EXCEPT ![k].scopes = form[k].scopes]
    /\ usedJTIs' = usedJTIs \union ({form[k].proof[2]} \ {None})
    /\ UNCHANGED <<response, tokenVars>>
    /\ Elsewhere

Issues(k) ==
    /\ stage[k] = "populate" /\ ResponseError(k) = nil
    /\ accessTokens' = [accessTokens EXCEPT ![k] = requester[k]]
    /\ issued' = [issued EXCEPT ![k] = Append(issued[k], requester[k])]
    /\ \/ /\ Grant(k) = "password"
          /\ stage' = [stage EXCEPT ![k] = "refresh"] /\ UNCHANGED response
       \/ /\ stage' = [stage EXCEPT ![k] = "done"]
          /\ response' = [response EXCEPT ![k] = 200]
    /\ UNCHANGED <<requester, refreshTokens, usedJTIs>>
    /\ Elsewhere

Completes(k) ==
    /\ stage[k] = "refresh"
    /\ refreshTokens' = [refreshTokens EXCEPT ![k] =
                            [active |-> TRUE, req |-> requester[k]]]
    /\ stage' = [stage EXCEPT ![k] = "done"]
    /\ response' = [response EXCEPT ![k] = 200]
    /\ UNCHANGED <<requester, accessTokens, issued, usedJTIs>>
    /\ Elsewhere

TokenEffect(k) ==
    \/ \E f \in TokenForms : Request(k, f)
    \/ Authenticate(k)
    \/ \E scopes \in SUBSET Scopes : GrantScopes(k, scopes)
    \/ Answered(k) \/ Checks(k) \/ Marks(k) \/ Issues(k) \/ Completes(k)

LEMMA AnswerEffect ==
    ASSUME NEW k \in Calls, NEW status \in Status, Answer(k, status),
           stage[k] \in {"handle", "mark", "populate", "refresh"},
           stage[k] = "refresh" => status = 500,
           UNCHANGED <<config, clients, usedJTIs, tokenVars>>,
           faults' \in 0 .. MaxFaults
    PROVE  Answered(k)
BY DEF Answer, Enter, Answered, Elsewhere

LEMMA FaultsCounted ==
    ASSUME EndpointTypeOK
    PROVE  (Works \/ Fails \/ UNCHANGED faults) => faults' \in 0 .. MaxFaults
BY EndpointAssumption DEF EndpointTypeOK, Works, Fails

LEMMA TokenEffects ==
    ASSUME ClientsInv, NEW k \in Calls, TokenStep(k)
    PROVE  TokenEffect(k)
<1>0. EndpointTypeOK /\ turn \in [Calls -> {0} \union TokenHandlers]
  BY DEF ClientsInv, EndpointTypeOK
<1>1. CASE NotFound(k)
  <2>1. StatusCode(<<"ErrInvalidRequest">>) \in Status
    BY Single, UsedLinks, StatusCodeType
  <2>2. Answered(k)
    BY <1>0, <1>1, <2>1, AnswerEffect, FaultsCounted DEF NotFound
  <2>3. QED
    BY <2>2 DEF TokenEffect
<1>2. CASE RefuseRequest(k)
  <2>1. RequestError(k) \in Error
    BY <1>2, HasTurn, RequestErrorType DEF RefuseRequest
  <2>2. StatusCode(RequestError(k)) \in Status
    BY <2>1, StatusCodeType
  <2>3. Answered(k)
    BY <1>0, <1>2, <2>2, AnswerEffect, FaultsCounted DEF RefuseRequest
  <2>4. QED
    BY <2>3 DEF TokenEffect
<1>3. CASE HandleTokenEndpointRequest(k)
  <2>1. Turn(k) = Grant(k) /\ form[k] \in TokenForm /\ turn[k] \in Served(k)
    BY <1>3, HasTurn DEF HandleTokenEndpointRequest
  <2>2. /\ turn' = turn
        /\ stage' = [stage EXCEPT ![k] = IF Grant(k) = Jwt THEN "mark" ELSE "consent"]
    BY <1>0, <1>3, <2>1, LoopEnds DEF HandleTokenEndpointRequest, Enter
  <2>3. Checks(k)
    BY <1>0, <1>3, <2>2, FaultsCounted DEF HandleTokenEndpointRequest, Checks, Elsewhere
  <2>4. QED
    BY <2>3 DEF TokenEffect
<1>4. CASE MarkJWTUsedForTime(k)
  <2>1. form[k] \in TokenForm /\ turn[k] \in Served(k)
    BY <1>4, HasTurn DEF MarkJWTUsedForTime, Checked
  <2>2. CASE Marked(k)
    <3>1. StatusCode(WithWrap("ErrServerError", <<"ErrJTIKnown">>)) \in Status
      BY AuthenticationErrors, UsedLinks, StatusCodeType
    <3>2. Answered(k)
      BY <1>0, <1>4, <2>2, <3>1, AnswerEffect, FaultsCounted DEF MarkJWTUsedForTime
    <3>3. QED
      BY <3>2 DEF TokenEffect
  <2>3. CASE ~Marked(k)
    <3>1. turn' = turn /\ stage' = [stage EXCEPT ![k] = "consent"]
      BY <1>0, <1>4, <2>1, <2>3, LoopEnds DEF MarkJWTUsedForTime
    <3>2. Marks(k)
      BY <1>0, <1>4, <2>3, <3>1, FaultsCounted
      DEF MarkJWTUsedForTime, Marks, Marked, Requested, Elsewhere
    <3>3. QED
      BY <3>2 DEF TokenEffect
  <2>4. QED
    BY <2>2, <2>3
<1>5. CASE RefuseResponse(k)
  <2>1. ResponseError(k) \in Error
    BY <1>5, HasTurn, ResponseErrorType DEF RefuseResponse, Checked
  <2>2. StatusCode(ResponseError(k)) \in Status
    BY <2>1, StatusCodeType
  <2>3. Answered(k)
    BY <1>0, <1>5, <2>2, AnswerEffect, FaultsCounted DEF RefuseResponse
  <2>4. QED
    BY <2>3 DEF TokenEffect
<1>6. CASE IssueAccessToken(k)
  <2>1. Later(k) = {} /\ Turn(k) = Grant(k)
    BY <1>6, HasTurn DEF IssueAccessToken, Checked
  <2>2. StatusCode(<<"errStorage">>) \in Status
    BY Single, UsedLinks, StatusCodeType
  <2>3. CASE Fails /\ Answer(k, StatusCode(<<"errStorage">>)) /\ UNCHANGED <<accessTokens, issued>>
    <3>1. Answered(k)
      BY <1>0, <1>6, <2>2, <2>3, AnswerEffect, FaultsCounted DEF IssueAccessToken, tokenVars
    <3>2. QED
      BY <3>1 DEF TokenEffect
  <2>4. CASE ~(Fails /\ Answer(k, StatusCode(<<"errStorage">>)) /\ UNCHANGED <<accessTokens, issued>>)
    <3>1. /\ faults' \in 0 .. MaxFaults /\ turn' = turn
          /\ \/ /\ EarnsRefreshToken(k)
                /\ stage' = [stage EXCEPT ![k] = "refresh"] /\ response' = response
             \/ /\ stage' = [stage EXCEPT ![k] = "done"]
                /\ response' = [response EXCEPT ![k] = 200]
      BY <1>0, <1>6, <2>1, <2>4, FaultsCounted DEF IssueAccessToken, Enter
    <3>2. EarnsRefreshToken(k) => Grant(k) = "password"
      BY <2>1 DEF EarnsRefreshToken
    <3>3. /\ stage[k] = "populate" /\ ResponseError(k) = nil
          /\ accessTokens' = [accessTokens EXCEPT ![k] = requester[k]]
          /\ issued' = [issued EXCEPT ![k] = Append(issued[k], requester[k])]
          /\ UNCHANGED <<form, requester, clientErr, storeErr, config, clients, usedJTIs,
                         refreshTokens>>
      BY <1>6, <2>4 DEF IssueAccessToken
    <3>4. Issues(k)
      BY <3>1, <3>2, <3>3 DEF Issues, Elsewhere
    <3>5. QED
      BY <3>4 DEF TokenEffect
  <2>5. QED
    BY <2>3, <2>4
<1>7. CASE CreateRefreshTokenSession(k)
  <2> DEFINE status == StatusCode(WithWrap("ErrServerError", <<"errStorage">>))
  <2>1. Later(k) = {}
    BY <1>7, HasTurn DEF CreateRefreshTokenSession, Checked
  <2>2. status = 500 /\ status \in Status
    BY StorageStatus DEF Status
  <2> HIDE DEF status
  <2>3. CASE Fails /\ Answer(k, status) /\ UNCHANGED refreshTokens
    <3>1. Answered(k)
      BY <1>0, <1>7, <2>2, <2>3, AnswerEffect, FaultsCounted
      DEF CreateRefreshTokenSession, tokenVars
    <3>2. QED
      BY <3>1 DEF TokenEffect
  <2>4. CASE ~(Fails /\ Answer(k, status) /\ UNCHANGED refreshTokens)
    <3>1. Completes(k)
      BY <1>0, <1>7, <2>1, <2>4, FaultsCounted
      DEF CreateRefreshTokenSession, Enter, Completes, Elsewhere, status
    <3>2. QED
      BY <3>1 DEF TokenEffect
  <2>5. QED
    BY <2>3, <2>4
<1>8. QED
  BY <1>1, <1>2, <1>3, <1>4, <1>5, <1>6, <1>7 DEF TokenStep, TokenEffect

LEMMA AuthenticateEffect ==
    ASSUME ClientsInv, NEW k \in Calls, Authenticate(k)
    PROVE  \E req \in Requester, err \in Error, first \in {0} \union TokenHandlers :
              /\ stage[k] = "token" /\ form[k] \in TokenForms
              /\ stage' = [stage EXCEPT ![k] = "handle"]
              /\ requester' = [requester EXCEPT ![k] = req]
              /\ clientErr' = [clientErr EXCEPT ![k] = err]
              /\ turn' = [turn EXCEPT ![k] = first]
              /\ Served(k) # {} => first \in Served(k)
              /\ req.scopes = {}
              /\ req.client # Anonymous => Proved(req.client, form[k].cred)
              /\ req.client \in Client \/ err # nil
<1> DEFINE result == AuthenticateClient(clients, form[k].cred)
           first == IF Served(k) = {} THEN 0 ELSE Min(Served(k))
<1>1. /\ form[k] \in TokenForms /\ form[k] \in TokenForm /\ form[k] # None
      /\ stage[k] = "token" /\ requester[k] = NewRequest /\ clientErr[k] \in Error
      /\ requester \in [Calls -> Requester] /\ clientErr \in [Calls -> Error]
  BY EndpointAssumption, AbsentAssumption
  DEF Authenticate, ClientsInv, EndpointTypeOK, CallsInv, Entered, TokenStages, TokenForm
<1>2. \/ /\ result[1] = "client"
         /\ result[2] \in Client /\ Proved(result[2], form[k].cred)
      \/ /\ result[1] # "client"
         /\ result[2] \in Error /\ result[2] # nil
  BY <1>1, Authenticating
<1>3. first \in {0} \union TokenHandlers /\ (Served(k) # {} => first \in Served(k))
  BY <1>1, FirstTurn
<1>4. turn' = [turn EXCEPT ![k] = first] /\ stage' = [stage EXCEPT ![k] = "handle"]
  BY DEF Authenticate, Enter
<1>5. IF result[1] = "client"
      THEN requester' = [requester EXCEPT ![k].client = result[2]] /\ clientErr' = clientErr
      ELSE requester' = requester /\ clientErr' = [clientErr EXCEPT ![k] = result[2]]
  BY DEF Authenticate
<1> HIDE DEF result, first
<1>6. CASE result[1] = "client"
  <2> DEFINE req == [client |-> result[2], scopes |-> {}]
  <2>1. req \in Requester
    BY <1>2, <1>6 DEF Requester
  <2>2. requester' = [requester EXCEPT ![k] = req]
    BY <1>1, <1>5, <1>6 DEF NewRequest
  <2>3. clientErr' = [clientErr EXCEPT ![k] = clientErr[k]]
    BY <1>1, <1>5, <1>6
  <2>4. req.client = result[2] /\ req.scopes = {}
    OBVIOUS
  <2> HIDE DEF req
  <2>5. QED
    BY <1>1, <1>2, <1>3, <1>4, <1>6, <2>1, <2>2, <2>3, <2>4
<1>7. CASE result[1] # "client"
  <2>1. /\ NewRequest \in Requester /\ NewRequest.client = Anonymous
        /\ NewRequest.scopes = {}
    BY DEF NewRequest, Requester
  <2>2. requester' = [requester EXCEPT ![k] = NewRequest]
    BY <1>1, <1>5, <1>7
  <2>3. clientErr' = [clientErr EXCEPT ![k] = result[2]]
    BY <1>5, <1>7
  <2>4. QED
    BY <1>1, <1>2, <1>3, <1>4, <1>7, <2>1, <2>2, <2>3
<1>8. QED
  BY <1>6, <1>7

LEMMA TokenType ==
    ASSUME ClientsInv, NEW k \in Calls, TokenEffect(k)
    PROVE  EndpointTypeOK'
<1>0. EndpointTypeOK
  BY DEF ClientsInv
<1>1. CASE \E f \in TokenForms : Request(k, f)
  BY <1>0, <1>1, EndpointAssumption DEF Request, EndpointTypeOK, tokenVars, Stages
<1>2. CASE Authenticate(k)
  <2>1. PICK req \in Requester, err \in Error, first \in {0} \union TokenHandlers :
           /\ stage' = [stage EXCEPT ![k] = "handle"]
           /\ requester' = [requester EXCEPT ![k] = req]
           /\ clientErr' = [clientErr EXCEPT ![k] = err]
           /\ turn' = [turn EXCEPT ![k] = first]
    BY <1>2, AuthenticateEffect
  <2>2. stage' \in [Calls -> Stages]
    BY <1>0, <2>1 DEF EndpointTypeOK, Stages
  <2>3. requester' \in [Calls -> Requester]
    BY <1>0, <2>1 DEF EndpointTypeOK
  <2>4. clientErr' \in [Calls -> Error]
    BY <1>0, <2>1 DEF EndpointTypeOK
  <2>5. turn' \in [Calls -> {0} \union TokenHandlers]
    BY <1>0, <2>1 DEF EndpointTypeOK
  <2>6. QED
    BY <1>0, <1>2, <2>2, <2>3, <2>4, <2>5 DEF Authenticate, EndpointTypeOK, tokenVars
<1>3. CASE \E scopes \in SUBSET Scopes : GrantScopes(k, scopes)
  <2>1. PICK scopes \in SUBSET Scopes : GrantScopes(k, scopes)
    BY <1>3
  <2>2. requester' \in [Calls -> Requester]
    BY <1>0, <2>1 DEF GrantScopes, Requester, EndpointTypeOK
  <2>3. stage' \in [Calls -> Stages]
    BY <1>0, <2>1 DEF GrantScopes, Enter, EndpointTypeOK, Stages
  <2>4. QED
    BY <1>0, <2>1, <2>2, <2>3 DEF GrantScopes, EndpointTypeOK, tokenVars
<1>4. CASE Answered(k)
  BY <1>0, <1>4 DEF Answered, Elsewhere, EndpointTypeOK, tokenVars, Stages
<1>5. CASE Checks(k)
  BY <1>0, <1>5 DEF Checks, Elsewhere, EndpointTypeOK, tokenVars, Stages
<1>6. CASE Marks(k)
  <2>1. form[k] \in TokenForm
    BY <1>6, HasTurn DEF Marks, Checked
  <2>2. form[k].proof[2] \in Evidence /\ form[k].scopes \in SUBSET Scopes
    BY <2>1 DEF TokenForm
  <2>3. requester' \in [Calls -> Requester] /\ usedJTIs' \subseteq Evidence
    BY <1>0, <1>6, <2>2 DEF Marks, Requester, EndpointTypeOK
  <2>4. stage' \in [Calls -> Stages]
    BY <1>0, <1>6 DEF Marks, Stages, EndpointTypeOK
  <2>5. QED
    BY <1>0, <1>6, <2>3, <2>4 DEF Marks, Elsewhere, EndpointTypeOK, tokenVars
<1>7. CASE Issues(k)
  <2>1. accessTokens' \in [Calls -> Requester \union {None}]
    BY <1>0, <1>7 DEF Issues, EndpointTypeOK
  <2>2. issued' \in [Calls -> Seq(Requester)]
    BY <1>0, <1>7 DEF Issues, EndpointTypeOK
  <2>3. stage' \in [Calls -> Stages]
    BY <1>0, <1>7 DEF Issues, EndpointTypeOK, Stages
  <2>4. response' \in [Calls -> Status \union {None}]
    <3>1. 200 \in Status
      BY DEF Status
    <3>2. response' = response \/ response' = [response EXCEPT ![k] = 200]
      BY <1>7 DEF Issues
    <3>3. QED
      BY <1>0, <3>1, <3>2 DEF EndpointTypeOK
  <2>5. QED
    BY <1>0, <1>7, <2>1, <2>2, <2>3, <2>4 DEF Issues, Elsewhere, EndpointTypeOK
<1>8. CASE Completes(k)
  <2>1. refreshTokens' \in [Calls -> RefreshToken \union {None}]
    BY <1>0, <1>8 DEF Completes, EndpointTypeOK, RefreshToken
  <2>2. stage' \in [Calls -> Stages] /\ response' \in [Calls -> Status \union {None}]
    BY <1>0, <1>8 DEF Completes, EndpointTypeOK, Stages, Status
  <2>3. QED
    BY <1>0, <1>8, <2>1, <2>2 DEF Completes, Elsewhere, EndpointTypeOK
<1>9. QED
  BY <1>1, <1>2, <1>3, <1>4, <1>5, <1>6, <1>7, <1>8 DEF TokenEffect

LEMMA RevocationType ==
    ASSUME ClientsInv, NEW k \in Calls, RevocationStep(k)
    PROVE  EndpointTypeOK'
<1>0. EndpointTypeOK
  BY DEF ClientsInv
<1>1. CASE \E cred \in RevokeCredentials, kind \in Kinds, t \in Calls :
               RequestRevocation(k, cred, kind, t)
  <2>1. form' \in [Calls -> TokenForm \union RevocationForm \union {None}]
    BY <1>0, <1>1, EndpointAssumption DEF RequestRevocation, EndpointTypeOK, RevocationForm
  <2>2. QED
    BY <1>0, <1>1, <2>1 DEF RequestRevocation, EndpointTypeOK, tokenVars, Stages
<1>2. CASE AuthenticateRevocation(k)
  <2> DEFINE result == AuthenticateClient(clients, form[k].cred)
  <2>1. form[k] # None
    BY <1>2, FormsApart
    DEF AuthenticateRevocation, ClientsInv, CallsInv, Entered, RevocationStages
  <2>2. result[1] = "error" \/ result[2] \in Client
    BY <2>1, Authenticating
  <2>3. RevocationStatus(result[2]) \in Status
        /\ RevocationStatus(<<"ErrInvalidRequest">>) \in Status
    BY RevocationStatusType
  <2> HIDE DEF result
  <2>4. \/ /\ result[2] \in Client
           /\ requester' = [requester EXCEPT ![k].client = result[2]]
           /\ stage' = [stage EXCEPT ![k] = "discover"]
           /\ UNCHANGED response
        \/ /\ \E status \in Status : response' = [response EXCEPT ![k] = status]
           /\ stage' = [stage EXCEPT ![k] = "done"]
           /\ UNCHANGED requester
    BY <1>2, <2>2, <2>3 DEF AuthenticateRevocation, Answer, Enter, result
  <2>5. UNCHANGED <<form, clientErr, turn, storeErr>>
    BY <1>2 DEF AuthenticateRevocation, Answer
  <2>6. requester' \in [Calls -> Requester]
    <3>1. requester \in [Calls -> Requester]
      BY <1>0 DEF EndpointTypeOK
    <3>2. result[2] \in Client => [requester[k] EXCEPT !.client = result[2]] \in Requester
      BY <3>1 DEF Requester
    <3>3. QED
      BY <2>4, <3>1, <3>2
  <2>7. stage' \in [Calls -> Stages]
    BY <1>0, <2>4 DEF EndpointTypeOK, Stages
  <2>8. response' \in [Calls -> Status \union {None}]
    BY <1>0, <2>4 DEF EndpointTypeOK
  <2>9. QED
    BY <1>0, <1>2, <2>5, <2>6, <2>7, <2>8
    DEF AuthenticateRevocation, EndpointTypeOK, tokenVars
<1>3. CASE DiscoverToken(k)
  <2>1. /\ \/ UNCHANGED response
           \/ \E status \in Status : response' = [response EXCEPT ![k] = status]
        /\ \E next \in Stages : stage' = [stage EXCEPT ![k] = next]
        /\ UNCHANGED <<form, requester, clientErr, turn, storeErr>>
    BY <1>3, RevocationStatusType DEF DiscoverToken, Answer, Enter, Stages
  <2>2. response' \in [Calls -> Status \union {None}]
    BY <1>0, <2>1 DEF EndpointTypeOK
  <2>3. stage' \in [Calls -> Stages]
    BY <1>0, <2>1 DEF EndpointTypeOK
  <2>4. faults' \in 0 .. MaxFaults
    BY <1>0, <1>3, FaultsCounted DEF DiscoverToken
  <2>5. QED
    BY <1>0, <1>3, <2>1, <2>2, <2>3, <2>4 DEF DiscoverToken, EndpointTypeOK, tokenVars
<1>4. CASE RevokeRefreshToken(k)
  <2>1. refreshTokens' \in [Calls -> RefreshToken \union {None}]
    <3>1. refreshTokens \in [Calls -> RefreshToken \union {None}]
      BY <1>0 DEF EndpointTypeOK
    <3>2. \A tok \in RefreshToken : [tok EXCEPT !.active = FALSE] \in RefreshToken
      BY DEF RefreshToken
    <3>3. \/ refreshTokens' = refreshTokens
          \/ refreshTokens' = [refreshTokens EXCEPT ![form[k].token] =
                IF @ = None THEN None ELSE [@ EXCEPT !.active = FALSE]]
      BY <1>4 DEF RevokeRefreshToken
    <3>4. QED
      BY <3>1, <3>2, <3>3
  <2>2. storeErr' \in [Calls -> Error]
    BY <1>0, <1>4, Single, UsedLinks DEF RevokeRefreshToken, EndpointTypeOK
  <2>3. faults' \in 0 .. MaxFaults
    BY <1>0, <1>4, FaultsCounted DEF RevokeRefreshToken
  <2>4. QED
    BY <1>0, <1>4, <2>1, <2>2, <2>3 DEF RevokeRefreshToken, Enter, EndpointTypeOK, Stages
<1>5. CASE RevokeAccessToken(k)
  <2>1. /\ \/ UNCHANGED response
           \/ \E status \in Status : response' = [response EXCEPT ![k] = status]
        /\ \E next \in Stages : stage' = [stage EXCEPT ![k] = next]
        /\ UNCHANGED <<form, requester, clientErr, turn, storeErr>>
    BY <1>5, RevocationStatusType DEF RevokeAccessToken, Answer, Enter, Stages
  <2>2. response' \in [Calls -> Status \union {None}]
    BY <1>0, <2>1 DEF EndpointTypeOK
  <2>3. stage' \in [Calls -> Stages]
    BY <1>0, <2>1 DEF EndpointTypeOK
  <2>4. faults' \in 0 .. MaxFaults
    BY <1>0, <1>5, FaultsCounted DEF RevokeAccessToken
  <2>5. accessTokens' \in [Calls -> Requester \union {None}]
    BY <1>0, <1>5 DEF RevokeAccessToken, EndpointTypeOK
  <2>6. QED
    BY <1>0, <1>5, <2>1, <2>2, <2>3, <2>4, <2>5 DEF RevokeAccessToken, EndpointTypeOK
<1>6. QED
  BY <1>1, <1>2, <1>3, <1>4, <1>5 DEF RevocationStep

-----------------------------------------------------------------------------
(* The calls: what a step leaves alone stays true.                         *)

\* The step leaves call j alone, but it may revoke its tokens.
LeavesAlone(j) ==
    /\ stage'[j] = stage[j] /\ form'[j] = form[j] /\ requester'[j] = requester[j]
    /\ clientErr'[j] = clientErr[j] /\ turn'[j] = turn[j]
    /\ response'[j] = response[j] /\ issued'[j] = issued[j]

TokensAge(j) ==
    /\ accessTokens'[j] \in {accessTokens[j], None}
    /\ refreshTokens'[j] # None =>
          /\ refreshTokens[j] # None /\ refreshTokens'[j].req = refreshTokens[j].req
          /\ refreshTokens'[j].active => refreshTokens[j].active

CallInv(j) == Entered(j) /\ Authenticated(j) /\ Issuance(j)

LEMMA CallKept ==
    ASSUME NEW j \in Calls, CallInv(j), LeavesAlone(j), TokensAge(j), UNCHANGED config
    PROVE  CallInv(j)'
<1>1. Served(j)' = Served(j) /\ Grant(j)' = Grant(j) /\ Registered(j)' = Registered(j)
  BY DEF LeavesAlone, Served, Grant, Registered
<1>2. Entered(j)' /\ Authenticated(j)'
  BY <1>1 DEF CallInv, LeavesAlone, Entered, Authenticated
<1>3. Permitted(j) => Permitted(j)'
  BY <1>1 DEF LeavesAlone, Permitted
<1>4. Issuance(j)'
  BY <1>1, <1>3 DEF CallInv, LeavesAlone, TokensAge, Issuance
<1>5. QED
  BY <1>2, <1>4 DEF CallInv

\* The first phase has checked what the second one issues.
LEMMA ChecksPermit ==
    ASSUME ClientsInv, NEW k \in Calls, stage[k] = "handle", Served(k) # {},
           RequestError(k) = nil
    PROVE  Permitted(k)
<1>1. /\ form[k] \in TokenForm /\ form[k] \in TokenForms /\ turn[k] \in Served(k)
      /\ Turn(k) = Grant(k) /\ Grant(k) \in Grants
  BY HasTurn
<1>2. /\ requester[k].client \in Client \/ clientErr[k] # nil
      /\ GrantError(k) = nil
      /\ clientErr[k] # nil => Grant(k) = Jwt /\ config.canSkipClientAuth
  BY <1>1 DEF RequestError, CanSkipClientAuth, ClientsInv, CallsInv, Authenticated
<1>3. requester[k].client \in Client \/ (Grant(k) = Jwt /\ config.canSkipClientAuth)
  BY <1>2
<1>4. /\ WithWrap("ErrInvalidGrant", <<"ErrNotFound">>) # nil
      /\ <<"ErrInvalidScope">> # nil /\ <<"ErrInvalidGrant">> # nil
      /\ <<"ErrUnauthorizedClient">> # nil /\ <<"ErrInvalidRequest">> # nil
      /\ <<"ErrJTIKnown">> # nil
  BY AuthenticationErrors, UsedLinks DEF nil
<1>5. CASE Grant(k) = "client_credentials"
  <2>1. ClientCredentialsError(k) = nil
    BY <1>1, <1>2, <1>5 DEF GrantError, Jwt
  <2>2. Permits(requester[k].client.scopes, k) /\ ~requester[k].client.public
    BY <1>4, <2>1 DEF ClientCredentialsError
  <2>3. QED
    BY <1>1, <1>3, <1>5, <2>2 DEF Permits, Requested, Permitted, Registered, Jwt
<1>6. CASE Grant(k) = "password"
  <2>1. PasswordError(k) = nil
    BY <1>1, <1>2, <1>6 DEF GrantError, Jwt
  <2>2. Permits(requester[k].client.scopes, k) /\ HasGrantType(k, "password")
    BY <1>4, <2>1 DEF PasswordError
  <2>3. QED
    BY <1>1, <1>3, <1>6, <2>2
    DEF Permits, Requested, Permitted, Registered, HasGrantType, Jwt
<1>7. CASE Grant(k) = Jwt
  <2>1. AssertionError(k) = nil
    BY <1>1, <1>2, <1>7 DEF GrantError, Jwt
  <2>2. /\ CheckRequest(k) = nil /\ form[k].proof[1] \in DOMAIN KeyScopes
        /\ Permits(KeyScopes[form[k].proof[1]], k)
    BY <1>4, <2>1 DEF AssertionError
  <2>3. config.canSkipClientAuth \/ HasGrantType(k, Jwt)
    BY <1>4, <2>2 DEF CheckRequest
  <2>4. QED
    BY <1>1, <1>3, <1>7, <2>2, <2>3
    DEF Permits, Requested, Permitted, Registered, HasGrantType, Jwt
<1>8. QED
  BY <1>1, <1>5, <1>6, <1>7 DEF Grants

\* The grant type of client credentials is checked with the response.
LEMMA ResponsePermits ==
    ASSUME ClientsInv, NEW k \in Calls, stage[k] = "populate", ResponseError(k) = nil
    PROVE  Grant(k) = "client_credentials" =>
              Grant(k) \in GetGrantTypes(requester[k].client)
<1>1. Turn(k) = Grant(k)
  BY HasTurn DEF Checked
<1>2. <<"ErrUnauthorizedClient">> # nil
  BY DEF nil
<1>3. QED
  BY <1>1, <1>2 DEF ResponseError, HasGrantType, Jwt

\* A token call touches itself only.
LEMMA TokenMoves ==
    ASSUME EndpointTypeOK, NEW k \in Calls, TokenEffect(k)
    PROVE  /\ UNCHANGED <<config, clients>>
           /\ \A j \in Calls \ {k} :
                 /\ LeavesAlone(j) /\ storeErr'[j] = storeErr[j]
                 /\ accessTokens'[j] = accessTokens[j]
                 /\ refreshTokens'[j] = refreshTokens[j]
<1> USE DEF EndpointTypeOK, LeavesAlone, tokenVars
<1>1. CASE \E f \in TokenForms : Request(k, f)
  BY <1>1 DEF Request
<1>2. CASE Authenticate(k)
  BY <1>2 DEF Authenticate, Enter
<1>3. CASE \E scopes \in SUBSET Scopes : GrantScopes(k, scopes)
  BY <1>3 DEF GrantScopes, Enter
<1>4. CASE Answered(k)
  BY <1>4 DEF Answered, Elsewhere
<1>5. CASE Checks(k)
  BY <1>5 DEF Checks, Elsewhere
<1>6. CASE Marks(k)
  BY <1>6 DEF Marks, Elsewhere
<1>7. CASE Issues(k)
  BY <1>7 DEF Issues, Elsewhere
<1>8. CASE Completes(k)
  BY <1>8 DEF Completes, Elsewhere
<1>9. QED
  BY <1>1, <1>2, <1>3, <1>4, <1>5, <1>6, <1>7, <1>8 DEF TokenEffect

\* What the calls have been permitted stays: form, client and settings do.
LEMMA PermittedKept ==
    ASSUME NEW k \in Calls, Permitted(k), UNCHANGED <<config, form, turn>>,
           requester'[k].client = requester[k].client
    PROVE  Permitted(k)' /\ Grant(k)' = Grant(k)
BY DEF Permitted, Served, Grant, Registered

LEMMA TokenCallInv ==
    ASSUME ClientsInv, NEW k \in Calls, TokenEffect(k)
    PROVE  CallInv(k)'
<1>1. /\ EndpointTypeOK /\ Entered(k) /\ Authenticated(k) /\ Issuance(k)
      /\ 200 \in Status /\ 200 # None
  BY AbsentAssumption DEF ClientsInv, CallsInv, Status
<1> DEFINE Same == /\ accessTokens' = accessTokens /\ refreshTokens' = refreshTokens
                   /\ issued' = issued
<1>2. CASE \E f \in TokenForms : Request(k, f)
  <2>1. PICK f \in TokenForms : Request(k, f)
    BY <1>2
  <2>2. /\ stage[k] = "none" /\ stage'[k] = "token" /\ form'[k] = f
        /\ response'[k] = None /\ requester'[k] = NewRequest /\ Same
        /\ issued[k] = << >> /\ accessTokens[k] = None /\ refreshTokens[k] = None
    BY <1>1, <2>1 DEF Request, EndpointTypeOK, Entered, Issuance, Unissued, tokenVars
  <2>3. Entered(k)'
    BY <2>2 DEF Entered, RevocationStages, TokenStages
  <2>4. Authenticated(k)'
    BY <2>2 DEF Authenticated, NewRequest
  <2>5. Issuance(k)'
    BY <2>2 DEF Issuance, Unissued, Checked
  <2>6. QED
    BY <2>3, <2>4, <2>5 DEF CallInv
<1>3. CASE Authenticate(k)
  <2>1. PICK req \in Requester, err \in Error, first \in {0} \union TokenHandlers :
           /\ stage[k] = "token" /\ form[k] \in TokenForms
           /\ stage' = [stage EXCEPT ![k] = "handle"]
           /\ requester' = [requester EXCEPT ![k] = req]
           /\ clientErr' = [clientErr EXCEPT ![k] = err]
           /\ turn' = [turn EXCEPT ![k] = first]
           /\ Served(k) # {} => first \in Served(k)
           /\ req.scopes = {}
           /\ req.client # Anonymous => Proved(req.client, form[k].cred)
           /\ req.client \in Client \/ err # nil
    BY <1>3, AuthenticateEffect
  <2>2. /\ stage'[k] = "handle" /\ form' = form /\ turn'[k] = first
        /\ clientErr'[k] = err /\ requester'[k] = req
        /\ response'[k] = None /\ Same
        /\ issued[k] = << >> /\ accessTokens[k] = None /\ refreshTokens[k] = None
    BY <1>1, <1>3, <2>1
    DEF Authenticate, EndpointTypeOK, Entered, Issuance, Unissued, tokenVars
  <2>3. Entered(k)'
    BY <2>1, <2>2 DEF Entered, RevocationStages, TokenStages
  <2>4. Served(k)' = Served(k)
    BY <2>2 DEF Served
  <2>5. Authenticated(k)'
    BY <2>1, <2>2, <2>4 DEF Authenticated
  <2>6. Issuance(k)'
    BY <2>2 DEF Issuance, Unissued, Checked
  <2>7. QED
    BY <2>3, <2>5, <2>6 DEF CallInv
<1>4. CASE \E scopes \in SUBSET Scopes : GrantScopes(k, scopes)
  <2>1. PICK scopes \in SUBSET Scopes : GrantScopes(k, scopes)
    BY <1>4
  <2>2. /\ stage[k] = "consent" /\ stage'[k] = "populate" /\ scopes \subseteq form[k].scopes
        /\ UNCHANGED <<form, clientErr, turn, response, config>> /\ Same
        /\ requester'[k].client = requester[k].client
        /\ requester'[k].scopes = requester[k].scopes \union scopes
    BY <1>1, <2>1 DEF GrantScopes, Enter, EndpointTypeOK, Requester, Requested, tokenVars
  <2>3. /\ form[k] \in TokenForms /\ issued[k] = << >> /\ accessTokens[k] = None
        /\ refreshTokens[k] = None /\ response[k] = None /\ Permitted(k)
    BY <1>1, <2>2 DEF Entered, Issuance, TokenStages, Unissued, Checked
  <2>4. Permitted(k)'
    BY <2>2, <2>3, PermittedKept
  <2>5. Entered(k)'
    BY <2>2, <2>3 DEF Entered, TokenStages, RevocationStages
  <2>6. Authenticated(k)'
    BY <1>1, <2>2, <2>3 DEF Authenticated
  <2>7. Issuance(k)'
    BY <2>2, <2>3, <2>4 DEF Issuance, Unissued, Checked
  <2>8. QED
    BY <2>5, <2>6, <2>7 DEF CallInv
<1>5. CASE Answered(k)
  <2>1. /\ stage'[k] = "done" /\ stage[k] \in {"handle", "mark", "populate", "refresh"}
        /\ UNCHANGED <<form, clientErr, turn, config, requester>> /\ Same
        /\ stage[k] = "refresh" => response'[k] = 500
    BY <1>1, <1>5 DEF Answered, Elsewhere, EndpointTypeOK, tokenVars
  <2>2. issued[k] # << >> => stage[k] = "refresh" /\ Grant(k) = "password" /\ Permitted(k)
    BY <1>1, <2>1 DEF Issuance, Unissued, Checked
  <2>3. Grant(k)' = Grant(k) /\ (issued[k] # << >> => Permitted(k)')
    BY <2>1, <2>2, PermittedKept DEF Grant
  <2>4. refreshTokens[k] = None
    BY <1>1, <2>1 DEF Issuance
  <2>5. Entered(k)'
    BY <2>1 DEF Entered, TokenStages, RevocationStages
  <2>6. Authenticated(k)'
    BY <1>1, <2>1 DEF Authenticated
  <2>7. Issuance(k)'
    BY <1>1, <2>1, <2>2, <2>3, <2>4 DEF Issuance, Unissued, Checked, RevocationStages
  <2>8. QED
    BY <2>5, <2>6, <2>7 DEF CallInv
<1>6. CASE Checks(k)
  <2>1. /\ stage[k] = "handle"
        /\ stage'[k] = IF Grant(k) = Jwt THEN "mark" ELSE "consent"
        /\ UNCHANGED <<form, clientErr, turn, config, requester, response>> /\ Same
    BY <1>1, <1>6 DEF Checks, Elsewhere, EndpointTypeOK, tokenVars
  <2>2. Permitted(k) /\ form[k] \in TokenForms
    BY <1>6, ChecksPermit DEF Checks, Permitted
  <2>3. Permitted(k)' /\ Grant(k)' = Grant(k)
    BY <2>1, <2>2, PermittedKept
  <2>4. /\ issued[k] = << >> /\ accessTokens[k] = None
        /\ refreshTokens[k] = None /\ response[k] = None
    BY <1>1, <2>1 DEF Issuance, Unissued, Entered
  <2>5. Entered(k)'
    BY <2>1, <2>2, <2>4 DEF Entered, TokenStages, RevocationStages
  <2>6. Authenticated(k)'
    BY <1>1, <2>1 DEF Authenticated
  <2>7. Issuance(k)'
    BY <2>1, <2>3, <2>4 DEF Issuance, Unissued, Checked
  <2>8. QED
    BY <2>5, <2>6, <2>7 DEF CallInv
<1>7. CASE Marks(k)
  <2>1. /\ stage[k] = "mark" /\ stage'[k] = "consent"
        /\ UNCHANGED <<form, clientErr, turn, config, response>> /\ Same
        /\ requester'[k].client = requester[k].client
        /\ requester'[k].scopes = form[k].scopes
    BY <1>1, <1>7 DEF Marks, Elsewhere, EndpointTypeOK, Requester, tokenVars
  <2>2. /\ issued[k] = << >> /\ accessTokens[k] = None /\ Permitted(k)
        /\ refreshTokens[k] = None /\ response[k] = None /\ form[k] \in TokenForms
    BY <1>1, <2>1 DEF Issuance, Unissued, Checked, Entered, TokenStages
  <2>3. Permitted(k)'
    BY <2>1, <2>2, PermittedKept
  <2>4. Entered(k)'
    BY <2>1, <2>2 DEF Entered, TokenStages, RevocationStages
  <2>5. Authenticated(k)'
    BY <1>1, <2>1, <2>2 DEF Authenticated
  <2>6. Issuance(k)'
    BY <2>1, <2>2, <2>3 DEF Issuance, Unissued, Checked
  <2>7. QED
    BY <2>4, <2>5, <2>6 DEF CallInv
<1>8. CASE Issues(k)
  <2>1. /\ stage[k] = "populate" /\ accessTokens'[k] = requester[k]
        /\ issued'[k] = Append(issued[k], requester[k])
        /\ UNCHANGED <<form, clientErr, turn, config, requester, refreshTokens>>
        /\ \/ stage'[k] = "refresh" /\ Grant(k) = "password" /\ response'[k] = response[k]
           \/ stage'[k] = "done" /\ response'[k] = 200
    BY <1>1, <1>8 DEF Issues, Elsewhere, EndpointTypeOK
  <2>2. /\ issued[k] = << >> /\ Permitted(k) /\ refreshTokens[k] = None
        /\ response[k] = None /\ form[k] \in TokenForms
    BY <1>1, <2>1 DEF Issuance, Unissued, Checked, Entered, TokenStages
  <2>3. issued'[k] = <<requester[k]>>
    BY <2>1, <2>2
  <2>4. Permitted(k)' /\ Grant(k)' = Grant(k)
    BY <2>1, <2>2, PermittedKept
  <2>5. Grant(k) = "client_credentials" => Grant(k) \in GetGrantTypes(requester[k].client)
    BY <1>8, ResponsePermits DEF Issues
  <2>6. Entered(k)'
    BY <2>1, <2>2 DEF Entered, TokenStages, RevocationStages
  <2>7. Authenticated(k)'
    BY <1>1, <2>1 DEF Authenticated
  <2>8. Issuance(k)'
    BY <2>1, <2>2, <2>3, <2>4, <2>5 DEF Issuance, Unissued, Checked, RevocationStages
  <2>9. QED
    BY <2>6, <2>7, <2>8 DEF CallInv
<1>9. CASE Completes(k)
  <2>1. /\ stage[k] = "refresh" /\ stage'[k] = "done" /\ response'[k] = 200
        /\ UNCHANGED <<form, clientErr, turn, config, requester, accessTokens, issued>>
        /\ refreshTokens'[k] = [active |-> TRUE, req |-> requester[k]]
    BY <1>1, <1>9 DEF Completes, Elsewhere, EndpointTypeOK
  <2>2. Permitted(k) /\ issued[k] # << >>
    BY <1>1, <2>1 DEF Issuance, Checked
  <2>3. Permitted(k)' /\ Grant(k)' = Grant(k)
    BY <2>1, <2>2, PermittedKept
  <2>4. Entered(k)'
    BY <2>1 DEF Entered, TokenStages, RevocationStages
  <2>5. Authenticated(k)'
    BY <1>1, <2>1 DEF Authenticated
  <2>6. Issuance(k)'
    BY <1>1, <2>1, <2>2, <2>3 DEF Issuance, Unissued, Checked, RevocationStages
  <2>7. QED
    BY <2>4, <2>5, <2>6 DEF CallInv
<1>10. QED
  BY <1>2, <1>3, <1>4, <1>5, <1>6, <1>7, <1>8, <1>9 DEF TokenEffect

-----------------------------------------------------------------------------
(* The steps of the token endpoint preserve the rest of the invariant.     *)

LEMMA TokenCallForms ==
    ASSUME ClientsInv, NEW k \in Calls, TokenEffect(k)
    PROVE  /\ stage[k] # "done" /\ response[k] = None
           /\ form'[k] \in TokenForms /\ form'[k] \notin RevocationForm
           /\ form[k] \notin RevocationForm
<1>1. EndpointTypeOK /\ Entered(k) /\ Issuance(k)
  BY DEF ClientsInv, CallsInv
<1>2. \/ stage[k] = "none" /\ form'[k] \in TokenForms
      \/ stage[k] \in TokenStages /\ form' = form
  <2>1. CASE \E f \in TokenForms : Request(k, f)
    BY <1>1, <2>1 DEF Request, EndpointTypeOK
  <2>2. CASE ~ \E f \in TokenForms : Request(k, f)
    BY <2>2 DEF TokenEffect, Authenticate, GrantScopes, Answered, Checks, Marks, Issues,
                Completes, Elsewhere, TokenStages
  <2>3. QED
    BY <2>1, <2>2
<1>3. stage[k] # "done" /\ response[k] = None
  BY <1>1, <1>2 DEF Entered, TokenStages
<1>4. form'[k] \in TokenForms /\ form[k] \in TokenForms \union {None}
  BY <1>1, <1>2 DEF Entered
<1>5. QED
  BY <1>3, <1>4, FormsApart, EndpointAssumption

\* Only by marking its JWT ID does a call become one that uses the assertion.
LEMMA AssertedBefore ==
    ASSUME ClientsInv, NEW k \in Calls, TokenEffect(k), Asserted(k)'
    PROVE  form' = form /\ (Asserted(k) \/ Marks(k))
<1>1. EndpointTypeOK /\ Issuance(k) /\ Entered(k)
  BY DEF ClientsInv, CallsInv
<1> USE DEF EndpointTypeOK
<1>2. CASE \E f \in TokenForms : Request(k, f)
  BY <1>1, <1>2 DEF Request, tokenVars, Asserted, Issuance, Unissued
<1>3. CASE Authenticate(k)
  BY <1>1, <1>3 DEF Authenticate, Enter, tokenVars, Asserted, Issuance, Unissued
<1>4. CASE \E scopes \in SUBSET Scopes : GrantScopes(k, scopes)
  <2>1. form' = form /\ stage[k] = "consent"
    BY <1>4 DEF GrantScopes
  <2>2. QED
    BY <2>1 DEF Asserted, Grant
<1>5. CASE Answered(k)
  <2>1. form' = form /\ stage'[k] = "done" /\ issued' = issued
    BY <1>1, <1>5 DEF Answered, Elsewhere, tokenVars
  <2>2. QED
    BY <2>1 DEF Asserted, Grant
<1>6. CASE Checks(k)
  <2>1. /\ form' = form /\ issued' = issued /\ stage[k] = "handle"
        /\ stage'[k] = IF Grant(k) = Jwt THEN "mark" ELSE "consent"
    BY <1>1, <1>6 DEF Checks, Elsewhere, tokenVars
  <2>2. issued[k] = << >>
    BY <1>1, <2>1 DEF Issuance, Unissued
  <2>3. QED
    BY <2>1, <2>2 DEF Asserted, Grant
<1>7. CASE Marks(k)
  BY <1>7 DEF Marks, Elsewhere
<1>8. CASE Issues(k)
  <2>1. form' = form /\ stage[k] = "populate"
    BY <1>8 DEF Issues, Elsewhere
  <2>2. QED
    BY <2>1 DEF Asserted, Grant
<1>9. CASE Completes(k)
  <2>1. form' = form /\ stage[k] = "refresh"
    BY <1>9 DEF Completes, Elsewhere
  <2>2. QED
    BY <2>1 DEF Asserted, Grant
<1>10. QED
  BY <1>2, <1>3, <1>4, <1>5, <1>6, <1>7, <1>8, <1>9 DEF TokenEffect

LEMMA IDsStayUsed ==
    ASSUME NEW k \in Calls, TokenEffect(k)
    PROVE  usedJTIs \subseteq usedJTIs'
BY DEF TokenEffect, Request, Authenticate, GrantScopes, Answered, Checks, Marks, Issues,
       Completes

LEMMA TokenAssertions ==
    ASSUME ClientsInv, AssertionsUsedOnce, NEW k \in Calls, TokenEffect(k)
    PROVE  AssertionsUsedOnce'
<1>1. usedJTIs \subseteq usedJTIs'
  BY IDsStayUsed
<1>2. ASSUME NEW j \in Calls, j # k
      PROVE  Asserted(j)' = Asserted(j) /\ form'[j] = form[j]
  BY <1>2, TokenMoves DEF ClientsInv, LeavesAlone, Asserted, Grant
<1>3. Asserted(k)' => form' = form /\ (Asserted(k) \/ Marks(k))
  BY AssertedBefore
<1>4. ASSUME NEW j \in Calls, Asserted(j)' PROVE form'[j].proof[2] \in usedJTIs'
  <2>1. CASE j # k \/ ~Marks(k)
    BY <1>1, <1>2, <1>3, <1>4, <2>1 DEF AssertionsUsedOnce
  <2>2. CASE j = k /\ Marks(k)
    BY <1>4, <2>2 DEF Marks, Elsewhere, Asserted
  <2>3. QED
    BY <2>1, <2>2
<1>5. ASSUME NEW i \in Calls, NEW j \in Calls, Asserted(i)', Asserted(j)',
             form'[i].proof[2] = form'[j].proof[2]
      PROVE  i = j
  <2>1. CASE ~Marks(k)
    BY <1>2, <1>3, <1>5, <2>1 DEF AssertionsUsedOnce
  <2>2. CASE Marks(k)
    <3>1. form' = form /\ form[k].proof[2] \notin usedJTIs
      BY <2>2 DEF Marks, Elsewhere
    <3>2. ASSUME NEW l \in Calls, l # k, Asserted(l)'
          PROVE  Asserted(l) /\ form[l].proof[2] \in usedJTIs
      BY <1>2, <3>2 DEF AssertionsUsedOnce
    <3>3. QED
      BY <1>2, <1>5, <3>1, <3>2 DEF AssertionsUsedOnce
  <2>3. QED
    BY <2>1, <2>2
<1>6. QED
  BY <1>4, <1>5 DEF AssertionsUsedOnce

\* A call that is under way has no revocation yet.
LEMMA TokenRevocations ==
    ASSUME ClientsInv, RevocationsInv, NEW k \in Calls, TokenEffect(k)
    PROVE  RevocationsInv'
<1>1. /\ response[k] = None /\ form'[k] \notin RevocationForm
      /\ form[k] \notin RevocationForm
      /\ EndpointTypeOK /\ 200 # None
  BY TokenCallForms, AbsentAssumption DEF Status, ClientsInv
<1>2. \A j \in Calls \ {k} :
         /\ LeavesAlone(j) /\ storeErr'[j] = storeErr[j]
         /\ accessTokens'[j] = accessTokens[j] /\ refreshTokens'[j] = refreshTokens[j]
  BY <1>1, TokenMoves
<1>3. ASSUME NEW r \in Calls PROVE Revoking(r)'
  <2>1. CASE r = k
    BY <1>1, <2>1 DEF Revoking
  <2>2. CASE r # k
    <3>1. SUFFICES ASSUME form[r] \in RevocationForm PROVE Revoking(r)'
      BY <1>2, <2>2 DEF Revoking, LeavesAlone
    <3> DEFINE t == form[r].token
    <3>2. Revoking(r) /\ t \in Calls /\ t # k
      BY <1>1, <3>1 DEF RevocationsInv, Revoking, RevocationForm
    <3>3. /\ response'[t] = response[t] /\ issued'[t] = issued[t]
          /\ refreshTokens'[t] = refreshTokens[t]
          /\ form'[r] = form[r] /\ stage'[r] = stage[r]
          /\ requester'[r] = requester[r] /\ storeErr'[r] = storeErr[r]
      BY <1>2, <2>2, <3>2 DEF LeavesAlone
    <3>4. QED
      BY <3>1, <3>2, <3>3 DEF Revoking
  <2>3. QED
    BY <2>1, <2>2
<1>4. ASSUME NEW j \in Calls PROVE RevokedFor(j)'
  <2>1. CASE j # k
    <3>1. SUFFICES ASSUME issued[j] # << >>, accessTokens[j] = None
                   PROVE  RevokedFor(j)'
      BY <1>2, <2>1 DEF RevokedFor, LeavesAlone
    <3>2. PICK r \in Calls :
             /\ form[r] \in RevocationForm /\ form[r].token = j
             /\ requester[r].client \in Client
             /\ issued[j][1].client # Anonymous
             /\ requester[r].client.id = issued[j][1].client.id
             /\ stage[r] = "done"
             /\ refreshTokens[j] # None /\ refreshTokens[j].active
                => storeErr[r] # nil
      BY <3>1 DEF RevocationsInv, RevokedFor
    <3>3. r # k
      BY <1>1, <3>2
    <3>4. QED
      BY <1>2, <2>1, <3>2, <3>3 DEF RevokedFor, LeavesAlone
  <2>2. CASE j = k
    <3>1. issued[k] = << >> \/ accessTokens[k] # None
      BY <1>1 DEF RevocationsInv, RevokedFor, Revoking
    <3>2. (issued' = issued /\ accessTokens' = accessTokens) \/ Issues(k)
      BY DEF TokenEffect, Request, Authenticate, GrantScopes, Answered, Checks, Marks,
             Completes, tokenVars
    <3>3. Issues(k) => accessTokens'[k] # None
      <4>1. requester[k] # None
        BY <1>1, AbsentAssumption DEF EndpointTypeOK
      <4>2. QED
        BY <1>1, <4>1 DEF Issues, EndpointTypeOK
    <3>4. QED
      BY <2>2, <3>1, <3>2, <3>3 DEF RevokedFor
  <2>3. QED
    BY <2>1, <2>2
<1>5. ASSUME NEW j \in Calls PROVE DeactivatedFor(j)'
  <2>1. CASE j # k
    <3>1. SUFFICES ASSUME issued[j] # << >>, refreshTokens[j] # None,
                          ~refreshTokens[j].active
                   PROVE  DeactivatedFor(j)'
      BY <1>2, <2>1 DEF DeactivatedFor, LeavesAlone
    <3>2. PICK r \in Calls :
             /\ form[r] \in RevocationForm /\ form[r].token = j
             /\ requester[r].client \in Client
             /\ issued[j][1].client # Anonymous
             /\ requester[r].client.id = issued[j][1].client.id
             /\ stage[r] \in {"revoke_access", "done"}
      BY <3>1 DEF RevocationsInv, DeactivatedFor
    <3>3. r # k
      BY <1>1, <3>2
    <3>4. QED
      BY <1>2, <2>1, <3>2, <3>3 DEF DeactivatedFor, LeavesAlone
  <2>2. CASE j = k
    <3>1. issued[k] = << >> \/ refreshTokens[k] = None \/ refreshTokens[k].active
      BY <1>1 DEF RevocationsInv, DeactivatedFor, Revoking
    <3>2. \/ issued' = issued /\ refreshTokens' = refreshTokens
          \/ Issues(k) \/ Completes(k)
      BY DEF TokenEffect, Request, Authenticate, GrantScopes, Answered, Checks, Marks,
             tokenVars
    <3>3. Issues(k) => refreshTokens'[k] = None
      BY <1>1 DEF Issues, ClientsInv, CallsInv, Issuance, Unissued
    <3>4. Completes(k) => refreshTokens'[k].active
      BY <1>1 DEF Completes, EndpointTypeOK
    <3>5. QED
      BY <2>2, <3>1, <3>2, <3>3, <3>4 DEF DeactivatedFor
  <2>3. QED
    BY <2>1, <2>2
<1>6. QED
  BY <1>3, <1>4, <1>5 DEF RevocationsInv

LEMMA TokenStepInv ==
    ASSUME EndpointInv, NEW k \in Calls, TokenStep(k)
    PROVE  EndpointInv'
<1>1. ClientsInv /\ AssertionsUsedOnce /\ RevocationsInv /\ EndpointTypeOK
  BY DEF EndpointInv, ClientsInv
<1>2. TokenEffect(k)
  BY <1>1, TokenEffects
<1>3. EndpointTypeOK' /\ CallInv(k)' /\ AssertionsUsedOnce' /\ RevocationsInv'
  BY <1>1, <1>2, TokenType, TokenCallInv, TokenAssertions, TokenRevocations
<1>4. UNCHANGED <<config, clients>>
  BY <1>1, <1>2, TokenMoves
<1>5. ASSUME NEW j \in Calls, j # k PROVE CallInv(j)'
  <2>1. LeavesAlone(j) /\ TokensAge(j)
    BY <1>1, <1>2, <1>5, TokenMoves DEF TokensAge
  <2>2. CallInv(j)
    BY <1>1 DEF ClientsInv, CallsInv, CallInv
  <2>3. QED
    BY <1>4, <2>1, <2>2, CallKept
<1>6. CallsInv'
  BY <1>3, <1>5 DEF CallsInv, CallInv
<1>7. ClientsNamed'
  BY <1>4 DEF EndpointInv, ClientsNamed
<1>8. QED
  BY <1>3, <1>6, <1>7 DEF EndpointInv

-----------------------------------------------------------------------------
(* The steps of the revocation endpoint.                                   *)

LEMMA RevocationForms ==
    ASSUME ClientsInv, NEW k \in Calls, RevocationStep(k)
    PROVE  /\ stage[k] # "done" /\ response[k] = None /\ issued[k] = << >>
           /\ accessTokens[k] = None /\ refreshTokens[k] = None
           /\ requester[k].scopes = {}
           /\ stage[k] = "none" \/ (stage[k] \in RevocationStages
                                    /\ form[k] \in RevocationForm /\ form' = form)
<1>1. EndpointTypeOK /\ Entered(k) /\ Issuance(k) /\ Authenticated(k)
  BY DEF ClientsInv, CallsInv
<1>2. stage[k] = "none" \/ (stage[k] \in RevocationStages /\ form' = form)
  BY DEF RevocationStep, RequestRevocation, AuthenticateRevocation, DiscoverToken,
         RevokeRefreshToken, RevokeAccessToken, Answer, RevocationStages
<1>3. /\ stage[k] # "done" /\ response[k] = None /\ issued[k] = << >>
      /\ accessTokens[k] = None /\ refreshTokens[k] = None
      /\ stage[k] = "none" \/ form[k] \in RevocationForm
  BY <1>1, <1>2 DEF Entered, Issuance, Unissued, RevocationStages
<1>4. requester[k].scopes = {}
  <2>1. CASE stage[k] = "none"
    BY <1>1, <2>1 DEF Entered, NewRequest
  <2>2. CASE form[k] \in RevocationForm
    <3>1. form[k] \notin TokenForms
      BY <2>2, FormsApart, EndpointAssumption
    <3>2. QED
      BY <1>1, <3>1 DEF Authenticated, EndpointTypeOK, Requester
  <2>3. QED
    BY <1>3, <2>1, <2>2
<1>5. QED
  BY <1>2, <1>3, <1>4

\* A revocation touches itself, and revokes tokens that others have issued.
LEMMA RevocationMoves ==
    ASSUME ClientsInv, NEW k \in Calls, RevocationStep(k)
    PROVE  /\ UNCHANGED <<config, clients, usedJTIs, issued>>
           /\ \A j \in Calls : TokensAge(j)
           /\ \A j \in Calls \ {k} : LeavesAlone(j) /\ storeErr'[j] = storeErr[j]
<1>1. EndpointTypeOK
  BY DEF ClientsInv
<1> USE DEF EndpointTypeOK, LeavesAlone, TokensAge, tokenVars, Enter
<1>2. CASE \E cred \in RevokeCredentials, kind \in Kinds, t \in Calls :
              RequestRevocation(k, cred, kind, t)
  BY <1>1, <1>2 DEF RequestRevocation
<1>3. CASE AuthenticateRevocation(k)
  BY <1>1, <1>3 DEF AuthenticateRevocation, Answer
<1>4. CASE DiscoverToken(k)
  BY <1>1, <1>4 DEF DiscoverToken, Answer
<1>5. CASE RevokeRefreshToken(k)
  <2>1. /\ UNCHANGED <<config, clients, usedJTIs, issued, accessTokens>>
        /\ \A j \in Calls \ {k} : LeavesAlone(j) /\ storeErr'[j] = storeErr[j]
    BY <1>1, <1>5 DEF RevokeRefreshToken
  <2>2. ASSUME NEW j \in Calls PROVE TokensAge(j)
    <3>1. \/ refreshTokens'[j] = refreshTokens[j]
          \/ refreshTokens[j] = None /\ refreshTokens'[j] = None
          \/ /\ refreshTokens[j] # None
             /\ refreshTokens'[j] = [refreshTokens[j] EXCEPT !.active = FALSE]
      BY <1>1, <1>5 DEF RevokeRefreshToken
    <3>2. refreshTokens[j] # None => refreshTokens[j] \in RefreshToken
      BY <1>1
    <3>3. CASE /\ refreshTokens[j] # None
               /\ refreshTokens'[j] = [refreshTokens[j] EXCEPT !.active = FALSE]
      BY <2>1, <3>2, <3>3 DEF RefreshToken
    <3>4. QED
      BY <2>1, <3>1, <3>3
  <2>3. QED
    BY <2>1, <2>2
<1>6. CASE RevokeAccessToken(k)
  BY <1>1, <1>6 DEF RevokeAccessToken, Answer
<1>7. QED
  BY <1>2, <1>3, <1>4, <1>5, <1>6 DEF RevocationStep

\* Where a revocation goes on to, and for whom.
LEMMA RevocationCall ==
    ASSUME ClientsInv, NEW k \in Calls, RevocationStep(k)
    PROVE  CallInv(k)'
<1>1. /\ EndpointTypeOK /\ Entered(k) /\ Authenticated(k)
      /\ form[k] \in RevocationForm => form[k] # None
  BY FormsApart DEF ClientsInv, CallsInv
<1>2. /\ response[k] = None /\ issued[k] = << >> /\ requester[k].scopes = {}
      /\ stage[k] = "none" \/ (stage[k] \in RevocationStages
                               /\ form[k] \in RevocationForm /\ form' = form)
  BY RevocationForms
<1>3. issued'[k] = << >> /\ accessTokens'[k] = None /\ refreshTokens'[k] = None
  BY <1>2, RevocationForms, RevocationMoves DEF TokensAge
<1>4. ASSUME stage'[k] \notin Checked PROVE Issuance(k)'
  BY <1>3, <1>4 DEF Issuance, Checked
<1>5. CASE \E cred \in RevokeCredentials, kind \in Kinds, t \in Calls :
              RequestRevocation(k, cred, kind, t)
  <2>1. /\ stage[k] = "none" /\ stage'[k] = "revocation" /\ form'[k] \in RevocationForm
        /\ requester' = requester /\ response'[k] = None
    BY <1>1, <1>2, <1>5, EndpointAssumption
    DEF RequestRevocation, EndpointTypeOK, RevocationForm
  <2>2. requester[k] = NewRequest
    BY <1>1, <2>1 DEF Entered
  <2>3. Entered(k)' /\ Authenticated(k)'
    BY <2>1, <2>2 DEF Entered, Authenticated, NewRequest, TokenStages, RevocationStages
  <2>4. QED
    BY <1>4, <2>1, <2>3 DEF CallInv, Checked
<1>6. CASE AuthenticateRevocation(k)
  <2>1. stage[k] = "revocation" /\ requester[k] = NewRequest /\ form[k] \in RevocationForm
    BY <1>1, <1>2, <1>6 DEF AuthenticateRevocation, Entered
  <2>2. \/ stage'[k] = "done" /\ requester' = requester
        \/ /\ stage'[k] = "discover" /\ response' = response
           /\ requester'[k].client \in Client /\ requester'[k].scopes = {}
           /\ Proved(requester'[k].client, form[k].cred)
    <3> DEFINE result == AuthenticateClient(clients, form[k].cred)
    <3>1. \/ /\ result[1] # "error"
             /\ result[2] \in Client /\ Proved(result[2], form[k].cred)
          \/ result[1] = "error"
      BY <1>1, <2>1, Authenticating
    <3>2. \/ stage'[k] = "done" /\ requester' = requester
          \/ /\ result[1] # "error" /\ stage'[k] = "discover" /\ response' = response
             /\ requester' = [requester EXCEPT ![k].client = result[2]]
      BY <1>1, <1>6 DEF AuthenticateRevocation, Answer, Enter, EndpointTypeOK
    <3> HIDE DEF result
    <3>3. requester' = [requester EXCEPT ![k].client = result[2]] =>
             requester'[k].client = result[2] /\ requester'[k].scopes = {}
      BY <1>1, <2>1 DEF EndpointTypeOK, Requester, NewRequest
    <3>4. QED
      BY <3>1, <3>2, <3>3
  <2>3. Entered(k)'
    BY <1>2, <2>1, <2>2 DEF Entered, TokenStages, RevocationStages
  <2>4. Authenticated(k)'
    BY <1>1, <1>2, <2>1, <2>2 DEF Authenticated
  <2>5. QED
    BY <1>4, <2>2, <2>3, <2>4 DEF CallInv, Checked
<1>7. CASE DiscoverToken(k) \/ RevokeRefreshToken(k) \/ RevokeAccessToken(k)
  <2>1. /\ stage[k] \in {"discover", "revoke_refresh", "revoke_access"}
        /\ stage'[k] \in {"revoke_refresh", "revoke_access", "done"}
        /\ requester' = requester /\ (stage'[k] # "done" => response' = response)
    BY <1>1, <1>7 DEF DiscoverToken, RevokeRefreshToken, RevokeAccessToken, Answer, Enter,
                      EndpointTypeOK
  <2>2. Entered(k)' /\ Authenticated(k)'
    BY <1>1, <1>2, <2>1
    DEF Entered, Authenticated, TokenStages, RevocationStages
  <2>3. QED
    BY <1>4, <2>1, <2>2 DEF CallInv, Checked
<1>8. QED
  BY <1>5, <1>6, <1>7 DEF RevocationStep

LEMMA RevocationAssertions ==
    ASSUME ClientsInv, AssertionsUsedOnce, NEW k \in Calls, RevocationStep(k)
    PROVE  AssertionsUsedOnce'
<1>1. usedJTIs' = usedJTIs
  BY RevocationMoves
<1>2. ASSUME NEW j \in Calls, Asserted(j)' PROVE Asserted(j) /\ form'[j] = form[j]
  <2>1. j # k
    <3>1. issued'[k] = << >>
      BY RevocationForms, RevocationMoves
    <3>2. stage'[k] \notin {"consent", "populate", "refresh"}
      BY DEF RevocationStep, RequestRevocation, AuthenticateRevocation, DiscoverToken,
             RevokeRefreshToken, RevokeAccessToken, Answer, Enter, ClientsInv,
             EndpointTypeOK
    <3>3. QED
      BY <1>2, <3>1, <3>2 DEF Asserted
  <2>2. LeavesAlone(j)
    BY <2>1, RevocationMoves
  <2>3. QED
    BY <1>2, <2>2 DEF LeavesAlone, Asserted, Grant
<1>3. QED
  BY <1>1, <1>2 DEF AssertionsUsedOnce

\* What the revocation has compared, and what its writes have done.
LEMMA RevokingStep ==
    ASSUME ClientsInv, RevocationsInv, NEW k \in Calls, RevocationStep(k)
    PROVE  Revoking(k)'
<1>1. EndpointTypeOK /\ response[k] = None /\ 200 # None /\ Revoking(k)
  BY RevocationForms, AbsentAssumption DEF ClientsInv, Status, RevocationsInv
<1>2. CASE \E cred \in RevokeCredentials, kind \in Kinds, t \in Calls :
              RequestRevocation(k, cred, kind, t)
  <2>1. PICK cred \in RevokeCredentials, kind \in Kinds, t \in Calls :
           RequestRevocation(k, cred, kind, t)
    BY <1>2
  <2>2. /\ form'[k] = [cred |-> cred, kind |-> kind, token |-> t]
        /\ stage'[k] = "revocation" /\ response' = response /\ issued' = issued
        /\ response[t] = 200 /\ issued[t] # << >>
    BY <1>1, <2>1 DEF RequestRevocation, EndpointTypeOK, tokenVars
  <2>3. form'[k].token = t
    BY <2>2
  <2>4. QED
    BY <2>2, <2>3 DEF Revoking
<1>3. CASE ~ \E cred \in RevokeCredentials, kind \in Kinds, t \in Calls :
              RequestRevocation(k, cred, kind, t)
  <2> DEFINE t == form[k].token
  <2>1. /\ form' = form /\ form[k] \in RevocationForm /\ t \in Calls /\ t # k
        /\ response'[t] = response[t] /\ issued' = issued
        /\ response[t] = 200 /\ issued[t] # << >>
    <3>1. stage[k] # "none"
      BY <1>3 DEF RevocationStep, AuthenticateRevocation, DiscoverToken,
                  RevokeRefreshToken, RevokeAccessToken
    <3>2. form' = form /\ form[k] \in RevocationForm
      BY <3>1, RevocationForms
    <3>3. t \in Calls /\ t # k /\ response[t] = 200 /\ issued[t] # << >>
      BY <1>1, <3>2 DEF Revoking, RevocationForm
    <3>4. QED
      BY <3>2, <3>3, RevocationMoves DEF LeavesAlone
  <2>2. SUFFICES
          /\ stage'[k] \in {"revoke_refresh", "revoke_access"} =>
                /\ issued[t][1].client # Anonymous
                /\ issued[t][1].client.id = requester'[k].client.id
          /\ /\ stage'[k] = "revoke_access"
             /\ refreshTokens'[t] # None /\ refreshTokens'[t].active
             => storeErr'[k] # nil
    BY <2>1 DEF Revoking
  <2>3. CASE AuthenticateRevocation(k)
    BY <1>1, <2>3 DEF AuthenticateRevocation, Answer, Enter, EndpointTypeOK
  <2>4. CASE DiscoverToken(k)
    <3>1. requester' = requester /\ stage'[k] \in {"done", "revoke_refresh"}
      BY <1>1, <2>4 DEF DiscoverToken, Answer, Enter, EndpointTypeOK
    <3>2. ASSUME stage'[k] = "revoke_refresh"
          PROVE  Found(k) # None /\ Owns(k, Found(k))
      BY <1>1, <2>4, <3>2 DEF DiscoverToken, Answer, Enter, EndpointTypeOK
    <3>3. Found(k) # None => Found(k) = issued[t][1]
      <4>1. Issuance(t)
        BY <2>1 DEF ClientsInv, CallsInv
      <4>2. issued[t][1] = requester[t]
        BY <2>1, <4>1 DEF Issuance
      <4>3. QED
        BY <4>1, <4>2 DEF Issuance, Found
    <3>4. QED
      BY <3>1, <3>2, <3>3 DEF Owns
  <2>5. CASE RevokeRefreshToken(k)
    <3>1. requester' = requester /\ stage[k] = "revoke_refresh"
      BY <2>5 DEF RevokeRefreshToken
    <3> DEFINE revoked == IF refreshTokens[t] = None THEN None
                          ELSE [refreshTokens[t] EXCEPT !.active = FALSE]
    <3>2. \/ refreshTokens' = [refreshTokens EXCEPT ![t] = revoked]
          \/ storeErr' = [storeErr EXCEPT ![k] = <<"errStorage">>]
      BY <2>5 DEF RevokeRefreshToken
    <3>3. revoked = None \/ ~revoked.active
      <4>1. refreshTokens[t] # None => refreshTokens[t] \in RefreshToken
        BY <1>1, <2>1 DEF EndpointTypeOK
      <4>2. QED
        BY <4>1 DEF RefreshToken
    <3> HIDE DEF revoked
    <3>4. refreshTokens'[t] = revoked \/ storeErr'[k] = <<"errStorage">>
      BY <1>1, <2>1, <3>2 DEF EndpointTypeOK
    <3>5. /\ issued[t][1].client # Anonymous
          /\ issued[t][1].client.id = requester[k].client.id
      BY <1>1, <2>1, <3>1 DEF Revoking
    <3>6. <<"errStorage">> # nil
      BY DEF nil
    <3>7. QED
      BY <3>1, <3>3, <3>4, <3>5, <3>6
  <2>6. CASE RevokeAccessToken(k)
    BY <1>1, <2>6 DEF RevokeAccessToken, Answer, Enter, EndpointTypeOK
  <2>7. QED
    BY <1>3, <2>3, <2>4, <2>5, <2>6 DEF RevocationStep
<1>4. QED
  BY <1>2, <1>3

LEMMA RevocationRevocations ==
    ASSUME ClientsInv, RevocationsInv, NEW k \in Calls, RevocationStep(k)
    PROVE  RevocationsInv'
<1>1. /\ EndpointTypeOK /\ response[k] = None /\ 200 # None /\ stage[k] # "done"
      /\ issued[k] = << >> /\ issued' = issued
  BY RevocationForms, RevocationMoves, AbsentAssumption DEF ClientsInv, Status
<1>2. \A j \in Calls \ {k} : LeavesAlone(j) /\ storeErr'[j] = storeErr[j]
  BY RevocationMoves
<1>3. ASSUME NEW r \in Calls, r # k PROVE Revoking(r)'
  <2>1. SUFFICES ASSUME form[r] \in RevocationForm PROVE Revoking(r)'
    BY <1>2, <1>3 DEF Revoking, LeavesAlone
  <2> DEFINE t == form[r].token
  <2>2. Revoking(r) /\ t \in Calls /\ t # k
    BY <1>1, <2>1 DEF RevocationsInv, Revoking, RevocationForm
  <2>3. /\ response'[t] = response[t] /\ issued'[t] = issued[t]
        /\ form'[r] = form[r] /\ stage'[r] = stage[r]
        /\ requester'[r] = requester[r] /\ storeErr'[r] = storeErr[r]
    BY <1>1, <1>2, <1>3, <2>2 DEF LeavesAlone
  <2>4. refreshTokens'[t] # None /\ refreshTokens'[t].active =>
           refreshTokens[t] # None /\ refreshTokens[t].active
    BY <2>2, RevocationMoves DEF TokensAge
  <2>5. QED
    BY <2>1, <2>2, <2>3, <2>4 DEF Revoking
<1>4. ASSUME NEW j \in Calls PROVE RevokedFor(j)'
  <2>1. SUFFICES ASSUME issued[j] # << >>, accessTokens'[j] = None
                 PROVE  RevokedFor(j)'
    BY <1>1 DEF RevokedFor
  <2>2. refreshTokens'[j] # None /\ refreshTokens'[j].active =>
           refreshTokens[j] # None /\ refreshTokens[j].active
    BY RevocationMoves DEF TokensAge
  <2>3. CASE accessTokens[j] = None
    <3>1. PICK r \in Calls :
             /\ form[r] \in RevocationForm /\ form[r].token = j
             /\ requester[r].client \in Client
             /\ issued[j][1].client # Anonymous
             /\ requester[r].client.id = issued[j][1].client.id
             /\ stage[r] = "done"
             /\ refreshTokens[j] # None /\ refreshTokens[j].active
                => storeErr[r] # nil
      BY <2>1, <2>3 DEF RevocationsInv, RevokedFor
    <3>2. /\ form'[r] = form[r] /\ stage'[r] = stage[r]
          /\ requester'[r] = requester[r] /\ storeErr'[r] = storeErr[r]
      BY <1>1, <1>2, <3>1 DEF LeavesAlone
    <3>3. QED
      BY <1>1, <2>2, <3>1, <3>2 DEF RevokedFor
  <2>4. CASE accessTokens[j] # None
    <3>1. RevokeAccessToken(k) /\ form[k].token = j
      BY <1>1, <2>1, <2>4
      DEF RevocationStep, RequestRevocation, AuthenticateRevocation, DiscoverToken,
          RevokeRefreshToken, RevokeAccessToken, tokenVars, EndpointTypeOK
    <3>2. /\ stage[k] = "revoke_access" /\ stage'[k] = "done" /\ form' = form
          /\ requester' = requester /\ storeErr' = storeErr
          /\ refreshTokens' = refreshTokens
      BY <1>1, <3>1 DEF RevokeAccessToken, Answer, Enter, EndpointTypeOK
    <3>3. /\ form[k] \in RevocationForm /\ requester[k].client \in Client
      BY <3>2 DEF ClientsInv, CallsInv, Entered, Authenticated, RevocationStages
    <3>4. /\ issued[j][1].client # Anonymous
          /\ issued[j][1].client.id = requester[k].client.id
          /\ refreshTokens[j] # None /\ refreshTokens[j].active => storeErr[k] # nil
      BY <3>1, <3>2, <3>3 DEF RevocationsInv, Revoking
    <3>5. QED
      BY <1>1, <3>1, <3>2, <3>3, <3>4 DEF RevokedFor
  <2>5. QED
    BY <2>3, <2>4
<1>5. ASSUME NEW j \in Calls PROVE DeactivatedFor(j)'
  <2>1. SUFFICES ASSUME issued[j] # << >>, refreshTokens'[j] # None,
                        ~refreshTokens'[j].active
                 PROVE  DeactivatedFor(j)'
    BY <1>1 DEF DeactivatedFor
  <2>2. CASE refreshTokens[j] # None /\ ~refreshTokens[j].active
    <3>1. PICK r \in Calls :
             /\ form[r] \in RevocationForm /\ form[r].token = j
             /\ requester[r].client \in Client
             /\ issued[j][1].client # Anonymous
             /\ requester[r].client.id = issued[j][1].client.id
             /\ stage[r] \in {"revoke_access", "done"}
      BY <2>1, <2>2 DEF RevocationsInv, DeactivatedFor
    <3>2. /\ form'[r] = form[r] /\ requester'[r] = requester[r]
          /\ stage'[r] \in {"revoke_access", "done"}
      <4>1. CASE r # k
        BY <1>2, <3>1, <4>1 DEF LeavesAlone
      <4>2. CASE r = k
        <5>1. stage[k] = "revoke_access"
          BY <1>1, <3>1, <4>2
        <5>2. RevokeAccessToken(k)
          BY <5>1 DEF RevocationStep, RequestRevocation, AuthenticateRevocation,
                      DiscoverToken, RevokeRefreshToken
        <5>3. QED
          BY <1>1, <4>2, <5>2 DEF RevokeAccessToken, Answer, Enter, EndpointTypeOK
      <4>3. QED
        BY <4>1, <4>2
    <3>3. QED
      BY <1>1, <3>1, <3>2 DEF DeactivatedFor
  <2>3. CASE ~(refreshTokens[j] # None /\ ~refreshTokens[j].active)
    <3>1. RevokeRefreshToken(k) /\ form[k].token = j
      BY <1>1, <2>1, <2>3
      DEF RevocationStep, RequestRevocation, AuthenticateRevocation, DiscoverToken,
          RevokeRefreshToken, RevokeAccessToken, tokenVars, EndpointTypeOK
    <3>2. /\ stage[k] = "revoke_refresh" /\ stage'[k] = "revoke_access"
          /\ form' = form /\ requester' = requester
      BY <1>1, <3>1 DEF RevokeRefreshToken, Enter, EndpointTypeOK
    <3>3. /\ form[k] \in RevocationForm /\ requester[k].client \in Client
      BY <3>2 DEF ClientsInv, CallsInv, Entered, Authenticated, RevocationStages
    <3>4. /\ issued[j][1].client # Anonymous
          /\ issued[j][1].client.id = requester[k].client.id
      BY <3>1, <3>2, <3>3 DEF RevocationsInv, Revoking
    <3>5. QED
      BY <1>1, <3>1, <3>2, <3>3, <3>4 DEF DeactivatedFor
  <2>4. QED
    BY <2>2, <2>3
<1>6. QED
  BY <1>3, <1>4, <1>5, RevokingStep DEF RevocationsInv

LEMMA RevocationStepInv ==
    ASSUME EndpointInv, NEW k \in Calls, RevocationStep(k)
    PROVE  EndpointInv'
<1>1. ClientsInv /\ AssertionsUsedOnce /\ RevocationsInv
  BY DEF EndpointInv, ClientsInv
<1>2. /\ EndpointTypeOK' /\ CallInv(k)' /\ AssertionsUsedOnce' /\ RevocationsInv'
      /\ UNCHANGED <<config, clients>>
  BY <1>1, RevocationType, RevocationCall, RevocationAssertions, RevocationRevocations,
     RevocationMoves
<1>3. ASSUME NEW j \in Calls, j # k PROVE CallInv(j)'
  <2>1. LeavesAlone(j) /\ TokensAge(j) /\ CallInv(j)
    BY <1>1, <1>3, RevocationMoves DEF ClientsInv, CallsInv, CallInv
  <2>2. QED
    BY <1>2, <2>1, CallKept
<1>4. CallsInv'
  BY <1>2, <1>3 DEF CallsInv, CallInv
<1>5. ClientsNamed'
  BY <1>2 DEF EndpointInv, ClientsNamed
<1>6. QED
  BY <1>2, <1>4, <1>5 DEF EndpointInv

-----------------------------------------------------------------------------
(* The invariant.                                                          *)

LEMMA EndpointInit == Init => EndpointInv
<1> SUFFICES ASSUME Init PROVE EndpointInv
  OBVIOUS
<1>1. /\ nil \in Error /\ NewRequest \in Requester /\ NewRequest.client = Anonymous
      /\ NewRequest.scopes = {} /\ None # 200
  BY AbsentAssumption DEF Error, nil, NewRequest, Requester, Status
<1>2. \A id \in ClientIDs :
         clients[id] \in {c \in Client : c.id = id} \union {None}
  BY EndpointAssumption DEF Init
<1>3. EndpointTypeOK
  <2>1. clients \in [ClientIDs -> Client \union {None}]
    BY <1>2 DEF Init
  <2>2. QED
    BY <1>1, <2>1, EndpointAssumption DEF Init, EndpointTypeOK, Stages
<1>4. ClientsNamed
  BY <1>2 DEF ClientsNamed
<1>5. /\ \A k \in Calls : /\ stage[k] = "none" /\ form[k] = None /\ response[k] = None
                         /\ requester[k] = NewRequest /\ issued[k] = << >>
                         /\ accessTokens[k] = None /\ refreshTokens[k] = None
  BY DEF Init
<1>6. CallsInv
  BY <1>1, <1>5
  DEF CallsInv, Entered, Authenticated, Issuance, Checked, TokenStages, RevocationStages
<1>7. AssertionsUsedOnce
  BY <1>5 DEF AssertionsUsedOnce, Asserted
<1>8. RevocationsInv
  BY <1>5, FormsApart DEF RevocationsInv, Revoking, RevokedFor, DeactivatedFor
<1>9. QED
  BY <1>3, <1>4, <1>6, <1>7, <1>8 DEF EndpointInv

LEMMA RegisterInv ==
    ASSUME EndpointInv, NEW id \in ClientIDs, NEW registration \in Registrations[id],
           Register(id, registration)
    PROVE  EndpointInv'
<1>1. UNCHANGED <<config, usedJTIs, accessTokens, refreshTokens, stage, form, requester,
                  clientErr, turn, storeErr, response, issued, faults>>
  BY DEF Register, callVars, tokenVars
<1>2. registration \in {c \in Client : c.id = id} \union {None}
  BY EndpointAssumption
<1>3. EndpointTypeOK' /\ ClientsNamed'
  BY <1>1, <1>2 DEF EndpointInv, EndpointTypeOK, ClientsNamed, Register
<1>4. ASSUME NEW j \in Calls PROVE CallInv(j)'
  <2>1. LeavesAlone(j) /\ TokensAge(j) /\ CallInv(j)
    BY <1>1 DEF EndpointInv, CallsInv, CallInv, LeavesAlone, TokensAge
  <2>2. QED
    BY <1>1, <2>1, CallKept
<1>5. AssertionsUsedOnce'
  BY <1>1 DEF EndpointInv, AssertionsUsedOnce, Asserted, Grant
<1>6. RevocationsInv'
  BY <1>1 DEF EndpointInv, RevocationsInv, Revoking, RevokedFor, DeactivatedFor
<1>7. QED
  BY <1>3, <1>4, <1>5, <1>6 DEF EndpointInv, CallsInv, CallInv

LEMMA EndpointStutter ==
    ASSUME EndpointInv, UNCHANGED vars
    PROVE  EndpointInv'
<1>1. UNCHANGED <<config, clients, usedJTIs, accessTokens, refreshTokens, stage, form,
                  requester, clientErr, turn, storeErr, response, issued, faults>>
  BY DEF vars, callVars, tokenVars
<1>2. EndpointTypeOK' /\ ClientsNamed'
  BY <1>1 DEF EndpointInv, EndpointTypeOK, ClientsNamed
<1>3. ASSUME NEW j \in Calls PROVE CallInv(j)'
  <2>1. LeavesAlone(j) /\ TokensAge(j) /\ CallInv(j)
    BY <1>1 DEF EndpointInv, CallsInv, CallInv, LeavesAlone, TokensAge
  <2>2. QED
    BY <1>1, <2>1, CallKept
<1>4. AssertionsUsedOnce'
  BY <1>1 DEF EndpointInv, AssertionsUsedOnce, Asserted, Grant
<1>5. RevocationsInv'
  BY <1>1 DEF EndpointInv, RevocationsInv, Revoking, RevokedFor, DeactivatedFor
<1>6. QED
  BY <1>2, <1>3, <1>4, <1>5 DEF EndpointInv, CallsInv, CallInv

\* The strengthening that every step of the model preserves: what a call is
\* and has found out in each stage, that no two calls have marked the same JWT
\* ID, and that tokens only go by the revocation of their client.
THEOREM EndpointInvariant == Spec => []EndpointInv
<1>1. Init => EndpointInv
  BY EndpointInit
<1>2. EndpointInv /\ [Next]_vars => EndpointInv'
  BY TokenStepInv, RevocationStepInv, RegisterInv, EndpointStutter DEF Next
<1>3. QED
  BY <1>1, <1>2, PTL DEF Spec

-----------------------------------------------------------------------------
(* What it says of the endpoints.                                          *)

\* A call and the tables have their types whatever was composed: the turn of a
\* call is a handler of the composition, and every error it is answered with
\* has one of the status codes of the library (errors.go).
THEOREM EndpointTypes == Spec => []EndpointTypeOK
<1>1. EndpointInv => EndpointTypeOK
  BY DEF EndpointInv
<1>2. QED
  BY <1>1, EndpointInvariant, PTL

LEMMA HandlerGrant ==
    ASSUME EndpointTypeOK, NEW k \in Calls, Permitted(k)
    PROVE  /\ form[k].grants = <<Grant(k)>> /\ Grant(k) \in Grants
           /\ form[k] \in TokenForm
BY OneHandler, EndpointAssumption DEF Permitted

LEMMA ProvedItself == EndpointInv => ClientProvedItself
<1> SUFFICES ASSUME EndpointInv, NEW k \in Calls
             PROVE  /\ requester[k].client # Anonymous
                       => Proved(requester[k].client, form[k].cred)
                    /\ issued[k] # << >> /\ requester[k].client = Anonymous
                       => config.canSkipClientAuth /\ form[k].grants = <<Jwt>>
  BY DEF ClientProvedItself
<1>1. EndpointTypeOK /\ Authenticated(k) /\ Issuance(k)
  BY DEF EndpointInv, CallsInv
<1>2. ASSUME issued[k] # << >>, requester[k].client = Anonymous
      PROVE  config.canSkipClientAuth /\ form[k].grants = <<Jwt>>
  <2>1. Permitted(k)
    BY <1>1, <1>2 DEF Issuance
  <2>2. QED
    BY <1>1, <1>2, <2>1, HandlerGrant, AbsentAssumption DEF Permitted
<1>3. QED
  BY <1>1, <1>2 DEF Authenticated

\* AuthenticateClient lets a call act for a client only on a proof that the
\* client is registered for, however it mixes header, form and assertion, and
\* a token without a client is issued for an assertion only where the handler
\* lets the authentication be skipped (client_authentication.go,
\* access_request_handler.go).
THEOREM TokenEndpointClientProvedItself == Spec => []ClientProvedItself
BY EndpointInvariant, ProvedItself, PTL

LEMMA StoredWithin == EndpointInv => WithinRegistration
<1> SUFFICES ASSUME EndpointInv, NEW k \in Calls, accessTokens[k] # None
             PROVE  LET req == accessTokens[k]
                        grant == form[k].grants[1]
                        registered == IF grant = Jwt THEN KeyScopes[form[k].proof[1]]
                                      ELSE req.client.scopes IN
                    /\ \A s \in req.scopes :
                          \E p \in registered : s \in Meaning(config.scopeStrategy, p)
                    /\ grant # Jwt \/ ~config.canSkipClientAuth
                       => grant \in GetGrantTypes(req.client)
                    /\ grant = "client_credentials" => ~req.client.public
  BY DEF WithinRegistration
<1>1. EndpointTypeOK /\ Authenticated(k) /\ Issuance(k)
  BY DEF EndpointInv, CallsInv
<1>2. /\ accessTokens[k] = requester[k] /\ issued[k] # << >> /\ Permitted(k)
      /\ Grant(k) = "client_credentials" =>
            Grant(k) \in GetGrantTypes(requester[k].client)
  BY <1>1 DEF Issuance
<1>3. form[k] \in TokenForm /\ Grant(k) \in Grants
  BY <1>1, <1>2, HandlerGrant
<1>4. config.scopeStrategy \in ScopeStrategies
  BY <1>1 DEF EndpointTypeOK, Config
<1>5. Registered(k) \in SUBSET Scopes
  <2>1. CASE Grant(k) = Jwt
    BY <1>2, <2>1, EndpointAssumption DEF Permitted, Registered
  <2>2. CASE Grant(k) # Jwt
    <3>1. requester[k].client \in Client
      BY <1>2, <2>2 DEF Permitted
    <3>2. QED
      BY <2>2, <3>1 DEF Registered, Client
  <2>3. QED
    BY <2>1, <2>2
<1>6. ASSUME NEW s \in requester[k].scopes
      PROVE  \E p \in Registered(k) : s \in Meaning(config.scopeStrategy, p)
  <2>1. s \in form[k].scopes /\ s \in Scopes
    BY <1>1, <1>3, <1>6 DEF Authenticated, TokenForm
  <2>2. ScopeStrategy(config.scopeStrategy, Registered(k), s)
    BY <1>2, <2>1 DEF Permitted
  <2>3. QED
    BY <1>4, <1>5, <2>1, <2>2, StrategyMeaning
<1>7. Grant(k) # Jwt \/ ~config.canSkipClientAuth =>
         Grant(k) \in GetGrantTypes(requester[k].client)
  BY <1>2, <1>3 DEF Permitted, Grants
<1>8. Grant(k) = "client_credentials" => ~requester[k].client.public
  BY <1>2 DEF Permitted
<1>9. QED
  BY <1>2, <1>6, <1>7, <1>8 DEF Grant, Registered

\* What the handlers check in two phases, with the application's consent in
\* between, adds up: a stored token has only scopes that the client (the key,
\* for an assertion) is registered for, by the meaning of the strategy in
\* force, and a grant type that the client has (flow_client_credentials.go,
\* flow_resource_owner.go, rfc7523/handler.go, scope_strategy.go).
THEOREM StoredWithinRegistration == Spec => []WithinRegistration
BY EndpointInvariant, StoredWithin, PTL

LEMMA OnceIssued == EndpointInv => IssuedOnce
<1> SUFFICES ASSUME EndpointInv PROVE IssuedOnce
  OBVIOUS
<1>1. ASSUME NEW k \in Calls PROVE Len(issued[k]) <= 1
  <2>1. issued[k] = << >> \/ issued[k] = <<requester[k]>>
    BY DEF EndpointInv, CallsInv, Issuance
  <2>2. Len(<< >>) <= 1 /\ Len(<<requester[k]>>) <= 1
    OBVIOUS
  <2>3. QED
    BY <2>1, <2>2, Zenon
<1>2. ASSUME NEW j \in Calls, NEW k \in Calls, j # k,
             issued[j] # << >>, issued[k] # << >>,
             form[j].grants = <<Jwt>>, form[k].grants = <<Jwt>>,
             form[j].proof[2] # None
      PROVE  form[j].proof[2] # form[k].proof[2]
  <2>1. Asserted(j) /\ (form[k].proof[2] # None => Asserted(k))
    BY <1>2 DEF Asserted, Grant
  <2>2. QED
    BY <1>2, <2>1 DEF EndpointInv, AssertionsUsedOnce
<1>3. QED
  BY <1>1, <1>2 DEF IssuedOnce

\* A request stores one access token at most, also when Compose was given a
\* factory twice, and the calls that present the same assertion with an ID
\* get a token for one of them, however their look-ups and their MarkJWTUsedForTime
\* interleave (handler/rfc7523/handler.go, compose.go).
THEOREM AssertionIssuesOnce == Spec => []IssuedOnce
BY EndpointInvariant, OnceIssued, PTL

LEMMA RefusalsIssueNothing == EndpointInv => RefusedIssuesNothing
<1> SUFFICES ASSUME EndpointInv, NEW k \in Calls,
                    response[k] \notin {None, 200}, issued[k] # << >>
             PROVE  /\ response[k] = 500 /\ form[k].grants = <<"password">>
                    /\ refreshTokens[k] = None
  BY DEF RefusedIssuesNothing
<1>1. EndpointTypeOK /\ Issuance(k)
  BY DEF EndpointInv, CallsInv
<1>2. Permitted(k) /\ response[k] = 500 /\ Grant(k) = "password" /\ refreshTokens[k] = None
  BY <1>1 DEF Issuance
<1>3. QED
  BY <1>1, <1>2, HandlerGrant

\* A call that was answered with an error has stored no access token, but for
\* the one whose refresh token could not be written after it
\* (flow_resource_owner.go, PopulateTokenEndpointResponse).
THEOREM RefusedStoresNothing == Spec => []RefusedIssuesNothing
BY EndpointInvariant, RefusalsIssueNothing, PTL

LEMMA RevocationOwner == EndpointInv => RevokedByItsClient
<1> SUFFICES ASSUME EndpointInv, NEW k \in Calls, issued[k] # << >>
             PROVE  /\ accessTokens[k] = None =>
                          \E r \in Calls :
                             /\ Revoked(r, k)
                             /\ refreshTokens[k] # None /\ refreshTokens[k].active
                                => storeErr[r] # nil
                    /\ refreshTokens[k] # None /\ ~refreshTokens[k].active =>
                          \E r \in Calls : Revoked(r, k)
  BY DEF RevokedByItsClient
<1>1. ASSUME NEW r \in Calls, form[r] \in RevocationForm, form[r].token = k,
             requester[r].client \in Client, issued[k][1].client # Anonymous,
             requester[r].client.id = issued[k][1].client.id,
             stage[r] \in {"revoke_access", "done"}
      PROVE  Revoked(r, k)
  <2>1. form[r] # None /\ "token" \in DOMAIN form[r]
    BY <1>1, FormsApart DEF RevocationForm
  <2>2. requester[r].client # Anonymous
    BY <1>1, AbsentAssumption
  <2>3. QED
    BY <1>1, <2>1, <2>2 DEF Revoked
<1>2. RevokedFor(k) /\ DeactivatedFor(k)
  BY DEF EndpointInv, RevocationsInv
<1>3. QED
  BY <1>1, <1>2 DEF RevokedFor, DeactivatedFor

\* RevokeToken takes an access token away, or deactivates a refresh token, only
\* for the client that it was issued to, and the refresh token is not left
\* active while its access token is gone, unless the write that should have revoked it failed
\* (handler/oauth2/revocation.go).
THEOREM RevocationByOwner == Spec => []RevokedByItsClient
BY EndpointInvariant, RevocationOwner, PTL
=============================================================================
