--------------------------- MODULE TokenValidity ---------------------------
(***************************************************************************)
(* How long a token is accepted, and what the introspection endpoint says  *)
(* of it while the system moves on.  To TokenLifecycle this module adds    *)
(*   - the clock, and the expiry times that the handlers write into the    *)
(*     session of a request (session.go, client_with_custom_token_-        *)
(*     lifespans.go).  MemoryStore keeps the pointer it is given: the      *)
(*     stored code, the front-channel token and every call that redeems    *)
(*     the code have one session object, a refresh call has a clone;       *)
(*   - the HMAC secrets, of which the operator makes the current one a     *)
(*     rotated one and drops rotated ones (token/hmac/hmacsha.go);         *)
(*   - introspection (introspect.go, handler/oauth2/introspector.go), a    *)
(*     sequence of reads of the store, the clock and the two settings.     *)
(*                                                                         *)
(* Every step is a step of TokenLifecycle with its effect on the sessions, *)
(* or leaves the variables of TokenLifecycle alone.                        *)
(***************************************************************************)
EXTENDS TokenLifecycle, Integers

CONSTANTS
    Inspections,        \* calls of the introspection endpoint
    Secrets,            \* the secrets the operator configures in the end
    StartTime,          \* the clock at the beginning
    MaxTime,            \* bound of the clock
    Second,             \* clock ticks in a second
    ConfigLifespan,     \* [TokenKinds -> Int], the setting, 0 if it is not set
    DefaultLifespan,    \* [TokenKinds -> Nat \ {0}]
    ClientLifespans,    \* [Clients -> [LifespanKeys -> Int \union {None}]]
    DisableRefreshTokenValidation

TokenKinds == {"code", "access", "refresh"}

\* The fields of ClientLifespanConfig that these flows look up.
LifespanKeys ==
    ({"authorization_code", "refresh_token"} \X {"access", "refresh"})
        \union {<<"implicit", "access">>}

\* A session object: of an authorize request, or a clone made by a call.
Objects == AuthReqs \union Calls

\* Session.ExpiresAt; 0 is the zero time.
Expiries == [TokenKinds -> Nat]
NoExpiries == [kind \in TokenKinds |-> 0]

AnyToken == [kind : TokenKinds, sig : AccessSignatures]

\* What a token carries (the secret its MAC was made with), and the session
\* and the granted scopes of the request it is stored with.
Minting == [secret : Secrets, session : Objects, scopes : SUBSET Scopes]

Steps == {"lookup", "expiry", "read1", "read2", "active", "inactive",
          "authorized", "unauthorized"}

\* A call of the introspection endpoint: the token it looks at now, which is
\* the token asked about or the bearer token that authorizes the call; the
\* table it tries, whether the other table is left to try, the keys it has
\* read, and the scopes the token had to have.
Look == [token : Token, authorizing : BOOLEAN, step : Steps,
         table : {"access", "refresh"}, retry : BOOLEAN,
         keys : SUBSET Secrets, asked : SUBSET Scopes]

ASSUME TimeAssumption ==
    StartTime \in Nat \ {0} /\ MaxTime \in Nat /\ Second \in Nat \ {0}

ASSUME LifespanAssumption ==
    /\ ConfigLifespan \in [TokenKinds -> Int]
    /\ DefaultLifespan \in [TokenKinds -> Nat \ {0}]
    /\ ClientLifespans \in [Clients -> [LifespanKeys -> Int \union {None}]]
    /\ DisableRefreshTokenValidation \in BOOLEAN

ASSUME NoMintingAssumption ==
    /\ None \notin Minting \union Secrets \union Int
    /\ None \notin Look

VARIABLES
    now,        \* time.Now()
    expiresAt,  \* the heap of session objects
    minted,     \* the tokens that exist, stored or not any more
    keyOf,      \* the secret a call generated its tokens with
    ready,      \* calls that have finished the first phase of an exchange
    global,     \* Config.GetGlobalSecret
    rotated,    \* Config.GetRotatedGlobalSecrets
    looks,      \* the introspections
    wasValid,   \* history: calls whose token was valid while they looked at it
    wasInvalid, \* history: calls whose token was not, at some moment
    extended    \* history: tokens that expire later than when they were stored

sessionVars == <<expiresAt, minted, keyOf, ready, extended>>
secretVars == <<global, rotated>>
observed == <<wasValid, wasInvalid>>
validityVars == <<now, sessionVars, secretVars, looks>>
allVars == <<vars, validityVars, observed>>

-----------------------------------------------------------------------------
(* Lifespans.                                                              *)

\* Time.Round(time.Second): to the nearest second, halves up.
Round(t) == ((t + (Second \div 2)) \div Second) * Second

\* GetAccessTokenLifespan, GetRefreshTokenLifespan, GetAuthorizeCodeLifespan.
GetLifespan(kind) ==
    IF ConfigLifespan[kind] = 0 THEN DefaultLifespan[kind]
    ELSE ConfigLifespan[kind]

GetEffectiveLifespan(client, grant, kind) ==
    IF ClientLifespans[client][<<grant, kind>>] = None THEN GetLifespan(kind)
    ELSE ClientLifespans[client][<<grant, kind>>]

\* The zero time is the year 1: no lifespan, and a negative one is allowed,
\* leads from the clock back to it.
ASSUME ZeroTimeAssumption ==
    /\ \A kind \in TokenKinds : Round(StartTime + GetLifespan(kind)) > 0
    /\ \A c \in Clients, key \in LifespanKeys :
          Round(StartTime + GetEffectiveLifespan(c, key[1], key[2])) > 0

\* Mutant: the two lifespans are mixed up.
TokenEndpointExpiriesMixedUp(e, client, grant) ==
    [e EXCEPT !["access"] = Round(now + GetEffectiveLifespan(client, grant, "refresh")),
              !["refresh"] = Round(now + GetEffectiveLifespan(client, grant, "access"))]

\* The two SetExpiresAt calls of the first phase at the token endpoint: a
\* negative refresh lifespan leaves the expiry the session has.
TokenEndpointExpiries(e, client, grant) ==
    LET rt == GetEffectiveLifespan(client, grant, "refresh") IN
    [e EXCEPT !["access"] = Round(now + GetEffectiveLifespan(client, grant, "access")),
              !["refresh"] = IF rt > -1 THEN Round(now + rt) ELSE @]

\* exp.Before(time.Now()).  A stored access token and a stored code have their
\* expiry set, a refresh token without one is good forever.
Expired(exp) == exp # 0 /\ exp < now

ExpiryOf(tok) == expiresAt[minted[tok].session][tok.kind]

Code(a) == [kind |-> "code", sig |-> a]
Access(s) == [kind |-> "access", sig |-> s]
Refresh(t) == [kind |-> "refresh", sig |-> t]

\* The keys HMACStrategy.Validate tries.  Secrets are at least 32 bytes long.
Keys == {global} \union rotated

\* ValidateAuthorizeCode and ValidateRefreshToken with the session they are
\* given, in one step.
Validates(tok, exp) == ~Expired(exp) /\ minted[tok].secret \in Keys

-----------------------------------------------------------------------------
(* Effects on the sessions.                                                *)

\* toks are stored with session object o, which now has the expiry times e.
Mint(toks, o, e, key, scopes) ==
    /\ minted' = [t \in AnyToken |->
          IF t \in toks
          THEN [secret |-> key, session |-> o, scopes |-> scopes]
          ELSE minted[t]]
    /\ expiresAt' = [expiresAt EXCEPT ![o] = e]

\* The object o gets the expiry times e: so do all tokens stored with it.
SetExpiries(o, e) ==
    /\ expiresAt' = [expiresAt EXCEPT ![o] = e]
    /\ extended' = extended \union
          {t \in AnyToken : /\ minted[t] # None
                            /\ minted[t].session = o
                            /\ e[t.kind] > ExpiryOf(t)}

-----------------------------------------------------------------------------
(* The steps of TokenLifecycle.                                            *)

\* The code expires to the tick in the code flow and to the second in the
\* hybrid flow, whose access token keeps an expiry the session already has.
Issue(a, c, granted, type) ==
    /\ Authorize(a, c, granted, type)
    /\ LET code == now + GetLifespan("code")
           at == Round(now + GetEffectiveLifespan(c, "implicit", "access")) IN
       \/ /\ type = "code"
          /\ Mint({Code(a)}, a, [expiresAt[a] EXCEPT !["code"] = code],
                  global, granted)
       \/ /\ type = "code token"
          /\ Mint({Code(a), Access(a)}, a,
                  [expiresAt[a] EXCEPT !["code"] = Round(code),
                      !["access"] = IF @ = 0 THEN at ELSE @], global, granted)
    /\ UNCHANGED <<keyOf, ready, extended>>

\* The first phase, up to its last check.  ValidateAuthorizeCode is given the
\* request of this call, whose session is still the fresh one: its code expiry
\* is zero and its RequestedAt is now, so only the MAC is looked at.
Redeem(k, a, c) ==
    /\ ExchangeGet(k, a, c)
    /\ pc'[k] = "code_populate" => Validates(Code(a), 0)
    /\ UNCHANGED sessionVars

\* The rest of the first phase: the session of the stored request becomes the
\* session of this one and gets its expiry times.
SetExchangeExpiries(k) ==
    LET a == reqs[k].id
        o == minted[Code(a)].session IN
    /\ pc[k] = "code_populate" /\ k \notin ready
    /\ SetExpiries(o, TokenEndpointExpiries(expiresAt[o], reqs[k].client,
                                            "authorization_code"))
    /\ ready' = ready \union {k}
    /\ UNCHANGED <<vars, minted, keyOf>>

\* HMACStrategy.Generate, under the current secret.
Generate(k) == keyOf' = [keyOf EXCEPT ![k] = global]

\* Mutant: the tokens are not signed with the secret of the configuration.
PopulateUnsigned(k) ==
    /\ k \in ready
    /\ ExchangePopulate(k)
    /\ pc'[k] = "code_invalidate" =>
          Validates(Code(reqs[k].id), ExpiryOf(Code(reqs[k].id)))
    /\ UNCHANGED sessionVars

\* The second phase checks the expiry of the code on the stored session; both
\* tokens are generated before the first write.
Populate(k) ==
    /\ k \in ready
    /\ ExchangePopulate(k)
    /\ pc'[k] = "code_invalidate" =>
          Validates(Code(reqs[k].id), ExpiryOf(Code(reqs[k].id)))
    /\ Generate(k)
    /\ UNCHANGED <<expiresAt, minted, ready, extended>>

StoreExchanged(k) ==
    LET o == minted[Code(reqs[k].id)].session IN
    /\ \/ /\ ExchangeCreateAccess(k)
          /\ Mint({Access(k)}, o, expiresAt[o], keyOf[k], reqs[k].scopes)
       \/ /\ ExchangeCreateRefresh(k)
          /\ Mint({Refresh(k)}, o, expiresAt[o], keyOf[k], reqs[k].scopes)
    /\ UNCHANGED <<keyOf, ready, extended>>

\* Mutant: the session of the presented token is used, not a clone of it.
RotateShared(k, t, c) ==
    /\ RefreshGet(k, t, c)
    /\ LET o == minted[Refresh(t)].session IN
       \/ /\ pc'[k] = "reuse_delete"
          /\ UNCHANGED <<expiresAt, extended>>
       \/ /\ pc'[k] = "refresh_rotate_rt"
          /\ Validates(Refresh(t), ExpiryOf(Refresh(t)))
          /\ SetExpiries(o, TokenEndpointExpiries(expiresAt[o], c, "refresh_token"))
    /\ UNCHANGED <<minted, keyOf, ready>>

\* The first phase of the refresh: the session is cloned before it gets the
\* new expiry times.
Rotate(k, t, c) ==
    /\ RefreshGet(k, t, c)
    /\ LET o == minted[Refresh(t)].session IN
       \/ /\ pc'[k] = "reuse_delete"
          /\ UNCHANGED <<expiresAt, extended>>
       \/ /\ pc'[k] = "refresh_rotate_rt"
          /\ Validates(Refresh(t), ExpiryOf(Refresh(t)))
          /\ SetExpiries(k, TokenEndpointExpiries(expiresAt[o], c, "refresh_token"))
    /\ UNCHANGED <<minted, keyOf, ready>>

\* The second phase generates both tokens before it rotates.
BeginRotation(k) ==
    /\ RotateRevokeRefresh(k)
    /\ Generate(k)
    /\ UNCHANGED <<expiresAt, minted, ready, extended>>

StoreRefreshed(k) ==
    /\ \/ /\ RefreshCreateAccess(k)
          /\ Mint({Access(k)}, k, expiresAt[k], keyOf[k], reqs[k].scopes)
       \/ /\ RefreshCreateRefresh(k)
          /\ Mint({Refresh(k)}, k, expiresAt[k], keyOf[k], reqs[k].scopes)
    /\ UNCHANGED <<keyOf, ready, extended>>

\* The steps that do not touch a session.
OtherStep ==
    /\ \/ \E k \in Calls, c \in Clients :
             \/ \E t \in Calls : RevokeGetRefresh(k, t, c)
             \/ \E s \in AccessSignatures : RevokeGetAccess(k, s, c)
       \/ \E k \in Calls :
             \/ ReplayRevokeAccess(k) \/ ReplayRevokeRefresh(k)
             \/ ExchangeInvalidate(k) \/ RotateRevokeAccess(k)
             \/ ReuseDelete(k) \/ ReuseRevokeRefresh(k) \/ ReuseRevokeAccess(k)
             \/ RevokeRefresh(k) \/ RevokeAccess(k)
             \/ Drop(k)
    /\ UNCHANGED sessionVars

TokenStep ==
    /\ \/ \E a \in AuthReqs, c \in Clients, g \in SUBSET Scopes,
             type \in ResponseTypes : Issue(a, c, g, type)
       \/ \E k \in Calls, a \in AuthReqs, c \in Clients : Redeem(k, a, c)
       \/ \E k, t \in Calls, c \in Clients : Rotate(k, t, c)
       \/ \E k \in Calls :
             \/ SetExchangeExpiries(k) \/ Populate(k) \/ StoreExchanged(k)
             \/ BeginRotation(k) \/ StoreRefreshed(k)
       \/ OtherStep
    /\ UNCHANGED <<now, secretVars, looks>>

-----------------------------------------------------------------------------
(* The operator and the clock.                                             *)

\* A new global secret; the old one goes to the rotated ones, in one update.
RotateSecret ==
    /\ \E s \in Secrets \ Keys :
          /\ \A t \in AnyToken : minted[t] # None => minted[t].secret # s
          /\ \A k \in Calls : keyOf[k] # s
          /\ global' = s
    /\ rotated' = rotated \union {global}
    /\ UNCHANGED <<vars, now, sessionVars, looks>>

RetireSecret ==
    /\ \E s \in rotated : rotated' = rotated \ {s}
    /\ UNCHANGED <<vars, now, sessionVars, global, looks>>

Tick ==
    /\ now < MaxTime
    /\ now' = now + 1
    /\ UNCHANGED <<vars, sessionVars, secretVars, looks>>

-----------------------------------------------------------------------------
(* Introspection.                                                          *)

\* The token is in its table.
Live(tok) ==
    IF tok.kind = "access" THEN accessTokens[tok.sig] # None
    ELSE GetRefreshTokenError(tok.sig) = "nil"

Looking(i, step) == looks[i] # None /\ looks[i].step = step

\* IntrospectToken starts with the access tokens, unless the hint is
\* refresh_token; with DisableRefreshTokenValidation there are no others.
StartLook(i, tok, authorizing, table) ==
    looks' = [looks EXCEPT ![i] =
        [token |-> tok, authorizing |-> authorizing, step |-> "lookup",
         table |-> IF DisableRefreshTokenValidation THEN "access" ELSE table,
         retry |-> ~DisableRefreshTokenValidation,
         keys |-> {}, asked |-> {}]]

\* NewIntrospectionRequest: the call is authorized by client credentials,
\* which are a guard, or by a token, which is looked at first.  (The token it
\* asks about and the scopes matter only later and are chosen then; a token
\* that authorizes its own introspection is refused.)
Inspect(i, tok) ==
    /\ minted[tok] # None
    /\ \/ /\ looks[i] = None
          /\ \/ \E hint \in {"access", "refresh"} : StartLook(i, tok, FALSE, hint)
             \/ StartLook(i, tok, TRUE, "access")
       \/ /\ Looking(i, "authorized") /\ tok # looks[i].token
          /\ \E hint \in {"access", "refresh"} : StartLook(i, tok, FALSE, hint)

LookOn(i, step) == looks' = [looks EXCEPT ![i].step = step]

\* This table gives no answer: on to the other one, if that is left to try.
NextTable(i) ==
    \/ /\ looks[i].retry
       /\ looks' = [looks EXCEPT ![i].step = "lookup", ![i].retry = FALSE,
             ![i].table = IF @ = "access" THEN "refresh" ELSE "access"]
    \/ /\ ~looks[i].retry
       /\ LookOn(i, IF looks[i].authorizing THEN "unauthorized" ELSE "inactive")

\* GetAccessTokenSession or GetRefreshTokenSession.
Found(i) == looks[i].token.kind = looks[i].table /\ Live(looks[i].token)

LookUp(i) ==
    /\ Looking(i, "lookup")
    /\ \/ Found(i) /\ LookOn(i, "expiry")
       \/ ~Found(i) /\ NextTable(i)

\* Mutant: a refresh token that is found is good.
CheckAccessExpiry(i) ==
    /\ Looking(i, "expiry")
    /\ LET late == /\ looks[i].token.kind = "access"
                   /\ Expired(ExpiryOf(looks[i].token)) IN
       \/ late /\ NextTable(i)
       \/ ~late /\ LookOn(i, "read1")

\* ValidateAccessToken, ValidateRefreshToken: the expiry is read through the
\* pointer that the store returned.
CheckExpiry(i) ==
    /\ Looking(i, "expiry")
    /\ LET late == Expired(ExpiryOf(looks[i].token)) IN
       \/ late /\ NextTable(i)
       \/ ~late /\ LookOn(i, "read1")

\* Mutant: the rotated secrets are read before the current one.
ReadRotatedFirst(n) == IF n = 1 THEN rotated ELSE {global}

\* The two reads of HMACStrategy.Validate.
Read(n) == IF n = 1 THEN {global} ELSE rotated

ReadGlobalSecret(i) ==
    /\ Looking(i, "read1")
    /\ looks' = [looks EXCEPT ![i].step = "read2", ![i].keys = Read(1)]

MatchScopes(granted, asked) == asked \subseteq granted

\* The keys are tried and the scopes are matched.  A call authorized by a
\* token goes on only if that is an access token.
ReadRotatedSecrets(i) ==
    LET tok == minted[looks[i].token]
        signed == tok.secret \in looks[i].keys \union Read(2)
        Conclude(asked, step) ==
            looks' = [looks EXCEPT ![i].step = step, ![i].asked = asked,
                                   ![i].keys = {}, ![i].retry = FALSE]
    IN
    /\ Looking(i, "read2")
    /\ \/ ~signed /\ NextTable(i)
       \/ /\ signed /\ ~looks[i].authorizing
          /\ \E scopes \in SUBSET Scopes :
                \/ MatchScopes(tok.scopes, scopes) /\ Conclude(scopes, "active")
                \/ ~MatchScopes(tok.scopes, scopes) /\ Conclude(scopes, "inactive")
       \/ /\ signed /\ looks[i].authorizing
          /\ Conclude({}, IF looks[i].table = "access" THEN "authorized"
                          ELSE "unauthorized")

\* The answer is written, and the call is over.
WriteIntrospectionResponse(i) ==
    /\ looks[i] # None
    /\ looks[i].step \in {"active", "inactive", "unauthorized"}
    /\ looks' = [looks EXCEPT ![i] = None]

InspectionStep ==
    /\ \E i \in Inspections :
          \/ \E tok \in Token : Inspect(i, tok)
          \/ LookUp(i) \/ CheckExpiry(i)
          \/ ReadGlobalSecret(i) \/ ReadRotatedSecrets(i)
          \/ WriteIntrospectionResponse(i)
    /\ UNCHANGED <<vars, now, sessionVars, secretVars>>

-----------------------------------------------------------------------------

\* Somebody who holds the token is told that it is good.
Valid(tok) ==
    /\ Live(tok)
    /\ ~Expired(ExpiryOf(tok))
    /\ minted[tok].secret \in Keys
    /\ tok.kind = "refresh" => ~DisableRefreshTokenValidation

\* The history: while a call looks at a token, the token is seen valid or not.
Searching(i) == looks[i] # None /\ looks[i].step \in {"lookup", "expiry", "read1", "read2"}

Observe ==
    LET Keeps(i) == looks'[i] # None /\ ~Searching(i)'
        Starts(i) == Searching(i)' /\ (looks[i] = None \/ ~Searching(i))
        Sees(seen, outcome) ==
            {i \in Inspections :
                \/ i \in seen /\ (Keeps(i) \/ (Searching(i)' /\ ~Starts(i)))
                \/ Searching(i)' /\ Valid(looks[i].token)' = outcome}
    IN  /\ wasValid' = Sees(wasValid, TRUE)
        /\ wasInvalid' = Sees(wasInvalid, FALSE)

ValidityInit ==
    /\ Init
    /\ now = StartTime
    /\ expiresAt = [o \in Objects |-> NoExpiries]
    /\ minted = [t \in AnyToken |-> None]
    /\ keyOf = [k \in Calls |-> None]
    /\ ready = {}
    /\ global \in Secrets
    /\ rotated = {}
    /\ looks = [i \in Inspections |-> None]
    /\ wasValid = {} /\ wasInvalid = {}
    /\ extended = {}

ValidityNext ==
    /\ TokenStep \/ RotateSecret \/ RetireSecret \/ Tick \/ InspectionStep
    /\ Observe

ValiditySpec == ValidityInit /\ [][ValidityNext]_allVars

-----------------------------------------------------------------------------
(* Properties.                                                             *)

ValidityTypeOK ==
    /\ TypeOK
    /\ now \in Nat /\ now >= StartTime
    /\ expiresAt \in [Objects -> [TokenKinds -> Int]]
    /\ minted \in [AnyToken -> Minting \union {None}]
    /\ keyOf \in [Calls -> Secrets \union {None}]
    /\ ready \subseteq Calls
    /\ global \in Secrets /\ rotated \subseteq Secrets
    /\ looks \in [Inspections -> Look \union {None}]
    /\ wasValid \subseteq Inspections /\ wasInvalid \subseteq Inspections
    /\ extended \subseteq AnyToken

\* The endpoint says "active" only of a token that was, at one and the same
\* moment during the call, stored, unexpired and signed with a configured
\* secret, although it looks at the four one after the other (the checks of
\* introspectAccessToken and introspectRefreshToken); the token has the scopes
\* asked for, and a token that authorized the call was an access token and
\* just as good.  Left out are extended tokens (AccessTokenLifespanKept).
ActiveWasValid ==
    \A i \in Inspections :
        Looking(i, "active") \/ Looking(i, "authorized") =>
            /\ i \in wasValid \/ looks[i].token \in extended
            /\ looks[i].asked \subseteq minted[looks[i].token].scopes
            /\ looks[i].authorizing => looks[i].token.kind = "access"

\* The endpoint calls a token inactive, or refuses the token that authorizes
\* the call, only if that token really was not good at some moment of the
\* call (or has not the scopes, or is no access token): a secret that is being
\* rotated is never missed between the two reads of Validate, and the hint
\* never hides a token.
InactiveWasInvalid ==
    \A i \in Inspections :
        /\ Looking(i, "inactive") =>
              \/ i \in wasInvalid
              \/ ~(looks[i].asked \subseteq minted[looks[i].token].scopes)
        /\ Looking(i, "unauthorized") =>
              i \in wasInvalid \/ looks[i].token.kind = "refresh"

\* A live token that the token endpoint issued never gets a later expiry than
\* it was stored with, although sessions are shared by pointer, unless two
\* calls for its request overlapped: an exchange sets the expiry before it
\* stores the first token, nobody exchanges the code later, and a refresh sets
\* the expiry of a clone.
IssuedNotExtended ==
    \A t \in extended \cap Token :
        (t.sig \in Calls /\ reqs[t.sig].id \notin raced) => ~Live(t)

\* The longest a new token of this kind may live, when the lifespans of its
\* client and of the configuration decide.
LongestLifespan(c, kind) ==
    LET spans == {GetEffectiveLifespan(c, key[1], kind) :
                     key \in {x \in LifespanKeys : x[2] = kind}}
    IN CHOOSE m \in spans : \A n \in spans : n <= m

\* Every token that is stored expires within the lifespan configured for its
\* client (half a second more for the rounding), counted from the moment it is
\* stored and however long its call took; only a refresh token may have no
\* expiry, and only if no lifespan was configured for the exchange.
ExpiresWithinLifespan ==
    [][\A tok \in Token :
         LET e == ExpiryOf(tok)' IN
         minted[tok] = None /\ minted'[tok] # None =>
            LET id == IF tok.sig \in Calls THEN reqs[tok.sig].id ELSE tok.sig
                c == authorizeCodes'[id].req.client IN
            /\ e <= now + LongestLifespan(c, tok.kind) + Second \div 2
            /\ e = 0 => /\ tok.kind = "refresh"
                        /\ GetEffectiveLifespan(c, "authorization_code", "refresh") < 0
      ]_allVars

-----------------------------------------------------------------------------
(* What the documentation says and the code does not do (README, findings).*)

\* config_default.go: "AccessTokenLifespan sets how long an access token is
\* going to be valid."  Every token is stored with an expiry that keeps to it
\* (ExpiresWithinLifespan), so no live token should get a later one.
AccessTokenLifespanKept == \A t \in extended \cap Token : ~Live(t)
=============================================================================
