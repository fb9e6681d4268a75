-------------------------- MODULE ClientAssertions --------------------------
(***************************************************************************)
(* Signed assertions.  A client authenticates with a JWT that it signed    *)
(* (client_authentication.go), and anybody may be granted a token for a    *)
(* JWT of a trusted issuer (handler/rfc7523/handler.go).  Both look the    *)
(* JWT ID up among the used ones and mark it as used by a later call of    *)
(* the store, and both read the clock at every step anew.  The keys of a   *)
(* client are fetched from its jwks_uri and cached by location             *)
(* (client_authentication_jwks_strategy.go), while the client may change   *)
(* them at any time.                                                       *)
(*                                                                         *)
(* A call that is refused before it writes stays where it is.              *)
(***************************************************************************)
EXTENDS Naturals, Sequences

CONSTANTS
    Calls,         \* calls of endpoints that receive an assertion
    Clients,       \* clients; each is the issuer and the jwks_uri of its own
    Keys,          \* signing keys
    KeyIDs,        \* the names that clients give them
    KeySets,       \* the key sets that a client may publish
    JTIs,          \* JWT IDs
    Assertions,    \* the JWTs that are around
    IDOptional,    \* GrantTypeJWTBearerIDOptional: a grant needs no JWT ID
    LastSecond,    \* bound: no assertion expires later
    LastTick,      \* bound of the clock
    None

\* The clock has a fraction, the claim exp is in whole seconds: a second has a
\* first moment and a later one.
TicksPerSecond == 2

Seconds == 0 .. LastSecond
Moment(second) == TicksPerSecond * second

\* An assertion may name the key it is signed with, and have an ID.
Assertion == [kind : {"client", "grant"}, issuer : Clients, key : Keys,
              kid : KeyIDs \union {None}, jti : JTIs \union {None},
              exp : Seconds, audienceMatches : BOOLEAN]

\* A key set is a list of keys for signatures, of the type that the signing
\* algorithm of the client asks for.  A key ID may be given to several keys.
JWK == [kid : KeyIDs, key : Keys]
JWKs(set) == {set[i] : i \in DOMAIN set}

ASSUME AssertionsAssumption ==
    /\ Assertions \subseteq Assertion
    /\ KeySets \subseteq Seq(JWK)
    /\ IDOptional \in BOOLEAN
    /\ LastSecond \in Nat /\ LastTick \in Nat \ {0}

ASSUME NoAssertionAssumption ==
    /\ None \notin Assertion
    /\ None \notin Nat \union KeyIDs \union JTIs \union KeySets

VARIABLES
    now,             \* the clock
    published,       \* the key set at the jwks_uri of a client
    cache,           \* the JWKS cache, by jwks_uri
    BlacklistedJTIs, \* used JWT IDs and when they may be forgotten
    stage,           \* where a call is
    presented,       \* the assertion of a call
    response,        \* the key set a call has fetched and not yet cached
    acceptedAt,      \* history: when a call's assertion was accepted
    everPublished,   \* history: keys that a client has published at some time
    withheld         \* history: calls during which the key was unpublished

keyVars == <<published, cache, response, everPublished, withheld>>
vars == <<now, BlacklistedJTIs, stage, presented, acceptedAt, keyVars>>

Stages == {"none", "resolve", "fetch", "store", "refetch", "restore", "no_key",
           "bad_signature", "verify", "lookup", "mark", "refused", "accepted"}

AssertionsTypeOK ==
    /\ now \in 1 .. LastTick
    /\ published \in [Clients -> KeySets]
    /\ cache \in [Clients -> KeySets \union {None}]
    /\ BlacklistedJTIs \in [JTIs -> Seconds \union {None}]
    /\ stage \in [Calls -> Stages]
    /\ presented \in [Calls -> Assertions \union {None}]
    /\ response \in [Calls -> KeySets \union {None}]
    /\ acceptedAt \in [Calls -> 1 .. LastTick \union {None}]
    /\ everPublished \in [Clients -> SUBSET JWK]
    /\ withheld \subseteq Calls

Init ==
    /\ now = 1
    /\ published \in [Clients -> KeySets]
    /\ cache = [c \in Clients |-> None]
    /\ BlacklistedJTIs = [j \in JTIs |-> None]
    /\ stage = [k \in Calls |-> "none"]
    /\ presented = [k \in Calls |-> None]
    /\ response = [k \in Calls |-> None]
    /\ acceptedAt = [k \in Calls |-> None]
    /\ everPublished = [c \in Clients |-> JWKs(published[c])]
    /\ withheld = {}

Enter(k, s) == stage' = [stage EXCEPT ![k] = s]

KeyOf(k) == presented[k].key
IssuerOf(k) == presented[k].issuer

\* The keys of a set that an assertion may be signed with: those it names, or
\* all when it names none.
Candidates(set, kid) == {i \in DOMAIN set : kid \in {None, set[i].kid}}

\* The set has the key of the assertion under the name that it is asked for.
Offers(set, a) == \E i \in Candidates(set, a.kid) : set[i].key = a.key

-----------------------------------------------------------------------------
(* The world outside.                                                      *)

Tick ==
    /\ now < LastTick
    /\ now' = now + 1
    /\ UNCHANGED <<BlacklistedJTIs, stage, presented, acceptedAt, keyVars>>

\* A client replaces its key set.
Rotate(c, set) ==
    /\ published' = [published EXCEPT ![c] = set]
    /\ everPublished' = [everPublished EXCEPT ![c] = @ \union JWKs(set)]
    /\ withheld' = withheld \union
          {k \in Calls : stage[k] # "none" /\ IssuerOf(k) = c /\ ~Offers(set, presented[k])}
    /\ UNCHANGED <<now, BlacklistedJTIs, stage, presented, acceptedAt, cache, response>>

\* The TTL of a cached key set is over, or the cache is full.
Evict(c) ==
    /\ cache' = [cache EXCEPT ![c] = None]
    /\ UNCHANGED <<now, BlacklistedJTIs, stage, presented, acceptedAt,
                   published, response, everPublished, withheld>>

\* Client authentication starts with the keys; the grant handler takes its
\* key from the store, where issuers are registered for good.
Present(k, a) ==
    /\ stage[k] = "none"
    /\ presented' = [presented EXCEPT ![k] = a]
    /\ Enter(k, IF a.kind = "client" THEN "resolve" ELSE "verify")
    /\ withheld' = IF Offers(published[a.issuer], a) THEN withheld
                   ELSE withheld \union {k}
    /\ UNCHANGED <<now, BlacklistedJTIs, acceptedAt,
                   published, cache, response, everPublished>>

-----------------------------------------------------------------------------
(* The keys of a client.                                                   *)

\* The first candidate is taken.  The next step of the parser, which this one
\* includes, checks the signature with it and tries no other key.
Search(k, set, otherwise) ==
    LET found == Candidates(set, presented[k].kid)
    IN  \/ found = {} /\ Enter(k, otherwise)
        \/ \E i \in found :
              /\ \A j \in found : i <= j
              /\ Enter(k, IF set[i].key = KeyOf(k) THEN "verify" ELSE "bad_signature")

\* Mutant: the cached set is final.
ResolveNoRefresh(k) ==
    /\ stage[k] = "resolve"
    /\ \/ cache[IssuerOf(k)] = None /\ Enter(k, "fetch")
       \/ cache[IssuerOf(k)] # None /\ Search(k, cache[IssuerOf(k)], "no_key")
    /\ UNCHANGED <<now, BlacklistedJTIs, presented, acceptedAt, keyVars>>

\* The cached set is tried first.  If it has no candidate, or there is no such
\* set, the set is fetched; a candidate that is the wrong key ends the call.
Resolve(k) ==
    /\ stage[k] = "resolve"
    /\ \/ cache[IssuerOf(k)] = None /\ Enter(k, "fetch")
       \/ cache[IssuerOf(k)] # None /\ Search(k, cache[IssuerOf(k)], "refetch")
    /\ UNCHANGED <<now, BlacklistedJTIs, presented, acceptedAt, keyVars>>

\* The answer of the jwks_uri is on its way.
Fetch(k) ==
    /\ stage[k] \in {"fetch", "refetch"}
    /\ response' = [response EXCEPT ![k] = published[IssuerOf(k)]]
    /\ Enter(k, IF stage[k] = "fetch" THEN "store" ELSE "restore")
    /\ UNCHANGED <<now, BlacklistedJTIs, presented, acceptedAt,
                   published, cache, everPublished, withheld>>

\* An entry is updated at once; a new one may be dropped by the cache.
StoreInCache(c, set) ==
    \/ cache' = [cache EXCEPT ![c] = set]
    \/ cache[c] = None /\ UNCHANGED cache

\* A set that was fetched because there was none in the cache is fetched again
\* if it has no candidate.
Store(k) ==
    /\ stage[k] \in {"store", "restore"}
    /\ StoreInCache(IssuerOf(k), response[k])
    /\ Search(k, response[k], IF stage[k] = "store" THEN "refetch" ELSE "no_key")
    /\ response' = [response EXCEPT ![k] = None]
    /\ UNCHANGED <<now, BlacklistedJTIs, presented, acceptedAt,
                   published, everPublished, withheld>>

-----------------------------------------------------------------------------
(* Claims and JWT IDs.                                                     *)

\* MapClaims.Valid reads the clock in whole seconds, and takes 0 for no claim;
\* the grant handler compares with the full clock.
NotExpired(a) ==
    IF a.kind = "client"
    THEN a.exp = 0 \/ now \div TicksPerSecond <= a.exp
    ELSE ~(Moment(a.exp) < now)

\* The grant handler also checks the audience here, and both that there is an
\* ID, which the grant handler may be configured not to ask for.
Verify(k) ==
    /\ stage[k] = "verify"
    /\ NotExpired(presented[k])
    /\ presented[k].kind = "grant" => presented[k].audienceMatches
    /\ presented[k].jti = None => presented[k].kind = "grant" /\ IDOptional
    /\ Enter(k, "lookup")
    /\ UNCHANGED <<now, BlacklistedJTIs, presented, acceptedAt, keyVars>>

\* ClientAssertionJWTValid, and IsJWTUsed, return no error.
ClientAssertionJWTValid(jti) ==
    ~(BlacklistedJTIs[jti] # None /\ Moment(BlacklistedJTIs[jti]) > now)

Lookup(k) ==
    /\ stage[k] = "lookup"
    /\ presented[k].jti # None => ClientAssertionJWTValid(presented[k].jti)
    /\ Enter(k, "mark")
    /\ UNCHANGED <<now, BlacklistedJTIs, presented, acceptedAt, keyVars>>

\* SetClientAssertionJWT forgets the expired IDs before anything else.
Unexpired ==
    [j \in JTIs |-> IF BlacklistedJTIs[j] # None /\ Moment(BlacklistedJTIs[j]) < now
                    THEN None ELSE BlacklistedJTIs[j]]

\* Mutant: the lookup is trusted.
JTIFreeByLookup(jti) == TRUE

\* The second look, under the lock.
JTIFree(jti) == Unexpired[jti] = None

Marked(a) == [Unexpired EXCEPT ![a.jti] = a.exp]

\* SetClientAssertionJWT, and MarkJWTUsedForTime.  Client authentication
\* checks the audience last, when the ID is used up already.  Only a grant may
\* get here without an ID, and there is nothing to mark then.
Mark(k) ==
    /\ stage[k] = "mark"
    /\ LET a == presented[k] IN
       \/ /\ a.jti = None
          /\ Enter(k, "accepted")
          /\ acceptedAt' = [acceptedAt EXCEPT ![k] = now]
          /\ UNCHANGED BlacklistedJTIs
       \/ /\ a.jti # None /\ ~JTIFree(a.jti)
          /\ BlacklistedJTIs' = Unexpired
          /\ Enter(k, "refused")
          /\ UNCHANGED acceptedAt
       \/ /\ a.jti # None /\ JTIFree(a.jti)
          /\ BlacklistedJTIs' = Marked(a)
          /\ IF a.audienceMatches
             THEN /\ Enter(k, "accepted")
                  /\ acceptedAt' = [acceptedAt EXCEPT ![k] = now]
             ELSE /\ Enter(k, "refused")
                  /\ UNCHANGED acceptedAt
    /\ UNCHANGED <<now, presented, keyVars>>

-----------------------------------------------------------------------------

Next ==
    \/ Tick
    \/ \E c \in Clients, set \in KeySets : Rotate(c, set)
    \/ \E c \in Clients : Evict(c)
    \/ \E k \in Calls, a \in Assertions : Present(k, a)
    \/ \E k \in Calls :
          \/ Resolve(k) \/ Fetch(k) \/ Store(k)
          \/ Verify(k) \/ Lookup(k) \/ Mark(k)

Spec == Init /\ [][Next]_vars
-----------------------------------------------------------------------------
(* Properties.                                                             *)

\* A JWT ID is accepted again only when the assertion that used it before has
\* expired on the clock, in whatever order two calls look the ID up and mark
\* it, and whichever of client authentication and the grant they belong to.
UsedUntilExpiry ==
    \A j, k \in Calls :
        /\ j # k
        /\ stage[j] = "accepted" /\ stage[k] = "accepted"
        /\ presented[j].jti = presented[k].jti /\ presented[j].jti # None
        => \/ Moment(presented[j].exp) < acceptedAt[k]
           \/ Moment(presented[k].exp) < acceptedAt[j]

\* However calls, evictions and late answers of different clients mix in the
\* cache, a client is authenticated by a key that it has published itself.
KeyOfIssuer ==
    \A k \in Calls :
        /\ stage[k] \in {"verify", "lookup", "mark", "accepted"}
        /\ presented[k].kind = "client"
        => \E jwk \in everPublished[IssuerOf(k)] : jwk.key = KeyOf(k)

\* The client has at some time published another key that the assertion may
\* mean: under the same name, or under any when the assertion names none.
Ambiguous(a) ==
    \E jwk \in everPublished[a.issuer] : a.kid \in {None, jwk.kid} /\ jwk.key # a.key

\* A client that names its keys, and a new key anew, is not locked out by the
\* cache, whatever is evicted or stored late: a call is refused for want of
\* its key only if the key was not published all the time, and for a wrong key
\* only if the assertion does not tell which key it means.  (Then a stale key
\* in the cache does lock the client out: it keeps the set from being fetched
\* again.)
PublishedKeyFound ==
    \A k \in Calls :
        /\ stage[k] = "no_key" => k \in withheld
        /\ stage[k] = "bad_signature" => Ambiguous(presented[k])

-----------------------------------------------------------------------------
(* What the documentation says and the code does not do (README, findings).*)

\* client_manager.go, SetClientAssertionJWT: "it will clean up any existing
\* JTIs that have expired as those tokens can not be replayed due to the
\* expiry".
ExpiredNotReplayed ==
    \A j, k \in Calls :
        /\ j # k
        /\ stage[j] = "accepted" /\ stage[k] = "accepted"
        /\ presented[j].exp # 0
        => presented[j] # presented[k]
=============================================================================
