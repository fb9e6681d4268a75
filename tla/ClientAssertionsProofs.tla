----------------------- MODULE ClientAssertionsProofs -----------------------
(***************************************************************************)
(* Proofs about ClientAssertions, for every set of calls, clients, keys,   *)
(* key IDs, key sets, JWT IDs and assertions and every bound of the clock. *)
(***************************************************************************)
EXTENDS ClientAssertions, TLAPS

-----------------------------------------------------------------------------
(* Types.                                                                  *)

\* A call has an assertion once it has started.
Started(k) ==
    IF stage[k] = "none" THEN presented[k] = None ELSE presented[k] \in Assertions

TypeInv == AssertionsTypeOK /\ \A k \in Calls : Started(k)

\* The fields of an assertion, and that it is not None.
LEMMA AssertionFields ==
    ASSUME NEW a \in Assertions
    PROVE  /\ a # None /\ a.kind \in {"client", "grant"} /\ a.issuer \in Clients
           /\ a.key \in Keys /\ a.jti \in JTIs \union {None}
           /\ a.exp \in Seconds /\ a.exp \in Nat /\ a.exp # None
           /\ a.audienceMatches \in BOOLEAN
BY AssertionsAssumption, NoAssertionAssumption DEF Assertion, Seconds

\* A key set is not None, and consists of keys with names.
LEMMA SetFields ==
    ASSUME NEW set \in KeySets PROVE set # None /\ JWKs(set) \subseteq JWK
<1>1. set \in Seq(JWK)
  BY AssertionsAssumption
<1>2. \A i \in DOMAIN set : set[i] \in JWK
  BY <1>1
<1> QED
  BY <1>2, NoAssertionAssumption DEF JWKs

\* A search goes on without the key, or ends with one that may be meant.
LEMMA SearchEnds ==
    ASSUME NEW k \in Calls, NEW set, NEW otherwise, Search(k, set, otherwise)
    PROVE  \/ Enter(k, otherwise) /\ ~Offers(set, presented[k])
           \/ \E jwk \in JWKs(set) :
                 /\ presented[k].kid \in {None, jwk.kid}
                 /\ Enter(k, IF jwk.key = KeyOf(k) THEN "verify" ELSE "bad_signature")
<1>1. CASE Candidates(set, presented[k].kid) = {} /\ Enter(k, otherwise)
  BY <1>1 DEF Offers
<1>2. ASSUME NEW i \in Candidates(set, presented[k].kid),
             Enter(k, IF set[i].key = KeyOf(k) THEN "verify" ELSE "bad_signature")
      PROVE  \E jwk \in JWKs(set) :
                /\ presented[k].kid \in {None, jwk.kid}
                /\ Enter(k, IF jwk.key = KeyOf(k) THEN "verify" ELSE "bad_signature")
  <2>1. set[i] \in JWKs(set) /\ presented[k].kid \in {None, set[i].kid}
    BY DEF Candidates, JWKs
  <2> QED
    BY <1>2, <2>1
<1> QED
  BY <1>1, <1>2 DEF Search

\* What a search may do to a call.
LEMMA SearchType ==
    ASSUME NEW k \in Calls, NEW set, NEW otherwise, Search(k, set, otherwise)
    PROVE  \E s \in {otherwise, "verify", "bad_signature"} :
              stage' = [stage EXCEPT ![k] = s]
BY SearchEnds DEF Enter

\* Forgetting expired IDs leaves a well-typed table.
LEMMA UnexpiredType ==
    ASSUME AssertionsTypeOK PROVE Unexpired \in [JTIs -> Seconds \union {None}]
BY DEF AssertionsTypeOK, Unexpired

\* At the start nothing has happened.
LEMMA TypeInit == Init => TypeInv
BY AssertionsAssumption, NoAssertionAssumption, SetFields
DEF Init, TypeInv, AssertionsTypeOK, Started, Stages

\* Every step preserves the types.
LEMMA TypeStep == TypeInv /\ [Next]_vars => TypeInv'
<1> SUFFICES ASSUME TypeInv, [Next]_vars PROVE TypeInv'
  OBVIOUS
<1> USE DEF TypeInv, AssertionsTypeOK, Started, Enter, Stages, keyVars, KeyOf, IssuerOf
<1>1. CASE UNCHANGED vars
  BY <1>1 DEF vars
<1>2. CASE Tick
  BY <1>2, AssertionsAssumption DEF Tick
<1>3. ASSUME NEW c \in Clients, NEW set \in KeySets, Rotate(c, set) PROVE TypeInv'
  BY <1>3, SetFields DEF Rotate
<1>4. ASSUME NEW c \in Clients, Evict(c) PROVE TypeInv'
  BY <1>4 DEF Evict
<1>5. ASSUME NEW k \in Calls, NEW a \in Assertions, Present(k, a) PROVE TypeInv'
  BY <1>5 DEF Present
<1>6. ASSUME NEW k \in Calls, Resolve(k) PROVE TypeInv'
  <2>1. \E s \in Stages \ {"none"} : stage' = [stage EXCEPT ![k] = s]
    BY <1>6, SearchType DEF Resolve
  <2> QED
    BY <1>6, <2>1 DEF Resolve
<1>7. ASSUME NEW k \in Calls, Fetch(k) PROVE TypeInv'
  BY <1>7, AssertionFields DEF Fetch
<1>8. ASSUME NEW k \in Calls, Store(k) PROVE TypeInv'
  <2>1. \E s \in Stages \ {"none"} : stage' = [stage EXCEPT ![k] = s]
    BY <1>8, SearchType DEF Store
  <2>2. presented[k] \in Assertions /\ IssuerOf(k) \in Clients
    BY <1>8, AssertionFields DEF Store
  <2> QED
    BY <1>8, <2>1, <2>2 DEF Store, StoreInCache
<1>9. ASSUME NEW k \in Calls, Verify(k) \/ Lookup(k) PROVE TypeInv'
  BY <1>9 DEF Verify, Lookup
<1>10. ASSUME NEW k \in Calls, Mark(k) PROVE TypeInv'
  <2>1. presented[k] \in Assertions
    BY <1>10 DEF Mark
  <2>2. BlacklistedJTIs' \in [JTIs -> Seconds \union {None}]
    BY <1>10, <2>1, UnexpiredType, AssertionFields DEF Mark, Marked
  <2> QED
    BY <1>10, <2>1, <2>2 DEF Mark
<1> QED
  BY <1>1, <1>2, <1>3, <1>4, <1>5, <1>6, <1>7, <1>8, <1>9, <1>10 DEF Next

LEMMA TypeInvariant == Spec => []TypeInv
BY TypeInit, TypeStep, PTL DEF Spec

\* The tables and the calls are well-typed.
THEOREM AssertionsTypeCorrect == Spec => []AssertionsTypeOK
<1>1. TypeInv => AssertionsTypeOK
  BY DEF TypeInv
<1> QED
  BY <1>1, TypeInvariant, PTL

-----------------------------------------------------------------------------
(* Keys.                                                                   *)

\* What the history knows of the sets that are around.
SetsKnown ==
    \A c \in Clients :
        /\ JWKs(published[c]) \subseteq everPublished[c]
        /\ cache[c] # None => JWKs(cache[c]) \subseteq everPublished[c]

\* The client of a call has published the key of its assertion.
OwnKey(k) == \E jwk \in everPublished[IssuerOf(k)] : jwk.key = KeyOf(k)

\* What a call knows of its key at each stage.
KeyKnown(k) ==
    /\ stage[k] # "none" /\ ~Offers(published[IssuerOf(k)], presented[k])
          => k \in withheld
    /\ stage[k] \in {"store", "restore"} =>
          /\ response[k] # None
          /\ JWKs(response[k]) \subseteq everPublished[IssuerOf(k)]
          /\ ~Offers(response[k], presented[k]) => k \in withheld
    /\ stage[k] = "no_key" => k \in withheld
    /\ stage[k] = "bad_signature" => Ambiguous(presented[k])
    /\ stage[k] \in {"verify", "lookup", "mark", "accepted"}
          /\ presented[k].kind = "client" => OwnKey(k)

KeyInv == SetsKnown /\ \A k \in Calls : KeyKnown(k)

LEMMA KeyInit == Init => KeyInv
BY NoAssertionAssumption DEF Init, KeyInv, SetsKnown, KeyKnown

\* What is known of a call that a step leaves where it is, while the key sets
\* that its client has ever published only become more.
LEMMA KeyKept ==
    ASSUME NEW j \in Calls, KeyKnown(j), UNCHANGED <<presented, published>>,
           stage'[j] = stage[j], response'[j] = response[j],
           stage[j] # "none" =>
              everPublished[IssuerOf(j)] \subseteq everPublished'[IssuerOf(j)],
           withheld \subseteq withheld'
    PROVE  KeyKnown(j)'
<1>1. IssuerOf(j)' = IssuerOf(j) /\ KeyOf(j)' = KeyOf(j) /\ presented'[j] = presented[j]
  BY DEF IssuerOf, KeyOf
<1>2. stage[j] # "none" /\ Ambiguous(presented[j]) => Ambiguous(presented[j])'
  BY <1>1 DEF Ambiguous, IssuerOf
<1>3. stage[j] # "none" /\ OwnKey(j) => OwnKey(j)'
  BY <1>1 DEF OwnKey
<1> QED
  BY <1>1, <1>2, <1>3 DEF KeyKnown, Offers

\* What a search in a set that the client has published finds.
LEMMA SearchKnown ==
    ASSUME NEW k \in Calls, NEW set, NEW otherwise, stage \in [Calls -> Stages],
           Search(k, set, otherwise), UNCHANGED <<presented, published, everPublished>>,
           JWKs(set) \subseteq everPublished[IssuerOf(k)], KeyKnown(k),
           stage[k] # "none", otherwise \in {"refetch", "no_key"},
           otherwise = "no_key" /\ ~Offers(set, presented[k]) => k \in withheld,
           UNCHANGED withheld
    PROVE  KeyKnown(k)'
<1>1. /\ IssuerOf(k)' = IssuerOf(k) /\ KeyOf(k)' = KeyOf(k) /\ presented'[k] = presented[k]
      /\ ~Offers(published[IssuerOf(k)], presented[k])' => (k \in withheld)'
  BY DEF IssuerOf, KeyOf, Offers, KeyKnown
<1>2. CASE stage'[k] = otherwise /\ ~Offers(set, presented[k])
  BY <1>1, <1>2 DEF KeyKnown
<1>3. ASSUME NEW jwk \in JWKs(set), presented[k].kid \in {None, jwk.kid},
             jwk.key = KeyOf(k), stage'[k] = "verify"
      PROVE  KeyKnown(k)'
  <2>1. OwnKey(k)'
    BY <1>1, <1>3 DEF OwnKey
  <2> QED
    BY <1>1, <1>3, <2>1 DEF KeyKnown
<1>4. ASSUME NEW jwk \in JWKs(set), presented[k].kid \in {None, jwk.kid},
             jwk.key # KeyOf(k), stage'[k] = "bad_signature"
      PROVE  KeyKnown(k)'
  <2>1. Ambiguous(presented[k])'
    BY <1>1, <1>4 DEF Ambiguous, IssuerOf, KeyOf
  <2> QED
    BY <1>1, <1>4, <2>1 DEF KeyKnown
<1>5. \/ stage'[k] = otherwise /\ ~Offers(set, presented[k])
      \/ \E jwk \in JWKs(set) :
            /\ presented[k].kid \in {None, jwk.kid}
            /\ stage'[k] = IF jwk.key = KeyOf(k) THEN "verify" ELSE "bad_signature"
  BY SearchEnds DEF Enter
<1> QED
  BY <1>2, <1>3, <1>4, <1>5

\* Every step preserves what is known of keys.
LEMMA KeyStep == TypeInv /\ KeyInv /\ [Next]_vars => KeyInv'
<1> SUFFICES ASSUME TypeInv, KeyInv, [Next]_vars PROVE KeyInv'
  OBVIOUS
<1> USE DEF KeyInv, Enter, keyVars
<1>a. /\ published \in [Clients -> KeySets]
      /\ cache \in [Clients -> KeySets \union {None}]
      /\ stage \in [Calls -> Stages] /\ response \in [Calls -> KeySets \union {None}]
      /\ presented \in [Calls -> Assertions \union {None}]
      /\ everPublished \in [Clients -> SUBSET JWK]
      /\ \A k \in Calls : stage[k] # "none" =>
            presented[k] \in Assertions /\ IssuerOf(k) \in Clients
  BY AssertionFields DEF TypeInv, AssertionsTypeOK, Started, IssuerOf
<1>b. ASSUME UNCHANGED <<published, cache, everPublished>> PROVE SetsKnown'
  BY <1>b DEF SetsKnown, JWKs
<1>1. CASE UNCHANGED vars
  BY <1>1, <1>b, KeyKept DEF vars
<1>2. CASE Tick
  BY <1>2, <1>b, KeyKept DEF Tick
<1>3. ASSUME NEW c \in Clients, NEW set \in KeySets, Rotate(c, set) PROVE KeyInv'
  <2>1. /\ published' = [published EXCEPT ![c] = set]
        /\ everPublished' = [everPublished EXCEPT ![c] = @ \union JWKs(set)]
        /\ UNCHANGED <<stage, presented, cache, response>> /\ withheld \subseteq withheld'
    BY <1>3 DEF Rotate
  <2>2. SetsKnown'
    <3>1. ASSUME NEW d \in Clients \ {c}
          PROVE  published'[d] = published[d] /\ everPublished'[d] = everPublished[d]
      BY <2>1, <1>a
    <3>2. /\ published'[c] = set
          /\ everPublished'[c] = everPublished[c] \union JWKs(set)
      BY <2>1, <1>a
    <3>3. ASSUME NEW d \in Clients
          PROVE  /\ JWKs(published'[d]) \subseteq everPublished'[d]
                 /\ cache[d] # None => JWKs(cache[d]) \subseteq everPublished'[d]
      BY <3>1, <3>2 DEF SetsKnown
    <3> QED
      BY <2>1, <3>3 DEF SetsKnown, JWKs
  <2>3. ASSUME NEW k \in Calls PROVE KeyKnown(k)'
    <3>1. CASE stage[k] = "none"
      BY <2>1, <3>1 DEF KeyKnown
    <3>2. CASE stage[k] # "none"
      <4>1. /\ IssuerOf(k)' = IssuerOf(k) /\ KeyOf(k)' = KeyOf(k)
            /\ presented'[k] = presented[k] /\ stage'[k] = stage[k]
            /\ response'[k] = response[k] /\ IssuerOf(k) \in Clients
            /\ everPublished[IssuerOf(k)] \subseteq everPublished'[IssuerOf(k)]
        BY <2>1, <3>2, <1>a DEF IssuerOf, KeyOf
      <4>2. Ambiguous(presented[k]) => Ambiguous(presented[k])'
        BY <4>1 DEF Ambiguous, IssuerOf
      <4>3. OwnKey(k) => OwnKey(k)'
        BY <4>1 DEF OwnKey
      <4>4. ~Offers(published[IssuerOf(k)], presented[k])' => k \in withheld'
        <5>1. CASE IssuerOf(k) = c
          <6>1. published'[IssuerOf(k)'] = set
            BY <5>1, <4>1, <2>1, <1>a
          <6>2. ~Offers(set, presented[k]) => k \in withheld'
            BY <1>3, <5>1, <3>2 DEF Rotate
          <6> QED
            BY <6>1, <6>2, <4>1 DEF Offers, Candidates
        <5>2. CASE IssuerOf(k) # c
          <6>1. published'[IssuerOf(k)'] = published[IssuerOf(k)]
            BY <5>2, <4>1, <2>1, <1>a
          <6> QED
            BY <6>1, <4>1, <3>2, <2>1 DEF Offers, Candidates, KeyKnown
        <5> QED
          BY <5>1, <5>2
      <4>5. KeyKnown(k)
        OBVIOUS
      <4> QED
        BY <2>1, <4>1, <4>2, <4>3, <4>4, <4>5 DEF KeyKnown, Offers, Candidates, JWKs
    <3> QED
      BY <3>1, <3>2
  <2> QED
    BY <2>2, <2>3
<1>4. ASSUME NEW c \in Clients, Evict(c) PROVE KeyInv'
  <2>1. SetsKnown'
    BY <1>4, <1>a DEF Evict, SetsKnown, JWKs
  <2> QED
    BY <1>4, <2>1, KeyKept DEF Evict
<1>5. ASSUME NEW k \in Calls, NEW a \in Assertions, Present(k, a) PROVE KeyInv'
  <2>1. /\ stage'[k] \in {"resolve", "verify"} /\ presented'[k] = a
        /\ stage'[k] = "verify" => a.kind # "client"
        /\ ~Offers(published[a.issuer], a) => k \in withheld'
        /\ UNCHANGED <<published, response, everPublished>> /\ withheld \subseteq withheld'
        /\ \A j \in Calls \ {k} : stage'[j] = stage[j] /\ presented'[j] = presented[j]
    BY <1>5, <1>a DEF Present
  <2>2. KeyKnown(k)'
    <3>1. ~Offers(published[IssuerOf(k)], presented[k])' => k \in withheld'
      BY <2>1 DEF Offers, Candidates, IssuerOf
    <3> QED
      BY <2>1, <3>1 DEF KeyKnown
  <2>3. ASSUME NEW j \in Calls \ {k} PROVE KeyKnown(j)'
    <3>1. /\ IssuerOf(j)' = IssuerOf(j) /\ KeyOf(j)' = KeyOf(j)
          /\ presented'[j] = presented[j] /\ stage'[j] = stage[j]
          /\ response'[j] = response[j] /\ KeyKnown(j)
      BY <2>1 DEF IssuerOf, KeyOf
    <3>2. Ambiguous(presented[j]) => Ambiguous(presented[j])'
      BY <3>1, <2>1 DEF Ambiguous
    <3>3. OwnKey(j) => OwnKey(j)'
      BY <3>1, <2>1 DEF OwnKey
    <3> QED
      BY <2>1, <3>1, <3>2, <3>3 DEF KeyKnown, Offers, Candidates, JWKs
  <2>4. SetsKnown'
    BY <1>5, <1>b DEF Present
  <2> QED
    BY <2>2, <2>3, <2>4
<1>6. ASSUME NEW k \in Calls, Resolve(k) PROVE KeyInv'
  <2>1. /\ UNCHANGED <<presented, published, cache, response, everPublished, withheld>>
        /\ \A j \in Calls \ {k} : stage'[j] = stage[j]
        /\ stage[k] = "resolve" /\ IssuerOf(k) \in Clients
    <3>1. \E s : stage' = [stage EXCEPT ![k] = s]
      BY <1>6, SearchType DEF Resolve
    <3> QED
      BY <1>6, <1>a, <3>1 DEF Resolve
  <2>2. ASSUME NEW j \in Calls \ {k} PROVE KeyKnown(j)'
    BY <2>1, KeyKept
  <2>3. ASSUME cache[IssuerOf(k)] = None, stage'[k] = "fetch" PROVE KeyKnown(k)'
    <3>1. ~Offers(published[IssuerOf(k)], presented[k])' => k \in withheld'
      BY <2>1 DEF Offers, Candidates, IssuerOf, KeyKnown
    <3> QED
      BY <2>1, <2>3, <3>1 DEF KeyKnown
  <2>4. ASSUME cache[IssuerOf(k)] # None, Search(k, cache[IssuerOf(k)], "refetch")
        PROVE  KeyKnown(k)'
    <3>1. JWKs(cache[IssuerOf(k)]) \subseteq everPublished[IssuerOf(k)]
      BY <2>1, <2>4 DEF SetsKnown
    <3> QED
      BY <2>1, <2>4, <3>1, <1>a, SearchKnown
  <2>5. KeyKnown(k)'
    BY <1>6, <1>a, <2>3, <2>4 DEF Resolve
  <2> QED
    BY <2>1, <2>2, <2>5, <1>b
<1>7. ASSUME NEW k \in Calls, Fetch(k) PROVE KeyInv'
  <2>1. /\ UNCHANGED <<presented, published, cache, everPublished, withheld>>
        /\ \A j \in Calls \ {k} : stage'[j] = stage[j] /\ response'[j] = response[j]
        /\ stage[k] # "none" /\ stage'[k] \in {"store", "restore"}
        /\ response'[k] = published[IssuerOf(k)] /\ IssuerOf(k) \in Clients
    BY <1>7, <1>a DEF Fetch
  <2>2. ASSUME NEW j \in Calls \ {k} PROVE KeyKnown(j)'
    BY <2>1, KeyKept
  <2>3. KeyKnown(k)'
    <3>1. /\ response'[k] # None
          /\ JWKs(response'[k]) \subseteq everPublished[IssuerOf(k)]
          /\ ~Offers(response'[k], presented[k]) => k \in withheld
          /\ ~Offers(published[IssuerOf(k)], presented[k]) => k \in withheld
      BY <2>1, <1>a, SetFields DEF SetsKnown, KeyKnown
    <3>2. IssuerOf(k)' = IssuerOf(k)
      BY <2>1 DEF IssuerOf
    <3> QED
      BY <2>1, <3>1, <3>2 DEF KeyKnown, JWKs, Offers, Candidates
  <2> QED
    BY <2>1, <2>2, <2>3, <1>b
<1>8. ASSUME NEW k \in Calls, Store(k) PROVE KeyInv'
  <2>1. /\ UNCHANGED <<presented, published, everPublished, withheld>>
        /\ \A j \in Calls \ {k} : stage'[j] = stage[j] /\ response'[j] = response[j]
        /\ stage[k] \in {"store", "restore"} /\ IssuerOf(k) \in Clients
        /\ StoreInCache(IssuerOf(k), response[k])
    <3>1. \E s : stage' = [stage EXCEPT ![k] = s]
      BY <1>8, SearchType DEF Store
    <3> QED
      BY <1>8, <1>a, <3>1 DEF Store
  <2>2. JWKs(response[k]) \subseteq everPublished[IssuerOf(k)]
    BY <2>1 DEF KeyKnown
  <2>3. SetsKnown'
    <3>1. ASSUME NEW c \in Clients
          PROVE  cache'[c] = cache[c] \/ (cache'[c] = response[k] /\ c = IssuerOf(k))
      BY <2>1, <1>a DEF StoreInCache
    <3>2. ASSUME NEW c \in Clients
          PROVE  /\ JWKs(published[c]) \subseteq everPublished[c]
                 /\ cache'[c] # None => JWKs(cache'[c]) \subseteq everPublished[c]
      BY <3>1, <2>2 DEF SetsKnown
    <3> QED
      BY <2>1, <3>2 DEF SetsKnown, JWKs
  <2>4. ASSUME NEW j \in Calls \ {k} PROVE KeyKnown(j)'
    BY <2>1, KeyKept
  <2>5. KeyKnown(k)'
    <3>1. Search(k, response[k], IF stage[k] = "store" THEN "refetch" ELSE "no_key")
      BY <1>8 DEF Store
    <3>2. ~Offers(response[k], presented[k]) => k \in withheld
      BY <2>1 DEF KeyKnown
    <3> QED
      BY <2>1, <2>2, <3>1, <3>2, <1>a, SearchKnown
  <2> QED
    BY <2>3, <2>4, <2>5
<1>9. ASSUME NEW k \in Calls, Verify(k) \/ Lookup(k) \/ Mark(k) PROVE KeyInv'
  <2>1. /\ UNCHANGED <<presented, published, cache, response, everPublished, withheld>>
        /\ \A j \in Calls \ {k} : stage'[j] = stage[j]
        /\ stage[k] \in {"verify", "lookup", "mark"}
        /\ stage'[k] \in {"lookup", "mark", "refused", "accepted"}
    BY <1>9, <1>a DEF Verify, Lookup, Mark
  <2>2. ASSUME NEW j \in Calls \ {k} PROVE KeyKnown(j)'
    BY <2>1, KeyKept
  <2>3. KeyKnown(k)'
    <3>1. /\ ~Offers(published[IssuerOf(k)], presented[k])' => k \in withheld'
          /\ IssuerOf(k)' = IssuerOf(k) /\ KeyOf(k)' = KeyOf(k)
          /\ presented'[k] = presented[k]
      BY <2>1 DEF Offers, Candidates, IssuerOf, KeyOf, KeyKnown
    <3>2. OwnKey(k) => OwnKey(k)'
      BY <2>1, <3>1 DEF OwnKey
    <3> QED
      BY <2>1, <3>1, <3>2 DEF KeyKnown
  <2> QED
    BY <2>1, <2>2, <2>3, <1>b
<1> QED
  BY <1>1, <1>2, <1>3, <1>4, <1>5, <1>6, <1>7, <1>8, <1>9 DEF Next

LEMMA KeyInvariant == Spec => []KeyInv
BY KeyInit, KeyStep, TypeInvariant, PTL DEF Spec

\* A client is authenticated by a key that it has published itself, however
\* fetches, evictions and late answers mix in the cache.
THEOREM KeysAreTheIssuers == Spec => []KeyOfIssuer
<1>1. KeyInv => KeyOfIssuer
  BY DEF KeyInv, KeyKnown, OwnKey, KeyOfIssuer
<1> QED
  BY <1>1, KeyInvariant, PTL

\* A call whose key is published all the time is not refused for want of it,
\* nor for a wrong signature unless its assertion may mean another key that the
\* client has published.
THEOREM PublishedKeysAreFound == Spec => []PublishedKeyFound
<1>1. KeyInv => PublishedKeyFound
  BY DEF KeyInv, KeyKnown, PublishedKeyFound
<1> QED
  BY <1>1, KeyInvariant, PTL

-----------------------------------------------------------------------------
(* JWT IDs.                                                                *)

\* The ID of an accepted assertion, if it has one, is among the used ones until it expires.
Remembered(k) ==
    IF stage[k] = "accepted"
    THEN /\ acceptedAt[k] \in 1 .. now
         /\ \/ Moment(presented[k].exp) < now
            \/ presented[k].jti = None
            \/ BlacklistedJTIs[presented[k].jti] = presented[k].exp
    ELSE acceptedAt[k] = None

JTIInv == UsedUntilExpiry /\ \A k \in Calls : Remembered(k)

LEMMA JTIInit == Init => JTIInv
BY DEF Init, JTIInv, UsedUntilExpiry, Remembered

\* Steps that neither accept nor forget.
LEMMA JTIKept ==
    ASSUME TypeInv, JTIInv, UNCHANGED <<BlacklistedJTIs, acceptedAt>>,
           now' \in Nat, now <= now',
           \A k \in Calls : stage'[k] = "accepted" <=> stage[k] = "accepted",
           \A k \in Calls : stage[k] = "accepted" => presented'[k] = presented[k]
    PROVE  JTIInv'
<1>1. ASSUME NEW k \in Calls PROVE Remembered(k)'
  <2>1. CASE stage[k] = "accepted"
    <3>1. presented[k] \in Assertions /\ Moment(presented[k].exp) \in Nat
      BY <2>1, AssertionFields DEF TypeInv, Started, Moment, TicksPerSecond
    <3>2. now \in Nat
      BY DEF TypeInv, AssertionsTypeOK
    <3> QED
      BY <2>1, <3>1, <3>2 DEF JTIInv, Remembered, Moment
  <2> QED
    BY <2>1 DEF JTIInv, Remembered
<1>2. UsedUntilExpiry'
  BY DEF JTIInv, UsedUntilExpiry, Moment
<1> QED
  BY <1>1, <1>2 DEF JTIInv

\* What SetClientAssertionJWT forgets has expired.
LEMMA MarkKeeps ==
    ASSUME TypeInv, JTIInv, NEW k \in Calls, Mark(k)
    PROVE  JTIInv'
<1> DEFINE a == presented[k]
<1>1. /\ a \in Assertions /\ a.exp \in Nat /\ a.jti \in JTIs \union {None}
      /\ stage[k] = "mark" /\ now \in Nat \ {0}
  BY AssertionFields DEF Mark, TypeInv, Started, AssertionsTypeOK
<1>2. /\ UNCHANGED <<now, presented>>
      /\ \A j \in Calls \ {k} : stage'[j] = stage[j] /\ acceptedAt'[j] = acceptedAt[j]
      /\ stage'[k] # "accepted" => stage'[k] = "refused" /\ UNCHANGED acceptedAt
      /\ stage'[k] = "accepted" =>
            /\ a.jti # None => JTIFree(a.jti) /\ BlacklistedJTIs' = Marked(a)
            /\ acceptedAt'[k] = now
  BY DEF Mark, Enter, TypeInv, AssertionsTypeOK
<1>3. \A j \in JTIs : BlacklistedJTIs[j] \in Seconds \union {None}
  BY DEF TypeInv, AssertionsTypeOK
<1>4. ASSUME NEW j \in Calls \ {k}, stage[j] = "accepted"
      PROVE  /\ presented[j].exp \in Nat /\ presented[j].jti \in JTIs \union {None}
             /\ \/ Moment(presented[j].exp) < now \/ presented[j].jti = None
                \/ Unexpired[presented[j].jti] = presented[j].exp
  <2>1. /\ presented[j] \in Assertions /\ presented[j].exp \in Nat
        /\ presented[j].jti \in JTIs \union {None}
    BY <1>4, AssertionFields DEF TypeInv, Started
  <2> QED
    BY <1>4, <2>1 DEF JTIInv, Remembered, Unexpired
<1>5. ASSUME NEW j \in Calls \ {k}, stage[j] = "accepted", JTIFree(a.jti),
             presented[j].jti = a.jti, a.jti # None
      PROVE  Moment(presented[j].exp) < now
  BY <1>4, <1>5, NoAssertionAssumption DEF JTIFree
<1>6. \/ BlacklistedJTIs' = BlacklistedJTIs \/ BlacklistedJTIs' = Unexpired
      \/ a.jti # None /\ JTIFree(a.jti) /\ BlacklistedJTIs' = Marked(a)
  BY DEF Mark
<1>7. ASSUME NEW j \in Calls \ {k} PROVE Remembered(j)'
  <2>1. CASE stage[j] = "accepted"
    <3>1. \/ Moment(presented[j].exp) < now \/ presented[j].jti = None
          \/ BlacklistedJTIs'[presented[j].jti] = presented[j].exp
      <4>0. CASE BlacklistedJTIs' = BlacklistedJTIs
        BY <4>0, <2>1 DEF JTIInv, Remembered
      <4>1. CASE BlacklistedJTIs' = Unexpired
        BY <4>1, <1>4, <2>1
      <4>2. CASE a.jti # None /\ JTIFree(a.jti) /\ BlacklistedJTIs' = Marked(a)
        BY <4>2, <1>1, <1>4, <1>5, <2>1, UnexpiredType DEF Marked, TypeInv
      <4> QED
        BY <4>0, <4>1, <4>2, <1>6
    <3> QED
      BY <1>2, <2>1, <3>1 DEF JTIInv, Remembered, Moment
  <2> QED
    BY <2>1, <1>2 DEF JTIInv, Remembered
<1>8. Remembered(k)'
  <2>1. CASE stage'[k] = "accepted"
    <3>1. a.jti = None \/ BlacklistedJTIs'[a.jti] = a.exp
      BY <1>1, <1>2, <2>1, UnexpiredType DEF Marked, TypeInv
    <3> QED
      BY <1>1, <1>2, <2>1, <3>1 DEF Remembered
  <2> QED
    BY <1>1, <1>2, <2>1 DEF JTIInv, Remembered
<1>9. UsedUntilExpiry'
  <2> SUFFICES ASSUME NEW i \in Calls, NEW j \in Calls, i # j,
                      stage'[i] = "accepted", stage'[j] = "accepted",
                      presented[i].jti = presented[j].jti, presented[i].jti # None
               PROVE  \/ Moment(presented[i].exp) < acceptedAt'[j]
                      \/ Moment(presented[j].exp) < acceptedAt'[i]
    BY <1>2 DEF UsedUntilExpiry, Moment
  <2>1. CASE i = k
    BY <2>1, <1>2, <1>5
  <2>2. CASE j = k
    BY <2>2, <1>2, <1>5
  <2>3. CASE i # k /\ j # k
    BY <2>3, <1>2 DEF JTIInv, UsedUntilExpiry
  <2> QED
    BY <2>1, <2>2, <2>3
<1> QED
  BY <1>7, <1>8, <1>9 DEF JTIInv

\* Every step preserves what is remembered of JWT IDs.
LEMMA JTIStep == TypeInv /\ JTIInv /\ [Next]_vars => JTIInv'
<1> SUFFICES ASSUME TypeInv, JTIInv, [Next]_vars PROVE JTIInv'
  OBVIOUS
<1>a. now \in Nat /\ stage \in [Calls -> Stages]
      /\ presented \in [Calls -> Assertions \union {None}]
  BY DEF TypeInv, AssertionsTypeOK
<1>1. CASE UNCHANGED vars
  BY <1>1, <1>a, JTIKept DEF vars
<1>2. CASE Tick
  BY <1>2, <1>a, JTIKept DEF Tick
<1>3. CASE \/ \E c \in Clients, set \in KeySets : Rotate(c, set)
           \/ \E c \in Clients : Evict(c)
  BY <1>3, <1>a, JTIKept DEF Rotate, Evict
<1>4. ASSUME NEW k \in Calls, NEW a \in Assertions, Present(k, a) PROVE JTIInv'
  BY <1>4, <1>a, JTIKept DEF Present, Enter
<1>5. ASSUME NEW k \in Calls,
             Resolve(k) \/ Fetch(k) \/ Store(k) \/ Verify(k) \/ Lookup(k)
      PROVE  JTIInv'
  <2>1. /\ UNCHANGED <<now, BlacklistedJTIs, presented, acceptedAt>>
        /\ stage[k] # "accepted" /\ stage'[k] # "accepted"
        /\ \A j \in Calls \ {k} : stage'[j] = stage[j]
    <3>1. \E s \in Stages \ {"accepted"} : stage' = [stage EXCEPT ![k] = s]
      BY <1>5, SearchType DEF Resolve, Fetch, Store, Verify, Lookup, Enter, Stages
    <3> QED
      BY <1>5, <1>a, <3>1 DEF Resolve, Fetch, Store, Verify, Lookup
  <2> QED
    BY <2>1, <1>a, JTIKept
<1>6. ASSUME NEW k \in Calls, Mark(k) PROVE JTIInv'
  BY <1>6, MarkKeeps
<1> QED
  BY <1>1, <1>2, <1>3, <1>4, <1>5, <1>6 DEF Next

LEMMA JTIInvariant == Spec => []JTIInv
BY JTIInit, JTIStep, TypeInvariant, PTL DEF Spec

\* A JWT ID is accepted again only after the assertion that used it expired.
THEOREM IDsAreUsedUntilExpiry == Spec => []UsedUntilExpiry
<1>1. JTIInv => UsedUntilExpiry
  BY DEF JTIInv
<1> QED
  BY <1>1, JTIInvariant, PTL
=============================================================================
