---------------------------- MODULE AtomicStore ----------------------------
(***************************************************************************)
(* What the handlers rely on when they share a store: a method of the      *)
(* token tables takes effect all at once, at some moment between its call  *)
(* and its return, and what it returns is what it found at that moment.    *)
(* Every other module of this project takes it for granted; StoreLocks     *)
(* shows that the mutexes of MemoryStore provide it.                       *)
(***************************************************************************)
EXTENDS TokenStore

VARIABLE answers    \* what the last method each caller called has returned

atomicVars == <<accessVars, refreshVars, answers>>

NoAnswer == <<"nothing", None>>

\* The error and the result of the method k has called.
Answer(k, err, result) == answers' = [answers EXCEPT ![k] = <<err, result>>]

GetAccessTokenError(s) == IF accessTokens[s] = None THEN "ErrNotFound" ELSE "nil"

AccessMethod(k) ==
    /\ \/ \E s \in AccessSignatures, r \in Requester :
             CreateAccessTokenSession(s, r) /\ Answer(k, "nil", None)
       \/ \E s \in AccessSignatures :
             /\ Answer(k, GetAccessTokenError(s), accessTokens[s])
             /\ UNCHANGED accessVars
       \/ \E a \in AuthReqs : RevokeAccessToken(a) /\ Answer(k, "nil", None)
    /\ UNCHANGED refreshVars

RefreshMethod(k) ==
    /\ \/ \E t \in Calls, r \in Requester :
             CreateRefreshTokenSession(t, r) /\ Answer(k, "nil", None)
       \/ \E t \in Calls :
             /\ Answer(k, GetRefreshTokenError(t), refreshTokens[t])
             /\ UNCHANGED refreshVars
       \/ \E t \in Calls : DeleteRefreshTokenSession(t) /\ Answer(k, "nil", None)
       \/ \E a \in AuthReqs :
             /\ RevokeRefreshToken(a)
             /\ Answer(k, IF RevokeRefreshTokenFails(a) THEN "ErrNotFound" ELSE "nil",
                       None)
    /\ UNCHANGED accessVars

\* The answer is taken.
Take(k) ==
    /\ answers' = [answers EXCEPT ![k] = NoAnswer]
    /\ UNCHANGED <<accessVars, refreshVars>>

AtomicInit ==
    /\ accessTokens = [s \in AccessSignatures |-> None]
    /\ accessTokenRequestIDs = [a \in AuthReqs |-> None]
    /\ refreshTokens = [t \in Calls |-> None]
    /\ refreshTokenRequestIDs = [a \in AuthReqs |-> None]
    /\ answers = [k \in Calls |-> NoAnswer]

AtomicNext == \E k \in Calls : AccessMethod(k) \/ RefreshMethod(k) \/ Take(k)

AtomicSpec == AtomicInit /\ [][AtomicNext]_atomicVars
=============================================================================
