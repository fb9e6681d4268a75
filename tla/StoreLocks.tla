---------------------------- MODULE StoreLocks ----------------------------
(***************************************************************************)
(* The inside of MemoryStore (storage/memory.go): every method as the      *)
(* sequence of its lock requests, its accesses to the maps and its         *)
(* deferred unlocks, run by goroutines that interleave at every one of     *)
(* them.  The mutexes are sync.RWMutex: a writer that waits keeps new      *)
(* readers out, and the readers it kept out come in when it unlocks.       *)
(*                                                                         *)
(* The goroutines are the Calls of TokenStore; each calls one method after *)
(* the other.  The token tables are modelled with their contents, of the   *)
(* other maps only who accesses them.  A mutex has the name of the map it  *)
(* guards.                                                                 *)
(***************************************************************************)
EXTENDS TokenStore, Naturals, Sequences

CONSTANT UsedMethods    \* the methods each goroutine calls

Maps == {"Clients", "AuthorizeCodes", "IDSessions", "AccessTokens",
         "RefreshTokens", "DeviceAuths", "PKCES", "Users", "BlacklistedJTIs",
         "AccessTokenRequestIDs", "RefreshTokenRequestIDs",
         "DeviceCodesRequestIDs", "IssuerPublicKeys", "PARSessions"}

\* TokenLifespans is a field of a client, reached through the map.
Places == Maps \union {"TokenLifespans"}

Op(name, place) == <<name, place>>
Lock(m) == Op("lock", m)
Unlock(m) == Op("unlock", m)
RLock(m) == Op("rlock", m)
RUnlock(m) == Op("runlock", m)

\* The steps of the token tables that change or read what is modelled.
TableOps == {"put_access", "index_access", "get_access", "find_access",
            "delete_access", "put_refresh", "index_refresh", "get_refresh",
            "delete_refresh", "deactivate_refresh"}

OpNames == {"lock", "unlock", "rlock", "runlock", "read", "write"} \union TableOps

Reading(m) == <<RLock(m), Op("read", m), RUnlock(m)>>
Writing(m) == <<Lock(m), Op("write", m), Unlock(m)>>

\* Two mutexes are taken with the request IDs first.
CreateAccessTokenSessionOps ==
    <<Lock("AccessTokenRequestIDs"), Lock("AccessTokens"),
      Op("put_access", "AccessTokens"), Op("index_access", "AccessTokenRequestIDs"),
      Unlock("AccessTokens"), Unlock("AccessTokenRequestIDs")>>

CreateRefreshTokenSessionOps ==
    <<Lock("RefreshTokenRequestIDs"), Lock("RefreshTokens"),
      Op("put_refresh", "RefreshTokens"), Op("index_refresh", "RefreshTokenRequestIDs"),
      Unlock("RefreshTokens"), Unlock("RefreshTokenRequestIDs")>>

RevokeRefreshTokenOps ==
    <<Lock("RefreshTokenRequestIDs"), Lock("RefreshTokens"),
      Op("deactivate_refresh", "RefreshTokens"),
      Unlock("RefreshTokens"), Unlock("RefreshTokenRequestIDs")>>

\* Mutant: the index is unlocked before the token is deleted.
RevokeAccessUnlocksEarly ==
    <<RLock("AccessTokenRequestIDs"),
      Op("find_access", "AccessTokenRequestIDs"),
      RUnlock("AccessTokenRequestIDs"),
      Lock("AccessTokens"), Op("delete_access", "AccessTokens"),
      Unlock("AccessTokens")>>

\* Mutant: DeleteAccessTokenSession takes no lock.
RevokeAccessUnlocked ==
    <<RLock("AccessTokenRequestIDs"),
      Op("find_access", "AccessTokenRequestIDs"),
      Op("delete_access", "AccessTokens"),
      RUnlock("AccessTokenRequestIDs")>>

\* RevokeAccessToken calls DeleteAccessTokenSession with its own lock held.
RevokeAccessTokenOps ==
    <<RLock("AccessTokenRequestIDs"),
      Op("find_access", "AccessTokenRequestIDs"),
      Lock("AccessTokens"), Op("delete_access", "AccessTokens"),
      Unlock("AccessTokens"), RUnlock("AccessTokenRequestIDs")>>

\* The methods that use one map under its mutex.
Readers == [
    GetOpenIDConnectSession |-> "IDSessions", GetClient |-> "Clients",
    ClientAssertionJWTValid |-> "BlacklistedJTIs",
    GetAuthorizeCodeSession |-> "AuthorizeCodes",
    GetPKCERequestSession |-> "PKCES", Authenticate |-> "Users",
    GetPublicKey |-> "IssuerPublicKeys", GetPublicKeys |-> "IssuerPublicKeys",
    GetPublicKeyScopes |-> "IssuerPublicKeys", IsJWTUsed |-> "BlacklistedJTIs",
    GetPARSession |-> "PARSessions", GetDeviceCodeSession |-> "DeviceAuths"]

Writers == [
    CreateOpenIDConnectSession |-> "IDSessions",
    DeleteOpenIDConnectSession |-> "IDSessions",
    SetClientAssertionJWT |-> "BlacklistedJTIs",
    MarkJWTUsedForTime |-> "BlacklistedJTIs",
    CreateAuthorizeCodeSession |-> "AuthorizeCodes",
    InvalidateAuthorizeCodeSession |-> "AuthorizeCodes",
    CreatePKCERequestSession |-> "PKCES", DeletePKCERequestSession |-> "PKCES",
    CreatePARSession |-> "PARSessions", DeletePARSession |-> "PARSessions",
    InvalidateDeviceCodeSession |-> "DeviceAuths"]

\* The other methods.  SetTokenLifespans writes into the client it finds, but
\* takes the mutex as a reader; RotateRefreshToken calls two methods.
Programs == [
    SetTokenLifespans |-> <<RLock("Clients"), Op("read", "Clients"),
        Op("write", "TokenLifespans"), RUnlock("Clients")>>,
    CreateDeviceAuthSession |->
        <<Lock("DeviceCodesRequestIDs"), Lock("DeviceAuths"),
          Op("write", "DeviceAuths"), Op("write", "DeviceCodesRequestIDs"),
          Unlock("DeviceAuths"), Unlock("DeviceCodesRequestIDs")>>,
    CreateAccessTokenSession |-> CreateAccessTokenSessionOps,
    GetAccessTokenSession |-> <<RLock("AccessTokens"),
        Op("get_access", "AccessTokens"), RUnlock("AccessTokens")>>,
    RevokeAccessToken |-> RevokeAccessTokenOps,
    CreateRefreshTokenSession |-> CreateRefreshTokenSessionOps,
    GetRefreshTokenSession |-> <<RLock("RefreshTokens"),
        Op("get_refresh", "RefreshTokens"), RUnlock("RefreshTokens")>>,
    DeleteRefreshTokenSession |-> <<Lock("RefreshTokens"),
        Op("delete_refresh", "RefreshTokens"), Unlock("RefreshTokens")>>,
    RevokeRefreshToken |-> RevokeRefreshTokenOps,
    RotateRefreshToken |-> RevokeRefreshTokenOps \o RevokeAccessTokenOps]

Methods == DOMAIN Readers \union DOMAIN Writers \union DOMAIN Programs

ASSUME MethodsAssumption == UsedMethods \in [Calls -> SUBSET Methods]

Program(method) ==
    IF method \in DOMAIN Readers THEN Reading(Readers[method])
    ELSE IF method \in DOMAIN Writers THEN Writing(Writers[method])
    ELSE Programs[method]

VARIABLES
    todo,       \* what is left of the method each goroutine runs
    args,       \* its arguments: a signature and a request
    writer,     \* of each mutex: who holds it, None if nobody
    pending,    \* the writer that waits for the readers to leave
    readers,    \* who holds it for reading
    blocked,    \* the readers a writer keeps out
    answers     \* what each goroutine has been told

lockVars == <<writer, pending, readers, blocked>>
tableVars == <<accessVars, refreshVars>>
locksVars == <<authorizeCodes, todo, args, lockVars, tableVars, answers>>

NoAnswer == <<"nothing", None>>

\* NewMemoryStore, and goroutines that have not called anything.
LocksInit ==
    /\ StoreInit
    /\ todo = [k \in Calls |-> <<>>]
    /\ \E r \in Requester : args = [k \in Calls |-> [sig |-> k, req |-> r]]
    /\ writer = [m \in Maps |-> None]
    /\ pending = [m \in Maps |-> None]
    /\ readers = [m \in Maps |-> {}]
    /\ blocked = [m \in Maps |-> {}]
    /\ answers = [k \in Calls |-> NoAnswer]

-----------------------------------------------------------------------------

Does(k, name) == todo[k] # <<>> /\ Head(todo[k])[1] = name
On(k) == Head(todo[k])[2]
Advance(k) == todo' = [todo EXCEPT ![k] = Tail(@)]

\* The methods that are given the signature of a token another call issued.
TakesSignature ==
    {"GetAccessTokenSession", "GetRefreshTokenSession", "DeleteRefreshTokenSession"}

\* A handler calls a method.  A new token has a signature of its own.
Call(k) ==
    /\ todo[k] = <<>>
    /\ \E m \in UsedMethods[k], s \in Calls, r \in Requester :
          /\ m \in TakesSignature <=> s # k
          /\ todo' = [todo EXCEPT ![k] = Program(m)]
          /\ args' = [args EXCEPT ![k] = [sig |-> s, req |-> r]]
    /\ UNCHANGED <<authorizeCodes, lockVars, tableVars, answers>>

\* On to the next operation after an unlock, or back to the caller, who takes
\* the answer.
Proceed(k) ==
    /\ Advance(k)
    /\ IF Len(todo[k]) > 1 THEN UNCHANGED <<args, answers>>
       ELSE /\ answers' = [answers EXCEPT ![k] = NoAnswer]
            /\ args' = [args EXCEPT ![k].sig = k]

(* sync.RWMutex.                                                           *)

\* Lock, first half: the next of the writers that wait keeps new readers out.
Announce(k) ==
    /\ Does(k, "lock")
    /\ pending[On(k)] = None /\ writer[On(k)] = None
    /\ pending' = [pending EXCEPT ![On(k)] = k]
    /\ UNCHANGED <<authorizeCodes, todo, args, writer, readers, blocked, tableVars, answers>>

\* Lock, second half: the readers that were in have left.
Acquire(k) ==
    /\ Does(k, "lock")
    /\ pending[On(k)] = k /\ readers[On(k)] = {}
    /\ pending' = [pending EXCEPT ![On(k)] = None]
    /\ writer' = [writer EXCEPT ![On(k)] = k]
    /\ Advance(k)
    /\ UNCHANGED <<authorizeCodes, args, readers, blocked, tableVars, answers>>

\* Unlock lets the readers in that came meanwhile.
Release(k) ==
    /\ Does(k, "unlock")
    /\ writer' = [writer EXCEPT ![On(k)] = None]
    /\ readers' = [readers EXCEPT ![On(k)] = @ \union blocked[On(k)]]
    /\ blocked' = [blocked EXCEPT ![On(k)] = {}]
    /\ Proceed(k)
    /\ UNCHANGED <<authorizeCodes, pending, tableVars>>

\* Mutant: a writer that waits does not keep readers out.
EnterPastWriters(k) ==
    /\ Does(k, "rlock")
    /\ k \notin blocked[On(k)] \union readers[On(k)]
    /\ IF writer[On(k)] = None
       THEN /\ readers' = [readers EXCEPT ![On(k)] = @ \union {k}]
            /\ Advance(k)
            /\ UNCHANGED blocked
       ELSE /\ blocked' = [blocked EXCEPT ![On(k)] = @ \union {k}]
            /\ UNCHANGED <<todo, readers>>
    /\ UNCHANGED <<authorizeCodes, args, writer, pending, tableVars, answers>>

\* RLock, unless a writer is in or waits.
Enter(k) ==
    /\ Does(k, "rlock")
    /\ k \notin blocked[On(k)] \union readers[On(k)]
    /\ IF writer[On(k)] = None /\ pending[On(k)] = None
       THEN /\ readers' = [readers EXCEPT ![On(k)] = @ \union {k}]
            /\ Advance(k)
            /\ UNCHANGED blocked
       ELSE /\ blocked' = [blocked EXCEPT ![On(k)] = @ \union {k}]
            /\ UNCHANGED <<todo, readers>>
    /\ UNCHANGED <<authorizeCodes, args, writer, pending, tableVars, answers>>

\* RLock returns to a reader that had to wait.
Admitted(k) ==
    /\ Does(k, "rlock")
    /\ k \in readers[On(k)]
    /\ Advance(k)
    /\ UNCHANGED <<authorizeCodes, args, lockVars, tableVars, answers>>

Leave(k) ==
    /\ Does(k, "runlock")
    /\ readers' = [readers EXCEPT ![On(k)] = @ \ {k}]
    /\ Proceed(k)
    /\ UNCHANGED <<authorizeCodes, writer, pending, blocked, tableVars>>

-----------------------------------------------------------------------------
(* The maps.                                                               *)

\* The error and the result a method is going to return.
Answer(k, err, result) == answers' = [answers EXCEPT ![k] = <<err, result>>]

\* An access to a map whose contents are not modelled.
Touch(k) ==
    /\ Does(k, "read") \/ Does(k, "write")
    /\ Advance(k)
    /\ UNCHANGED <<authorizeCodes, args, lockVars, tableVars, answers>>

\* s.AccessTokens[signature] = req
PutAccess(k) ==
    /\ Does(k, "put_access")
    /\ accessTokens' = [accessTokens EXCEPT ![args[k].sig] = args[k].req]
    /\ Answer(k, "nil", None) /\ Advance(k)
    /\ UNCHANGED <<accessTokenRequestIDs, refreshVars>>

\* s.AccessTokenRequestIDs[req.GetID()] = signature
IndexAccess(k) ==
    /\ Does(k, "index_access")
    /\ accessTokenRequestIDs' =
          [accessTokenRequestIDs EXCEPT ![args[k].req.id] = args[k].sig]
    /\ Advance(k)
    /\ UNCHANGED <<accessTokens, refreshVars, answers>>

GetAccess(k) ==
    /\ Does(k, "get_access")
    /\ LET found == accessTokens[args[k].sig] IN
          Answer(k, IF found = None THEN "ErrNotFound" ELSE "nil", found)
    /\ Advance(k)
    /\ UNCHANGED tableVars

\* RevokeAccessToken looks the signature up and passes it on, or is done but
\* for its unlock.
FindAccess(k) ==
    /\ Does(k, "find_access")
    /\ LET found == accessTokenRequestIDs[args[k].req.id] IN
          IF found = None
          THEN /\ Answer(k, "nil", None)
               /\ todo' = [todo EXCEPT ![k] = <<@[Len(@)]>>]
               /\ UNCHANGED args
          ELSE /\ args' = [args EXCEPT ![k].sig = found]
               /\ Advance(k)
               /\ UNCHANGED answers
    /\ UNCHANGED tableVars

DeleteAccess(k) ==
    /\ Does(k, "delete_access")
    /\ accessTokens' = [accessTokens EXCEPT ![args[k].sig] = None]
    /\ Answer(k, "nil", None) /\ Advance(k)
    /\ UNCHANGED <<accessTokenRequestIDs, refreshVars>>

PutRefresh(k) ==
    /\ Does(k, "put_refresh")
    /\ refreshTokens' = [refreshTokens EXCEPT ![args[k].sig] =
                            [active |-> TRUE, req |-> args[k].req]]
    /\ Answer(k, "nil", None) /\ Advance(k)
    /\ UNCHANGED <<refreshTokenRequestIDs, accessVars>>

IndexRefresh(k) ==
    /\ Does(k, "index_refresh")
    /\ refreshTokenRequestIDs' =
          [refreshTokenRequestIDs EXCEPT ![args[k].req.id] = args[k].sig]
    /\ Advance(k)
    /\ UNCHANGED <<refreshTokens, accessVars, answers>>

GetRefresh(k) ==
    /\ Does(k, "get_refresh")
    /\ Answer(k, GetRefreshTokenError(args[k].sig), refreshTokens[args[k].sig])
    /\ Advance(k)
    /\ UNCHANGED tableVars

DeleteRefresh(k) ==
    /\ Does(k, "delete_refresh")
    /\ DeleteRefreshTokenSession(args[k].sig)
    /\ Answer(k, "nil", None) /\ Advance(k)
    /\ UNCHANGED accessVars

\* RevokeRefreshToken between its locks.  RotateRefreshToken returns its error
\* without calling RevokeAccessToken.
DeactivateRefresh(k) ==
    /\ Does(k, "deactivate_refresh")
    /\ RevokeRefreshToken(args[k].req.id)
    /\ IF RevokeRefreshTokenFails(args[k].req.id)
       THEN /\ Answer(k, "ErrNotFound", None)
            /\ todo' = [todo EXCEPT ![k] = SubSeq(@, 2, 3)]
       ELSE Answer(k, "nil", None) /\ Advance(k)
    /\ UNCHANGED accessVars

Effect(k) ==
    /\ \/ PutAccess(k) /\ UNCHANGED args
       \/ IndexAccess(k) /\ UNCHANGED args
       \/ GetAccess(k) /\ UNCHANGED args
       \/ FindAccess(k)
       \/ DeleteAccess(k) /\ UNCHANGED args
       \/ PutRefresh(k) /\ UNCHANGED args
       \/ IndexRefresh(k) /\ UNCHANGED args
       \/ GetRefresh(k) /\ UNCHANGED args
       \/ DeleteRefresh(k) /\ UNCHANGED args
       \/ DeactivateRefresh(k) /\ UNCHANGED args
    /\ UNCHANGED <<authorizeCodes, lockVars>>

-----------------------------------------------------------------------------

\* One step of the method a goroutine is in.
Step(k) ==
    \/ Announce(k) \/ Acquire(k) \/ Release(k)
    \/ Enter(k) \/ Admitted(k) \/ Leave(k)
    \/ Touch(k) \/ Effect(k)

LocksNext == \E k \in Calls : Call(k) \/ Step(k)

\* The scheduler runs every goroutine that can run, and sync.Mutex, which
\* orders the writers, hands over to the one that has waited longest.
LocksFairness == \A k \in Calls : WF_locksVars(Step(k)) /\ SF_locksVars(Announce(k))

LocksSpec == LocksInit /\ [][LocksNext]_locksVars /\ LocksFairness

-----------------------------------------------------------------------------

\* Types, and what a mutex is: a writer is alone, and a goroutine waits for
\* the mutex its next operation asks for.
LocksTypeOK ==
    /\ StoreTypeOK
    /\ args \in [Calls -> [sig : AccessSignatures, req : Requester]]
    /\ \A k \in Calls : \A i \in 1..Len(todo[k]) :
          todo[k][i] \in OpNames \X Places
    /\ writer \in [Maps -> Calls \union {None}]
    /\ pending \in [Maps -> Calls \union {None}]
    /\ readers \in [Maps -> SUBSET Calls]
    /\ blocked \in [Maps -> SUBSET Calls]
    /\ \A m \in Maps :
          /\ writer[m] # None => readers[m] = {} /\ pending[m] = None
          /\ blocked[m] # {} => writer[m] # None \/ pending[m] # None
          /\ \A k \in blocked[m] : Does(k, "rlock") /\ On(k) = m

\* What the next operation of a goroutine does to a map.
WritingOps == {"write", "put_access", "index_access", "delete_access", "put_refresh",
               "index_refresh", "delete_refresh", "deactivate_refresh"}
ReadingOps == {"read", "get_access", "find_access", "get_refresh"}

\* The Go runtime aborts the process when a map is written while another
\* goroutine is in it ("concurrent map writes"): no two goroutines are ever
\* about to use one map, one of them writing.  (SetTokenLifespans writes a
\* field of a client under the readers' lock: no map, and not covered.)
NoConcurrentMapAccess ==
    \A j, k \in Calls :
        (/\ j # k /\ todo[j] # <<>> /\ todo[k] # <<>>
         /\ Head(todo[j])[1] \in WritingOps
         /\ Head(todo[k])[1] \in WritingOps \union ReadingOps
         /\ On(j) \in Maps)
        => On(j) # On(k)

\* No method waits forever: not for a mutex that is never released, nor, as a
\* writer, for readers that keep coming (the comments on the lock order at
\* CreateAccessTokenSession and RevokeRefreshToken).
EveryCallReturns == \A k \in Calls : []<>(todo[k] = <<>>)

\* While a Create is between its two writes its request ID counts as indexed.
Indexed(ids, op) ==
    [a \in AuthReqs |->
        IF \E k \in Calls : Does(k, op) /\ args[k].req.id = a
        THEN args[CHOOSE k \in Calls : Does(k, op) /\ args[k].req.id = a].sig
        ELSE ids[a]]

IndexedAccess == Indexed(accessTokenRequestIDs, "index_access")
IndexedRefresh == Indexed(refreshTokenRequestIDs, "index_refresh")

Atomic == INSTANCE AtomicStore WITH
    accessTokenRequestIDs <- IndexedAccess,
    refreshTokenRequestIDs <- IndexedRefresh

\* The mutexes make each method of the token tables atomic, RotateRefreshToken
\* two methods: the assumption every other module makes of the store.
StoreIsAtomic == Atomic!AtomicSpec
=============================================================================
