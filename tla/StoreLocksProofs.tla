-------------------------- MODULE StoreLocksProofs --------------------------
(***************************************************************************)
(* Proofs about StoreLocks, for every set of goroutines and requests and   *)
(* whichever methods each goroutine calls: no two goroutines meet in a     *)
(* map, and the methods of the token tables are atomic (refinement of      *)
(* AtomicStore).                                                           *)
(***************************************************************************)
EXTENDS StoreLocks, TLAPS, SequenceTheorems

Ops == OpNames \X Places

AccessIDs == "AccessTokenRequestIDs"
RefreshIDs == "RefreshTokenRequestIDs"
FindOp == Op("find_access", AccessIDs)
DeleteOp == Op("delete_access", "AccessTokens")

\* x is among the operations s; it comes after the i-th; it does not come any
\* more from the i-th on.
In(s, x) == \E j \in 1..Len(s) : s[j] = x
After(s, i, x) == \E j \in 1..Len(s) : i < j /\ s[j] = x
Gone(s, i, x) == \A j \in 1..Len(s) : i <= j => s[j] # x

\* The i-th operation runs with the mutex m held for writing, for reading.
WithLock(s, i, m) == After(s, i, Unlock(m)) /\ Gone(s, i, Lock(m))
WithRLock(s, i, m) == After(s, i, RUnlock(m)) /\ Gone(s, i, RLock(m))

Locking == {"lock", "unlock", "rlock", "runlock"}

\* What the rest of every method is like: no mutex is taken twice, each is
\* released, and each map is accessed with its mutex held.
Disciplined(s, i) ==
    /\ s[i][1] \in Locking => s[i][2] \in Maps
    /\ s[i][1] = "lock" => After(s, i, Unlock(s[i][2]))
    /\ s[i][1] = "rlock" => After(s, i, RUnlock(s[i][2]))
    /\ s[i][1] \in WritingOps /\ s[i][2] \in Maps => WithLock(s, i, s[i][2])
    /\ s[i][1] \in ReadingOps => WithLock(s, i, s[i][2]) \/ WithRLock(s, i, s[i][2])

\* The operations on the token tables, with those next to them.
PutIndex(s, i, put, index, ids) ==
    /\ s[i][1] = put => /\ i < Len(s) /\ s[i + 1] = Op(index, ids)
                        /\ WithLock(s, i, ids)
    /\ s[i][1] = index => /\ s[i][2] = ids
                          /\ i > 1 => s[i - 1][1] = put

Tabular(s, i) ==
    /\ PutIndex(s, i, "put_access", "index_access", AccessIDs)
    /\ PutIndex(s, i, "put_refresh", "index_refresh", RefreshIDs)
    /\ s[i][1] = "find_access" =>
          /\ s[i] = FindOp
          /\ WithRLock(s, i, AccessIDs) /\ s[Len(s)] = RUnlock(AccessIDs)
    /\ s[i] = RLock(AccessIDs) => After(s, i, FindOp)
    /\ s[i][1] = "delete_access" =>
          /\ s[i] = DeleteOp /\ Gone(s, i, FindOp)
          /\ WithRLock(s, i, AccessIDs)
    /\ s[i][1] = "deactivate_refresh" =>
          /\ i + 2 <= Len(s) /\ s[i + 1] = Unlock("RefreshTokens")
          /\ s[i + 2] = Unlock(RefreshIDs)
          /\ WithLock(s, i, "RefreshTokens") /\ WithLock(s, i, RefreshIDs)

Regular(s) ==
    /\ s \in Seq(Ops)
    /\ \A i, j \in 1..Len(s) : s[i] = s[j] => i = j
    /\ \A i \in 1..Len(s) : Disciplined(s, i) /\ Tabular(s, i)

\* What every method is like when it begins.
Complete(s) ==
    /\ s # <<>> /\ s[1][1] \in {"lock", "rlock"}
    /\ \A i \in 1..Len(s) :
          /\ s[i][1] = "unlock" => In(s, Lock(s[i][2]))
          /\ s[i][1] = "runlock" => In(s, RLock(s[i][2]))
    /\ In(s, DeleteOp) => In(s, FindOp)

-----------------------------------------------------------------------------
(* The programs.                                                           *)

LEMMA OpsDistinct ==
    /\ \A n \in OpNames, p \in Places :
          Op(n, p) \in Ops /\ Op(n, p)[1] = n /\ Op(n, p)[2] = p
    /\ Maps \subseteq Places
  BY DEF Op, Ops, Places

LEMMA ReadingRegular ==
    ASSUME NEW m \in Maps \ {AccessIDs} PROVE Regular(Reading(m)) /\ Complete(Reading(m))
<1> DEFINE s == Reading(m)
<1>1. s \in Seq(Ops) /\ Len(s) = 3
  BY DEF Reading, RLock, RUnlock, Op, Ops, OpNames, Places
<1>2. s[1] = <<"rlock", m>> /\ s[2] = <<"read", m>> /\ s[3] = <<"runlock", m>>
  BY DEF Reading, RLock, RUnlock, Op
<1> HIDE DEF s
<1>3. \A i, j \in 1..Len(s) : s[i] = s[j] => i = j
  BY <1>1, <1>2
<1>4. ASSUME NEW i \in 1..Len(s) PROVE Disciplined(s, i)
  BY <1>1, <1>2, <1>4 DEF Disciplined, Locking, After, Gone, WithLock, WithRLock, Lock, Unlock,
     RLock, RUnlock, Op, WritingOps, ReadingOps
<1>5. ASSUME NEW i \in 1..Len(s) PROVE Tabular(s, i)
  BY <1>1, <1>2, <1>5 DEF Tabular, PutIndex, RLock, Op
<1>6. Complete(s)
  BY <1>1, <1>2 DEF Complete, In, Lock, RLock, Op, DeleteOp, FindOp
<1> QED BY <1>1, <1>3, <1>4, <1>5, <1>6 DEF Regular, s

LEMMA WritingRegular ==
    ASSUME NEW m \in Maps PROVE Regular(Writing(m)) /\ Complete(Writing(m))
<1> DEFINE s == Writing(m)
<1>1. s \in Seq(Ops) /\ Len(s) = 3
  BY DEF Writing, Lock, Unlock, Op, Ops, OpNames, Places
<1>2. s[1] = <<"lock", m>> /\ s[2] = <<"write", m>> /\ s[3] = <<"unlock", m>>
  BY DEF Writing, Lock, Unlock, Op
<1> HIDE DEF s
<1>3. \A i, j \in 1..Len(s) : s[i] = s[j] => i = j
  BY <1>1, <1>2
<1>4. ASSUME NEW i \in 1..Len(s) PROVE Disciplined(s, i)
  BY <1>1, <1>2, <1>4 DEF Disciplined, Locking, After, Gone, WithLock, WithRLock, Lock, Unlock,
     RLock, RUnlock, Op, WritingOps, ReadingOps
<1>5. ASSUME NEW i \in 1..Len(s) PROVE Tabular(s, i)
  BY <1>1, <1>2, <1>5 DEF Tabular, PutIndex, RLock, Op
<1>6. Complete(s)
  BY <1>1, <1>2 DEF Complete, In, Lock, RLock, Op, DeleteOp, FindOp
<1> QED BY <1>1, <1>3, <1>4, <1>5, <1>6 DEF Regular, s

LEMMA CreateAccessRegular == Regular(CreateAccessTokenSessionOps) /\ Complete(CreateAccessTokenSessionOps)
<1> DEFINE s == CreateAccessTokenSessionOps
<1>1. /\ s \in Seq(Ops) /\ Len(s) = 6
      /\ s[1] = <<"lock", "AccessTokenRequestIDs">>
      /\ s[2] = <<"lock", "AccessTokens">>
      /\ s[3] = <<"put_access", "AccessTokens">>
      /\ s[4] = <<"index_access", "AccessTokenRequestIDs">>
      /\ s[5] = <<"unlock", "AccessTokens">>
      /\ s[6] = <<"unlock", "AccessTokenRequestIDs">>
  BY DEF CreateAccessTokenSessionOps, Lock, Unlock, RLock, RUnlock, Op, Ops, OpNames, TableOps, Places, Maps
<1> HIDE DEF s
<1>2. \A i, j \in 1..Len(s) : s[i] = s[j] => i = j
  BY <1>1
<1>3. ASSUME NEW i \in 1..Len(s) PROVE Disciplined(s, i)
  BY <1>1, <1>3 DEF Disciplined, Locking, After, Gone, WithLock, WithRLock, Lock, Unlock,
     RLock, RUnlock, Op, WritingOps, ReadingOps, Maps
<1>4. ASSUME NEW i \in 1..Len(s) PROVE Tabular(s, i)
  BY <1>1, <1>4 DEF Tabular, PutIndex, After, Gone, WithLock, WithRLock, Lock, Unlock,
     RLock, RUnlock, Op, AccessIDs, RefreshIDs, FindOp, DeleteOp
<1>5. Complete(s)
  BY <1>1 DEF Complete, In, Lock, RLock, Op, AccessIDs, FindOp, DeleteOp
<1> QED BY <1>1, <1>2, <1>3, <1>4, <1>5 DEF Regular, s

LEMMA CreateRefreshRegular == Regular(CreateRefreshTokenSessionOps) /\ Complete(CreateRefreshTokenSessionOps)
<1> DEFINE s == CreateRefreshTokenSessionOps
<1>1. /\ s \in Seq(Ops) /\ Len(s) = 6
      /\ s[1] = <<"lock", "RefreshTokenRequestIDs">>
      /\ s[2] = <<"lock", "RefreshTokens">>
      /\ s[3] = <<"put_refresh", "RefreshTokens">>
      /\ s[4] = <<"index_refresh", "RefreshTokenRequestIDs">>
      /\ s[5] = <<"unlock", "RefreshTokens">>
      /\ s[6] = <<"unlock", "RefreshTokenRequestIDs">>
  BY DEF CreateRefreshTokenSessionOps, Lock, Unlock, RLock, RUnlock, Op, Ops, OpNames, TableOps, Places, Maps
<1> HIDE DEF s
<1>2. \A i, j \in 1..Len(s) : s[i] = s[j] => i = j
  BY <1>1
<1>3. ASSUME NEW i \in 1..Len(s) PROVE Disciplined(s, i)
  BY <1>1, <1>3 DEF Disciplined, Locking, After, Gone, WithLock, WithRLock, Lock, Unlock,
     RLock, RUnlock, Op, WritingOps, ReadingOps, Maps
<1>4. ASSUME NEW i \in 1..Len(s) PROVE Tabular(s, i)
  BY <1>1, <1>4 DEF Tabular, PutIndex, After, Gone, WithLock, WithRLock, Lock, Unlock,
     RLock, RUnlock, Op, AccessIDs, RefreshIDs, FindOp, DeleteOp
<1>5. Complete(s)
  BY <1>1 DEF Complete, In, Lock, RLock, Op, AccessIDs, FindOp, DeleteOp
<1> QED BY <1>1, <1>2, <1>3, <1>4, <1>5 DEF Regular, s

LEMMA RevokeRefreshRegular == Regular(RevokeRefreshTokenOps) /\ Complete(RevokeRefreshTokenOps)
<1> DEFINE s == RevokeRefreshTokenOps
<1>1. /\ s \in Seq(Ops) /\ Len(s) = 5
      /\ s[1] = <<"lock", "RefreshTokenRequestIDs">>
      /\ s[2] = <<"lock", "RefreshTokens">>
      /\ s[3] = <<"deactivate_refresh", "RefreshTokens">>
      /\ s[4] = <<"unlock", "RefreshTokens">>
      /\ s[5] = <<"unlock", "RefreshTokenRequestIDs">>
  BY DEF RevokeRefreshTokenOps, Lock, Unlock, RLock, RUnlock, Op, Ops, OpNames, TableOps, Places, Maps
<1> HIDE DEF s
<1>2. \A i, j \in 1..Len(s) : s[i] = s[j] => i = j
  BY <1>1
<1>3. ASSUME NEW i \in 1..Len(s) PROVE Disciplined(s, i)
  BY <1>1, <1>3 DEF Disciplined, Locking, After, Gone, WithLock, WithRLock, Lock, Unlock,
     RLock, RUnlock, Op, WritingOps, ReadingOps, Maps
<1>4. ASSUME NEW i \in 1..Len(s) PROVE Tabular(s, i)
  BY <1>1, <1>4 DEF Tabular, PutIndex, After, Gone, WithLock, WithRLock, Lock, Unlock,
     RLock, RUnlock, Op, AccessIDs, RefreshIDs, FindOp, DeleteOp
<1>5. Complete(s)
  BY <1>1 DEF Complete, In, Lock, RLock, Op, AccessIDs, FindOp, DeleteOp
<1> QED BY <1>1, <1>2, <1>3, <1>4, <1>5 DEF Regular, s

LEMMA RevokeAccessRegular == Regular(RevokeAccessTokenOps) /\ Complete(RevokeAccessTokenOps)
<1> DEFINE s == RevokeAccessTokenOps
<1>1. /\ s \in Seq(Ops) /\ Len(s) = 6
      /\ s[1] = <<"rlock", "AccessTokenRequestIDs">>
      /\ s[2] = <<"find_access", "AccessTokenRequestIDs">>
      /\ s[3] = <<"lock", "AccessTokens">>
      /\ s[4] = <<"delete_access", "AccessTokens">>
      /\ s[5] = <<"unlock", "AccessTokens">>
      /\ s[6] = <<"runlock", "AccessTokenRequestIDs">>
  BY DEF RevokeAccessTokenOps, Lock, Unlock, RLock, RUnlock, Op, Ops, OpNames, TableOps, Places, Maps
<1> HIDE DEF s
<1>2. \A i, j \in 1..Len(s) : s[i] = s[j] => i = j
  BY <1>1
<1>3. ASSUME NEW i \in 1..Len(s) PROVE Disciplined(s, i)
  BY <1>1, <1>3 DEF Disciplined, Locking, After, Gone, WithLock, WithRLock, Lock, Unlock,
     RLock, RUnlock, Op, WritingOps, ReadingOps, Maps
<1>4. ASSUME NEW i \in 1..Len(s) PROVE Tabular(s, i)
  BY <1>1, <1>4 DEF Tabular, PutIndex, After, Gone, WithLock, WithRLock, Lock, Unlock,
     RLock, RUnlock, Op, AccessIDs, RefreshIDs, FindOp, DeleteOp
<1>5. Complete(s)
  BY <1>1 DEF Complete, In, Lock, RLock, Op, AccessIDs, FindOp, DeleteOp
<1> QED BY <1>1, <1>2, <1>3, <1>4, <1>5 DEF Regular, s

LEMMA CreateDeviceRegular == Regular(Programs.CreateDeviceAuthSession) /\ Complete(Programs.CreateDeviceAuthSession)
<1> DEFINE s == Programs.CreateDeviceAuthSession
<1>1. /\ s \in Seq(Ops) /\ Len(s) = 6
      /\ s[1] = <<"lock", "DeviceCodesRequestIDs">>
      /\ s[2] = <<"lock", "DeviceAuths">>
      /\ s[3] = <<"write", "DeviceAuths">>
      /\ s[4] = <<"write", "DeviceCodesRequestIDs">>
      /\ s[5] = <<"unlock", "DeviceAuths">>
      /\ s[6] = <<"unlock", "DeviceCodesRequestIDs">>
  BY DEF Programs, Lock, Unlock, RLock, RUnlock, Op, Ops, OpNames, TableOps, Places, Maps
<1> HIDE DEF s
<1>2. \A i, j \in 1..Len(s) : s[i] = s[j] => i = j
  BY <1>1
<1>3. ASSUME NEW i \in 1..Len(s) PROVE Disciplined(s, i)
  BY <1>1, <1>3 DEF Disciplined, Locking, After, Gone, WithLock, WithRLock, Lock, Unlock,
     RLock, RUnlock, Op, WritingOps, ReadingOps, Maps
<1>4. ASSUME NEW i \in 1..Len(s) PROVE Tabular(s, i)
  BY <1>1, <1>4 DEF Tabular, PutIndex, After, Gone, WithLock, WithRLock, Lock, Unlock,
     RLock, RUnlock, Op, AccessIDs, RefreshIDs, FindOp, DeleteOp
<1>5. Complete(s)
  BY <1>1 DEF Complete, In, Lock, RLock, Op, AccessIDs, FindOp, DeleteOp
<1> QED BY <1>1, <1>2, <1>3, <1>4, <1>5 DEF Regular, s

LEMMA SetLifespansRegular == Regular(Programs.SetTokenLifespans) /\ Complete(Programs.SetTokenLifespans)
<1> DEFINE s == Programs.SetTokenLifespans
<1>1. /\ s \in Seq(Ops) /\ Len(s) = 4
      /\ s[1] = <<"rlock", "Clients">>
      /\ s[2] = <<"read", "Clients">>
      /\ s[3] = <<"write", "TokenLifespans">>
      /\ s[4] = <<"runlock", "Clients">>
  BY DEF Programs, Lock, Unlock, RLock, RUnlock, Op, Ops, OpNames, TableOps, Places, Maps
<1> HIDE DEF s
<1>2. \A i, j \in 1..Len(s) : s[i] = s[j] => i = j
  BY <1>1
<1>3. ASSUME NEW i \in 1..Len(s) PROVE Disciplined(s, i)
  BY <1>1, <1>3 DEF Disciplined, Locking, After, Gone, WithLock, WithRLock, Lock, Unlock,
     RLock, RUnlock, Op, WritingOps, ReadingOps, Maps
<1>4. ASSUME NEW i \in 1..Len(s) PROVE Tabular(s, i)
  BY <1>1, <1>4 DEF Tabular, PutIndex, After, Gone, WithLock, WithRLock, Lock, Unlock,
     RLock, RUnlock, Op, AccessIDs, RefreshIDs, FindOp, DeleteOp
<1>5. Complete(s)
  BY <1>1 DEF Complete, In, Lock, RLock, Op, AccessIDs, FindOp, DeleteOp
<1> QED BY <1>1, <1>2, <1>3, <1>4, <1>5 DEF Regular, s

LEMMA GetAccessRegular == Regular(Programs.GetAccessTokenSession) /\ Complete(Programs.GetAccessTokenSession)
<1> DEFINE s == Programs.GetAccessTokenSession
<1>1. /\ s \in Seq(Ops) /\ Len(s) = 3
      /\ s[1] = <<"rlock", "AccessTokens">>
      /\ s[2] = <<"get_access", "AccessTokens">>
      /\ s[3] = <<"runlock", "AccessTokens">>
  BY DEF Programs, Lock, Unlock, RLock, RUnlock, Op, Ops, OpNames, TableOps, Places, Maps
<1> HIDE DEF s
<1>2. \A i, j \in 1..Len(s) : s[i] = s[j] => i = j
  BY <1>1
<1>3. ASSUME NEW i \in 1..Len(s) PROVE Disciplined(s, i)
  BY <1>1, <1>3 DEF Disciplined, Locking, After, Gone, WithLock, WithRLock, Lock, Unlock,
     RLock, RUnlock, Op, WritingOps, ReadingOps, Maps
<1>4. ASSUME NEW i \in 1..Len(s) PROVE Tabular(s, i)
  BY <1>1, <1>4 DEF Tabular, PutIndex, After, Gone, WithLock, WithRLock, Lock, Unlock,
     RLock, RUnlock, Op, AccessIDs, RefreshIDs, FindOp, DeleteOp
<1>5. Complete(s)
  BY <1>1 DEF Complete, In, Lock, RLock, Op, AccessIDs, FindOp, DeleteOp
<1> QED BY <1>1, <1>2, <1>3, <1>4, <1>5 DEF Regular, s

LEMMA GetRefreshRegular == Regular(Programs.GetRefreshTokenSession) /\ Complete(Programs.GetRefreshTokenSession)
<1> DEFINE s == Programs.GetRefreshTokenSession
<1>1. /\ s \in Seq(Ops) /\ Len(s) = 3
      /\ s[1] = <<"rlock", "RefreshTokens">>
      /\ s[2] = <<"get_refresh", "RefreshTokens">>
      /\ s[3] = <<"runlock", "RefreshTokens">>
  BY DEF Programs, Lock, Unlock, RLock, RUnlock, Op, Ops, OpNames, TableOps, Places, Maps
<1> HIDE DEF s
<1>2. \A i, j \in 1..Len(s) : s[i] = s[j] => i = j
  BY <1>1
<1>3. ASSUME NEW i \in 1..Len(s) PROVE Disciplined(s, i)
  BY <1>1, <1>3 DEF Disciplined, Locking, After, Gone, WithLock, WithRLock, Lock, Unlock,
     RLock, RUnlock, Op, WritingOps, ReadingOps, Maps
<1>4. ASSUME NEW i \in 1..Len(s) PROVE Tabular(s, i)
  BY <1>1, <1>4 DEF Tabular, PutIndex, After, Gone, WithLock, WithRLock, Lock, Unlock,
     RLock, RUnlock, Op, AccessIDs, RefreshIDs, FindOp, DeleteOp
<1>5. Complete(s)
  BY <1>1 DEF Complete, In, Lock, RLock, Op, AccessIDs, FindOp, DeleteOp
<1> QED BY <1>1, <1>2, <1>3, <1>4, <1>5 DEF Regular, s

LEMMA DeleteRefreshRegular == Regular(Programs.DeleteRefreshTokenSession) /\ Complete(Programs.DeleteRefreshTokenSession)
<1> DEFINE s == Programs.DeleteRefreshTokenSession
<1>1. /\ s \in Seq(Ops) /\ Len(s) = 3
      /\ s[1] = <<"lock", "RefreshTokens">>
      /\ s[2] = <<"delete_refresh", "RefreshTokens">>
      /\ s[3] = <<"unlock", "RefreshTokens">>
  BY DEF Programs, Lock, Unlock, RLock, RUnlock, Op, Ops, OpNames, TableOps, Places, Maps
<1> HIDE DEF s
<1>2. \A i, j \in 1..Len(s) : s[i] = s[j] => i = j
  BY <1>1
<1>3. ASSUME NEW i \in 1..Len(s) PROVE Disciplined(s, i)
  BY <1>1, <1>3 DEF Disciplined, Locking, After, Gone, WithLock, WithRLock, Lock, Unlock,
     RLock, RUnlock, Op, WritingOps, ReadingOps, Maps
<1>4. ASSUME NEW i \in 1..Len(s) PROVE Tabular(s, i)
  BY <1>1, <1>4 DEF Tabular, PutIndex, After, Gone, WithLock, WithRLock, Lock, Unlock,
     RLock, RUnlock, Op, AccessIDs, RefreshIDs, FindOp, DeleteOp
<1>5. Complete(s)
  BY <1>1 DEF Complete, In, Lock, RLock, Op, AccessIDs, FindOp, DeleteOp
<1> QED BY <1>1, <1>2, <1>3, <1>4, <1>5 DEF Regular, s

LEMMA RotateRefreshRegular == Regular(Programs.RotateRefreshToken) /\ Complete(Programs.RotateRefreshToken)
<1> DEFINE s == Programs.RotateRefreshToken
<1>1. /\ s \in Seq(Ops) /\ Len(s) = 11
      /\ s[1] = <<"lock", "RefreshTokenRequestIDs">>
      /\ s[2] = <<"lock", "RefreshTokens">>
      /\ s[3] = <<"deactivate_refresh", "RefreshTokens">>
      /\ s[4] = <<"unlock", "RefreshTokens">>
      /\ s[5] = <<"unlock", "RefreshTokenRequestIDs">>
      /\ s[6] = <<"rlock", "AccessTokenRequestIDs">>
      /\ s[7] = <<"find_access", "AccessTokenRequestIDs">>
      /\ s[8] = <<"lock", "AccessTokens">>
      /\ s[9] = <<"delete_access", "AccessTokens">>
      /\ s[10] = <<"unlock", "AccessTokens">>
      /\ s[11] = <<"runlock", "AccessTokenRequestIDs">>
  <2> DEFINE u == RevokeRefreshTokenOps
             v == RevokeAccessTokenOps
             w == u \o v
  <2>1. s = w
    BY DEF Programs
  <2>2. /\ u \in Seq(Ops) /\ Len(u) = 5
        /\ u[1] = <<"lock", RefreshIDs>> /\ u[2] = <<"lock", "RefreshTokens">>
        /\ u[3] = <<"deactivate_refresh", "RefreshTokens">>
        /\ u[4] = <<"unlock", "RefreshTokens">> /\ u[5] = <<"unlock", RefreshIDs>>
    BY DEF RevokeRefreshTokenOps, Lock, Unlock, Op, Ops, OpNames, TableOps, Places, Maps,
       RefreshIDs
  <2>3. /\ v \in Seq(Ops) /\ Len(v) = 6
        /\ v[1] = <<"rlock", AccessIDs>> /\ v[2] = <<"find_access", AccessIDs>>
        /\ v[3] = <<"lock", "AccessTokens">> /\ v[4] = <<"delete_access", "AccessTokens">>
        /\ v[5] = <<"unlock", "AccessTokens">> /\ v[6] = <<"runlock", AccessIDs>>
    BY DEF RevokeAccessTokenOps, Lock, Unlock, RLock, RUnlock, Op, Ops, OpNames, TableOps,
       Places, Maps, AccessIDs
  <2> HIDE DEF s, u, v
  <2>4. /\ w \in Seq(Ops) /\ Len(w) = Len(u) + Len(v)
        /\ \A i \in 1..Len(u) + Len(v) :
              w[i] = IF i <= Len(u) THEN u[i] ELSE v[i - Len(u)]
    <3> u \in Seq(Ops) /\ v \in Seq(Ops)
      BY <2>2, <2>3
    <3> QED BY ConcatProperties, Zenon
  <2>5. /\ s \in Seq(Ops) /\ Len(s) = 11
        /\ \A i \in 1..11 : s[i] = IF i <= 5 THEN u[i] ELSE v[i - 5]
    <3> HIDE DEF w
    <3> QED BY <2>1, <2>2, <2>3, <2>4
  <2> HIDE <2>1
  <2> QED BY <2>2, <2>3, <2>5 DEF AccessIDs, RefreshIDs
<1> HIDE DEF s
<1>2. \A i, j \in 1..Len(s) : s[i] = s[j] => i = j
  BY <1>1
<1>3. ASSUME NEW i \in 1..Len(s) PROVE Disciplined(s, i)
  BY <1>1, <1>3 DEF Disciplined, Locking, After, Gone, WithLock, WithRLock, Lock, Unlock,
     RLock, RUnlock, Op, WritingOps, ReadingOps, Maps
<1>4. ASSUME NEW i \in 1..Len(s) PROVE Tabular(s, i)
  BY <1>1, <1>4 DEF Tabular, PutIndex, After, Gone, WithLock, WithRLock, Lock, Unlock,
     RLock, RUnlock, Op, AccessIDs, RefreshIDs, FindOp, DeleteOp
<1>5. Complete(s)
  BY <1>1 DEF Complete, In, Lock, RLock, Op, AccessIDs, FindOp, DeleteOp
<1> QED BY <1>1, <1>2, <1>3, <1>4, <1>5 DEF Regular, s

\* Every method is regular and complete.
LEMMA ProgramRegular ==
    ASSUME NEW m \in Methods
    PROVE  Regular(Program(m)) /\ Complete(Program(m))
<1>1. CASE m \in DOMAIN Readers
  <2>1. Readers[m] \in Maps \ {AccessIDs}
    BY <1>1 DEF Readers, Maps, AccessIDs
  <2>2. Program(m) = Reading(Readers[m])
    BY <1>1 DEF Program
  <2> QED BY <2>1, <2>2, ReadingRegular
<1>2. CASE m \notin DOMAIN Readers /\ m \in DOMAIN Writers
  <2>1. Writers[m] \in Maps
    BY <1>2 DEF Writers, Maps
  <2>2. Program(m) = Writing(Writers[m])
    BY <1>2 DEF Program
  <2> QED BY <2>1, <2>2, WritingRegular
<1>3. CASE m \notin DOMAIN Readers /\ m \notin DOMAIN Writers
  <2>1. m \in DOMAIN Programs
    BY <1>3 DEF Methods
  <2>2. Program(m) = Programs[m]
    BY <1>3 DEF Program
  <2>3. Regular(Programs[m]) /\ Complete(Programs[m])
    <3>1. m \in {"SetTokenLifespans", "CreateDeviceAuthSession", "CreateAccessTokenSession",
                 "GetAccessTokenSession", "RevokeAccessToken", "CreateRefreshTokenSession",
                 "GetRefreshTokenSession", "DeleteRefreshTokenSession",
                 "RevokeRefreshToken", "RotateRefreshToken"}
      BY <2>1 DEF Programs
    <3>2. /\ Programs.CreateAccessTokenSession = CreateAccessTokenSessionOps
          /\ Programs.RevokeAccessToken = RevokeAccessTokenOps
          /\ Programs.CreateRefreshTokenSession = CreateRefreshTokenSessionOps
          /\ Programs.RevokeRefreshToken = RevokeRefreshTokenOps
      BY DEF Programs
    <3> QED BY <3>1, <3>2, CreateAccessRegular, CreateRefreshRegular, RevokeRefreshRegular,
               RevokeAccessRegular, CreateDeviceRegular, SetLifespansRegular,
               GetAccessRegular, GetRefreshRegular, DeleteRefreshRegular, RotateRefreshRegular
  <2> QED BY <2>2, <2>3
<1> QED BY <1>1, <1>2, <1>3

-----------------------------------------------------------------------------
(* What is left of a method.                                               *)

LEMMA TailFacts ==
    ASSUME NEW s \in Seq(Ops), s # <<>>
    PROVE  /\ Tail(s) \in Seq(Ops) /\ Len(s) \in Nat /\ Len(s) > 0 /\ Head(s) = s[1]
           /\ Len(Tail(s)) = Len(s) - 1
           /\ \A i \in 1..Len(s) - 1 : Tail(s)[i] = s[i + 1]
  OBVIOUS

\* After a step the operations left are those of before, without the first.
LEMMA TailIn ==
    ASSUME NEW s, Regular(s), s # <<>>, NEW x
    PROVE  In(Tail(s), x) <=> In(s, x) /\ x # Head(s)
<1> DEFINE r == Tail(s)
<1>1. s \in Seq(Ops) /\ \A i, j \in 1..Len(s) : s[i] = s[j] => i = j
  BY DEF Regular
<1>2. /\ Len(s) \in Nat /\ Len(s) > 0 /\ Head(s) = s[1] /\ Len(r) = Len(s) - 1
      /\ \A i \in 1..Len(s) - 1 : r[i] = s[i + 1]
  BY <1>1, TailFacts
<1> HIDE DEF r
<1>3. ASSUME In(r, x) PROVE In(s, x) /\ x # Head(s)
  BY <1>1, <1>2, <1>3 DEF In
<1>4. ASSUME In(s, x), x # Head(s) PROVE In(r, x)
  <2>1. PICK j \in 1..Len(s) : s[j] = x
    BY <1>4 DEF In
  <2>2. j # 1 /\ j - 1 \in 1..Len(s) - 1 /\ r[j - 1] = x
    BY <1>2, <1>4, <2>1
  <2> QED BY <1>2, <2>2 DEF In
<1> QED BY <1>3, <1>4 DEF r

LEMMA TailRegular ==
    ASSUME NEW s, Regular(s), s # <<>>
    PROVE  Regular(Tail(s))
<1> DEFINE r == Tail(s)
<1>1. s \in Seq(Ops) /\ \A i, j \in 1..Len(s) : s[i] = s[j] => i = j
  BY DEF Regular
<1>2. /\ r \in Seq(Ops) /\ Len(s) \in Nat /\ Len(s) > 0 /\ Len(r) = Len(s) - 1
      /\ \A i \in 1..Len(s) - 1 : r[i] = s[i + 1]
  BY <1>1, TailFacts
<1>3. \A i \in 1..Len(s) : Disciplined(s, i) /\ Tabular(s, i)
  BY DEF Regular
<1> HIDE DEF r
<1>4. \A i, j \in 1..Len(r) : r[i] = r[j] => i = j
  BY <1>1, <1>2
<1>5. ASSUME NEW i \in 1..Len(r) PROVE Disciplined(r, i) /\ Tabular(r, i)
  <2>1. i + 1 \in 1..Len(s) /\ r[i] = s[i + 1]
    BY <1>2
  <2>2. \A x : /\ After(s, i + 1, x) => After(r, i, x)
               /\ Gone(s, i + 1, x) => Gone(r, i, x)
    <3>1. ASSUME NEW x, After(s, i + 1, x) PROVE After(r, i, x)
      <4>1. PICK j \in 1..Len(s) : i + 1 < j /\ s[j] = x
        BY <3>1 DEF After
      <4>2. j - 1 \in 1..Len(r) /\ i < j - 1 /\ r[j - 1] = x
        BY <1>2, <4>1
      <4> QED BY <4>2 DEF After
    <3>2. ASSUME NEW x, Gone(s, i + 1, x) PROVE Gone(r, i, x)
      BY <1>2, <3>2 DEF Gone
    <3> QED BY <3>1, <3>2
  <2>3. \A m : /\ WithLock(s, i + 1, m) => WithLock(r, i, m)
               /\ WithRLock(s, i + 1, m) => WithRLock(r, i, m)
    BY <2>2 DEF WithLock, WithRLock
  <2>4. Disciplined(s, i + 1) /\ Tabular(s, i + 1)
    BY <1>3, <2>1
  <2>5. Disciplined(r, i)
    BY <2>1, <2>2, <2>3, <2>4 DEF Disciplined
  <2>6. /\ i < Len(r) <=> i + 1 < Len(s)
        /\ i + 2 <= Len(r) <=> i + 3 <= Len(s)
        /\ i + 1 <= Len(r) => r[i + 1] = s[i + 2]
        /\ i + 2 <= Len(r) => r[i + 2] = s[i + 3]
        /\ i > 1 => i + 1 > 1 /\ r[i - 1] = s[i] /\ (i + 1) - 1 = i
        /\ (i + 1) + 1 = i + 2 /\ (i + 1) + 2 = i + 3
        /\ r[Len(r)] = s[Len(s)]
    BY <1>2
  <2>7. \A put, index, ids : PutIndex(s, i + 1, put, index, ids) => PutIndex(r, i, put, index, ids)
    BY <1>2, <2>1, <2>3, <2>6 DEF PutIndex
  <2>8. Tabular(r, i)
    BY <1>2, <2>1, <2>2, <2>3, <2>4, <2>6, <2>7 DEF Tabular
  <2> QED BY <2>5, <2>8
<1> QED BY <1>2, <1>4, <1>5 DEF Regular, r

\* The mutex m is held for writing, for reading, by who has s left to do.
Keeps(s, m) == In(s, Unlock(m)) /\ ~In(s, Lock(m))
Reads(s, m) == In(s, RUnlock(m)) /\ ~In(s, RLock(m))

LEMMA HeldKeeps ==
    ASSUME NEW s, s \in Seq(Ops), s # <<>>, NEW m
    PROVE  /\ WithLock(s, 1, m) => Keeps(s, m)
           /\ WithRLock(s, 1, m) => Reads(s, m)
  BY DEF WithLock, WithRLock, After, Gone, Keeps, Reads, In

LEMMA TailKeeps ==
    ASSUME NEW s, Regular(s), s # <<>>, NEW m
    PROVE  /\ Keeps(Tail(s), m) => /\ Keeps(s, m) \/ Head(s) = Lock(m)
                                   /\ Head(s) # Unlock(m)
           /\ Reads(Tail(s), m) => /\ Reads(s, m) \/ Head(s) = RLock(m)
                                   /\ Head(s) # RUnlock(m)
  BY TailIn DEF Keeps, Reads

\* Between finding the access token and deleting it the index is held.
LEMMA FoundReads ==
    ASSUME NEW s, Regular(s), In(s, DeleteOp), ~In(s, FindOp)
    PROVE  Reads(s, AccessIDs)
<1>1. s \in Seq(Ops) /\ \A i \in 1..Len(s) : Tabular(s, i)
  BY DEF Regular
<1>2. PICK i \in 1..Len(s) : s[i] = DeleteOp
  BY DEF In
<1>3. In(s, RUnlock(AccessIDs))
  BY <1>1, <1>2 DEF Tabular, DeleteOp, Op, WithRLock, After, In
<1>4. ASSUME NEW j \in 1..Len(s), s[j] = RLock(AccessIDs) PROVE FALSE
  BY <1>1, <1>4 DEF Tabular, After, In
<1> QED BY <1>3, <1>4 DEF Reads, In

\* What the first operation left tells of the mutexes and of its neighbours.
LEMMA HeadLocks ==
    ASSUME NEW s, Regular(s), s # <<>>
    PROVE  LET n == Head(s)[1]
               m == Head(s)[2] IN
           /\ Head(s) = Op(n, m) /\ n \in OpNames /\ m \in Places
           /\ n \in Locking => m \in Maps
           /\ n = "unlock" => Keeps(s, m)
           /\ n = "runlock" => Reads(s, m)
           /\ n \in WritingOps /\ m \in Maps => Keeps(s, m)
           /\ n \in ReadingOps => Keeps(s, m) \/ Reads(s, m)
<1> DEFINE n == s[1][1]
           m == s[1][2]
<1>1. /\ s \in Seq(Ops) /\ \A i, j \in 1..Len(s) : s[i] = s[j] => i = j
      /\ \A i \in 1..Len(s) : Disciplined(s, i)
  BY DEF Regular
<1>2. Len(s) \in Nat /\ Len(s) > 0 /\ Head(s) = s[1] /\ 1 \in 1..Len(s)
  BY <1>1, TailFacts
<1>3. s[1] = Op(n, m) /\ n \in OpNames /\ m \in Places
  BY <1>1, <1>2 DEF Ops, Op
<1>4. Disciplined(s, 1)
  BY <1>1, <1>2
<1>5. ASSUME n = "unlock" PROVE Keeps(s, m)
  <2>1. s[1] = Unlock(m) /\ In(s, Unlock(m))
    BY <1>2, <1>3, <1>5 DEF Unlock, In
  <2>2. ASSUME NEW j \in 1..Len(s), s[j] = Lock(m) PROVE FALSE
    <3>1. Disciplined(s, j) /\ s[j][1] = "lock" /\ s[j][2] = m
      BY <1>1, <2>2 DEF Lock, Op
    <3>2. After(s, j, Unlock(m))
      BY <3>1 DEF Disciplined
    <3> QED BY <1>1, <1>2, <2>1, <3>2 DEF After
  <2> QED BY <2>1, <2>2 DEF Keeps, In
<1>6. ASSUME n = "runlock" PROVE Reads(s, m)
  <2>1. s[1] = RUnlock(m) /\ In(s, RUnlock(m))
    BY <1>2, <1>3, <1>6 DEF RUnlock, In
  <2>2. ASSUME NEW j \in 1..Len(s), s[j] = RLock(m) PROVE FALSE
    <3>1. Disciplined(s, j) /\ s[j][1] = "rlock" /\ s[j][2] = m
      BY <1>1, <2>2 DEF RLock, Op
    <3>2. After(s, j, RUnlock(m))
      BY <3>1 DEF Disciplined
    <3> QED BY <1>1, <1>2, <2>1, <3>2 DEF After
  <2> QED BY <2>1, <2>2 DEF Reads, In
<1>7. /\ n \in Locking => m \in Maps
      /\ n \in WritingOps /\ m \in Maps => Keeps(s, m)
      /\ n \in ReadingOps => Keeps(s, m) \/ Reads(s, m)
  BY <1>1, <1>4, HeldKeeps DEF Disciplined
<1> QED BY <1>2, <1>3, <1>5, <1>6, <1>7

LEMMA HeadTables ==
    ASSUME NEW s, Regular(s), s # <<>>
    PROVE  LET n == Head(s)[1]
               m == Head(s)[2] IN
           /\ n = "put_access" => /\ Tail(s) # <<>> /\ Head(Tail(s)) = Op("index_access", AccessIDs)
                                  /\ Keeps(s, AccessIDs)
           /\ n = "put_refresh" => /\ Tail(s) # <<>> /\ Head(Tail(s)) = Op("index_refresh", RefreshIDs)
                                   /\ Keeps(s, RefreshIDs)
           /\ n = "index_access" => m = AccessIDs
           /\ n = "index_refresh" => m = RefreshIDs
           /\ n = "find_access" => /\ Head(s) = FindOp /\ Reads(s, AccessIDs)
                                   /\ s[Len(s)] = RUnlock(AccessIDs)
           /\ n = "delete_access" => /\ Head(s) = DeleteOp /\ ~In(s, FindOp)
                                     /\ Reads(s, AccessIDs)
           /\ n = "deactivate_refresh" =>
                 /\ SubSeq(s, 2, 3) = <<Unlock("RefreshTokens"), Unlock(RefreshIDs)>>
                 /\ Keeps(s, "RefreshTokens") /\ Keeps(s, RefreshIDs)
           /\ Tail(s) # <<>> => /\ Head(Tail(s))[1] = "index_access" => n = "put_access"
                                /\ Head(Tail(s))[1] = "index_refresh" => n = "put_refresh"
<1> DEFINE n == s[1][1]
           m == s[1][2]
           r == Tail(s)
<1>1. /\ s \in Seq(Ops) /\ \A i \in 1..Len(s) : Tabular(s, i)
  BY DEF Regular
<1>2. /\ Len(s) \in Nat /\ Len(s) > 0 /\ Head(s) = s[1] /\ 1 \in 1..Len(s)
      /\ r \in Seq(Ops) /\ Len(r) = Len(s) - 1
      /\ \A i \in 1..Len(s) - 1 : r[i] = s[i + 1]
  BY <1>1, TailFacts
<1> HIDE DEF r
<1>3. r # <<>> <=> Len(s) > 1
  BY <1>2
<1>4. r # <<>> => Head(r) = s[2] /\ 2 \in 1..Len(s)
  BY <1>2, <1>3
<1>5. Tabular(s, 1) /\ (r # <<>> => Tabular(s, 2))
  BY <1>1, <1>2, <1>4
<1>6. \A x : /\ WithLock(s, 1, x) => Keeps(s, x)
             /\ WithRLock(s, 1, x) => Reads(s, x)
             /\ Gone(s, 1, x) => ~In(s, x)
  BY <1>1, HeldKeeps DEF Gone, In
<1>7. n = "put_access" => r # <<>> /\ Head(r) = Op("index_access", AccessIDs) /\ Keeps(s, AccessIDs)
  BY <1>2, <1>3, <1>4, <1>5, <1>6 DEF Tabular, PutIndex
<1>8. n = "put_refresh" => r # <<>> /\ Head(r) = Op("index_refresh", RefreshIDs) /\ Keeps(s, RefreshIDs)
  BY <1>2, <1>3, <1>4, <1>5, <1>6 DEF Tabular, PutIndex
<1>9. /\ n = "index_access" => m = AccessIDs
      /\ n = "index_refresh" => m = RefreshIDs
      /\ n = "find_access" => /\ s[1] = FindOp /\ Reads(s, AccessIDs)
                              /\ s[Len(s)] = RUnlock(AccessIDs)
      /\ n = "delete_access" => s[1] = DeleteOp /\ ~In(s, FindOp) /\ Reads(s, AccessIDs)
  BY <1>5, <1>6 DEF Tabular, PutIndex
<1>10. ASSUME n = "deactivate_refresh"
       PROVE  /\ SubSeq(s, 2, 3) = <<Unlock("RefreshTokens"), Unlock(RefreshIDs)>>
              /\ Keeps(s, "RefreshTokens") /\ Keeps(s, RefreshIDs)
  <2>1. /\ 3 <= Len(s) /\ s[2] = Unlock("RefreshTokens") /\ s[3] = Unlock(RefreshIDs)
        /\ Keeps(s, "RefreshTokens") /\ Keeps(s, RefreshIDs)
    BY <1>2, <1>5, <1>6, <1>10 DEF Tabular
  <2>2. SubSeq(s, 2, 3) = <<s[2], s[3]>>
    <3> DEFINE u == SubSeq(s, 2, 3)
    <3>1. u \in Seq(Ops) /\ Len(u) = 2 /\ u[1] = s[2] /\ u[2] = s[3]
      BY <1>1, <1>2, <2>1
    <3> HIDE DEF u
    <3>2. u = <<u[1], u[2]>>
      BY <3>1
    <3> QED BY <3>1, <3>2 DEF u
  <2> QED BY <2>1, <2>2
<1>11. r # <<>> => /\ s[2][1] = "index_access" => n = "put_access"
                   /\ s[2][1] = "index_refresh" => n = "put_refresh"
  BY <1>5 DEF Tabular, PutIndex
<1> QED BY <1>2, <1>4, <1>7, <1>8, <1>9, <1>10, <1>11 DEF r

\* The two early returns.
LEMMA JumpsRegular ==
    /\ Regular(<<RUnlock(AccessIDs)>>)
    /\ Regular(<<Unlock("RefreshTokens"), Unlock(RefreshIDs)>>)
<1>1. Regular(<<RUnlock(AccessIDs)>>)
  <2> DEFINE s == <<RUnlock(AccessIDs)>>
  <2>1. s \in Seq(Ops) /\ Len(s) = 1 /\ s[1] = <<"runlock", "AccessTokenRequestIDs">>
    BY DEF RUnlock, Op, Ops, OpNames, Places, Maps, AccessIDs
  <2> HIDE DEF s
  <2>2. ASSUME NEW i \in 1..Len(s) PROVE Disciplined(s, i) /\ Tabular(s, i)
    BY <2>1, <2>2 DEF Disciplined, Tabular, PutIndex, Locking, WritingOps, ReadingOps, Maps, RLock, Op
  <2> QED BY <2>1, <2>2 DEF Regular, s
<1>2. Regular(<<Unlock("RefreshTokens"), Unlock(RefreshIDs)>>)
  <2> DEFINE s == <<Unlock("RefreshTokens"), Unlock(RefreshIDs)>>
  <2>1. /\ s \in Seq(Ops) /\ Len(s) = 2 /\ s[1] = <<"unlock", "RefreshTokens">>
        /\ s[2] = <<"unlock", "RefreshTokenRequestIDs">>
    BY DEF Unlock, Op, Ops, OpNames, Places, Maps, RefreshIDs
  <2> HIDE DEF s
  <2>2. ASSUME NEW i \in 1..Len(s) PROVE Disciplined(s, i) /\ Tabular(s, i)
    BY <2>1, <2>2 DEF Disciplined, Tabular, PutIndex, Locking, WritingOps, ReadingOps, Maps, RLock, Op
  <2>3. \A i, j \in 1..Len(s) : s[i] = s[j] => i = j
    BY <2>1
  <2> QED BY <2>1, <2>2, <2>3 DEF Regular, s
<1> QED BY <1>1, <1>2

-----------------------------------------------------------------------------
(* The inductive invariant.                                                *)

\* As LocksTypeOK, but only goroutines issue and index tokens.
LocksTypes ==
    /\ authorizeCodes \in [AuthReqs -> CodeSession \union {None}]
    /\ accessTokens \in [AccessSignatures -> Requester \union {None}]
    /\ accessTokenRequestIDs \in [AuthReqs -> Calls \union {None}]
    /\ refreshTokens \in [Calls -> RefreshSession \union {None}]
    /\ refreshTokenRequestIDs \in [AuthReqs -> Calls \union {None}]
    /\ args \in [Calls -> [sig : Calls, req : Requester]]
    /\ todo \in [Calls -> Seq(Ops)]
    /\ writer \in [Maps -> Calls \union {None}]
    /\ pending \in [Maps -> Calls \union {None}]
    /\ readers \in [Maps -> SUBSET Calls]
    /\ blocked \in [Maps -> SUBSET Calls]

RegularInv == \A k \in Calls : Regular(todo[k])

\* A writer is alone, and who is kept out waits for just this mutex.
MutexInv ==
    \A m \in Maps :
        /\ writer[m] # None => readers[m] = {} /\ pending[m] = None
        /\ blocked[m] # {} => writer[m] # None \/ pending[m] # None
        /\ blocked[m] \intersect readers[m] = {}
        /\ \A k \in blocked[m] : Does(k, "rlock") /\ On(k) = m

\* Who has an unlock left, and not its lock, holds the mutex.
HoldInv ==
    \A k \in Calls, m \in Maps :
        /\ Keeps(todo[k], m) => writer[m] = k
        /\ Reads(todo[k], m) => k \in readers[m]

\* The signature RevokeAccessToken has found is still the one in the index.
FoundInv ==
    \A k \in Calls :
        In(todo[k], DeleteOp) /\ ~In(todo[k], FindOp) =>
            /\ accessTokenRequestIDs[args[k].req.id] = args[k].sig

LocksInv == LocksTypes /\ RegularInv /\ MutexInv /\ HoldInv /\ FoundInv

LEMMA InvInit == LocksInit => LocksInv
<1> SUFFICES ASSUME LocksInit PROVE LocksInv
  OBVIOUS
<1>1. LocksTypes
  BY DEF LocksInit, StoreInit, LocksTypes
<1>2. \A k \in Calls : todo[k] = <<>> /\ Regular(todo[k])
  BY DEF LocksInit, Regular
<1>3. \A k \in Calls : \A x : ~In(todo[k], x)
  BY <1>2 DEF In
<1>4. MutexInv
  BY DEF LocksInit, MutexInv
<1> QED BY <1>1, <1>2, <1>3, <1>4 DEF LocksInv, RegularInv, HoldInv, FoundInv, Keeps, Reads

LEMMA AdvanceKeeps ==
    ASSUME LocksTypes, RegularInv, NEW k \in Calls, todo[k] # <<>>, Advance(k)
    PROVE  /\ todo' \in [Calls -> Seq(Ops)] /\ RegularInv'
           /\ todo' = [todo EXCEPT ![k] = Tail(todo[k])]
           /\ \A j \in Calls : todo'[j] = IF j = k THEN Tail(todo[k]) ELSE todo[j]
<1>1. todo \in [Calls -> Seq(Ops)] /\ todo' = [todo EXCEPT ![k] = Tail(todo[k])]
  BY DEF LocksTypes, Advance
<1>2. \A j \in Calls : todo'[j] = IF j = k THEN Tail(todo[k]) ELSE todo[j]
  BY <1>1
<1>3. \A j \in Calls : Regular(todo'[j])
  BY <1>2, TailRegular DEF RegularInv
<1>4. todo' \in [Calls -> Seq(Ops)]
  BY <1>1, TailFacts
<1> QED BY <1>1, <1>2, <1>3, <1>4 DEF RegularInv

\* Steps that leave the mutexes alone.
LEMMA QuietStep ==
    ASSUME LocksInv, NEW k \in Calls, UNCHANGED lockVars, NEW t,
           \A j \in Calls : todo'[j] = IF j = k THEN t ELSE todo[j],
           \A m \in Maps : k \notin blocked[m],
           \A m \in Maps : /\ Keeps(t, m) => Keeps(todo[k], m)
                           /\ Reads(t, m) => Reads(todo[k], m) \/ k \in readers[m]
    PROVE  MutexInv' /\ HoldInv'
<1>1. \A j \in Calls : j # k => todo'[j] = todo[j]
  OBVIOUS
<1>2. \A m \in Maps : \A j \in blocked[m] : j \in Calls /\ j # k
  BY DEF LocksInv, LocksTypes
<1>3. MutexInv'
  BY <1>1, <1>2 DEF LocksInv, MutexInv, lockVars, Does, On
<1>4. HoldInv'
  BY DEF LocksInv, HoldInv, lockVars
<1> QED BY <1>3, <1>4

\* A goroutine that is kept out can do nothing but enter.
LEMMA NotBlocked ==
    ASSUME LocksInv, NEW k \in Calls, NEW m \in Maps,
           \/ todo[k] = <<>> \/ Head(todo[k])[1] # "rlock"
           \/ Head(todo[k])[2] \in Maps /\ k \in readers[Head(todo[k])[2]]
    PROVE  k \notin blocked[m]
  BY DEF LocksInv, MutexInv, Does, On

\* One operation behind, nothing else is new.
LEMMA QuietAdvance ==
    ASSUME LocksInv, NEW k \in Calls, todo[k] # <<>>, Advance(k), UNCHANGED lockVars,
           Head(todo[k])[1] \notin Locking
    PROVE  MutexInv' /\ HoldInv'
<1>1. Regular(todo[k]) /\ LocksTypes /\ RegularInv
  BY DEF LocksInv, RegularInv
<1>2. \A j \in Calls : todo'[j] = IF j = k THEN Tail(todo[k]) ELSE todo[j]
  BY <1>1, AdvanceKeeps
<1>3. \A m \in Maps : k \notin blocked[m]
  BY NotBlocked DEF Locking
<1>4. \A m \in Maps : Head(todo[k]) # Lock(m) /\ Head(todo[k]) # RLock(m)
  BY DEF Lock, RLock, Op, Locking
<1>5. \A m \in Maps : /\ Keeps(Tail(todo[k]), m) => Keeps(todo[k], m)
                      /\ Reads(Tail(todo[k]), m) => Reads(todo[k], m)
  BY <1>1, <1>4, TailKeeps
<1> QED BY <1>2, <1>3, <1>5, QuietStep

LEMMA FoundAdvance ==
    ASSUME LocksInv, NEW k \in Calls, todo[k] # <<>>, Advance(k),
           Head(todo[k])[1] # "find_access",
           UNCHANGED accessTokenRequestIDs,
           UNCHANGED args \/ (Tail(todo[k]) = <<>> /\ \A j \in Calls : j # k => args'[j] = args[j])
    PROVE  FoundInv'
<1>1. Regular(todo[k]) /\ LocksTypes /\ RegularInv
  BY DEF LocksInv, RegularInv
<1>2. \A j \in Calls : todo'[j] = IF j = k THEN Tail(todo[k]) ELSE todo[j]
  BY <1>1, AdvanceKeeps
<1>3. Head(todo[k]) # FindOp
  BY DEF FindOp, Op
<1>4. \A x : In(Tail(todo[k]), x) <=> In(todo[k], x) /\ x # Head(todo[k])
  BY <1>1, TailIn
<1> SUFFICES ASSUME NEW j \in Calls, In(todo'[j], DeleteOp), ~In(todo'[j], FindOp)
             PROVE  accessTokenRequestIDs[args'[j].req.id] = args'[j].sig
  BY DEF FoundInv
<1>5. In(todo[j], DeleteOp) /\ ~In(todo[j], FindOp)
  BY <1>2, <1>3, <1>4
<1>6. j = k => Tail(todo[k]) # <<>>
  <2>1. ~In(<<>>, DeleteOp)
    BY DEF In
  <2> QED BY <1>2, <2>1
<1>7. args'[j] = args[j]
  BY <1>6
<1> QED BY <1>5, <1>7 DEF LocksInv, FoundInv

LEMMA CompleteHolds ==
    ASSUME NEW s, Complete(s), NEW m
    PROVE  ~Keeps(s, m) /\ ~Reads(s, m)
<1>1. ASSUME In(s, Unlock(m)) PROVE In(s, Lock(m))
  <2>1. PICK i \in 1..Len(s) : s[i] = Unlock(m)
    BY <1>1 DEF In
  <2>2. s[i][1] = "unlock" /\ s[i][2] = m
    BY <2>1 DEF Unlock, Op
  <2> QED BY <2>2 DEF Complete
<1>2. ASSUME In(s, RUnlock(m)) PROVE In(s, RLock(m))
  <2>1. PICK i \in 1..Len(s) : s[i] = RUnlock(m)
    BY <1>2 DEF In
  <2>2. s[i][1] = "runlock" /\ s[i][2] = m
    BY <2>1 DEF RUnlock, Op
  <2> QED BY <2>2 DEF Complete
<1> QED BY <1>1, <1>2 DEF Keeps, Reads

LEMMA CallInv ==
    ASSUME LocksInv, NEW k \in Calls, Call(k)
    PROVE  LocksInv'
<1>1. PICK m \in UsedMethods[k], s \in Calls, r \in Requester :
         /\ todo' = [todo EXCEPT ![k] = Program(m)]
         /\ args' = [args EXCEPT ![k] = [sig |-> s, req |-> r]]
  BY DEF Call
<1>2. m \in Methods
  BY MethodsAssumption
<1>3. Regular(Program(m)) /\ Complete(Program(m))
  BY <1>2, ProgramRegular
<1>4. Program(m) \in Seq(Ops)
  BY <1>3 DEF Regular
<1>5. UNCHANGED lockVars /\ todo[k] = <<>> /\ LocksTypes /\ RegularInv
  BY DEF Call, LocksInv
<1>6. LocksTypes'
  BY <1>1, <1>4 DEF Call, LocksInv, LocksTypes, accessVars, refreshVars, tableVars, lockVars
<1>7. \A j \in Calls : todo'[j] = IF j = k THEN Program(m) ELSE todo[j]
  BY <1>1, <1>5 DEF LocksTypes
<1>8. RegularInv'
  BY <1>3, <1>5, <1>7 DEF RegularInv
<1>9. \A x : ~Keeps(Program(m), x) /\ ~Reads(Program(m), x)
  BY <1>3, CompleteHolds
<1>10. \A x \in Maps : k \notin blocked[x]
  BY <1>5, NotBlocked
<1>11. MutexInv' /\ HoldInv'
  BY <1>5, <1>7, <1>9, <1>10, QuietStep
<1>12. FoundInv'
  <2>1. ~(In(Program(m), DeleteOp) /\ ~In(Program(m), FindOp))
    BY <1>3 DEF Complete
  <2>2. \A j \in Calls : j # k => args'[j] = args[j]
    BY <1>1, <1>5 DEF LocksTypes
  <2>3. UNCHANGED accessTokenRequestIDs
    BY DEF Call, tableVars, accessVars
  <2> QED BY <1>7, <2>1, <2>2, <2>3 DEF LocksInv, FoundInv
<1> QED BY <1>6, <1>8, <1>11, <1>12 DEF LocksInv

LEMMA AnnounceInv ==
    ASSUME LocksInv, NEW k \in Calls, Announce(k)
    PROVE  LocksInv'
<1> DEFINE m == On(k)
<1>1. todo[k] # <<>> /\ Head(todo[k])[1] = "lock" /\ Regular(todo[k])
  BY DEF Announce, Does, LocksInv, RegularInv
<1>2. m \in Maps
  BY <1>1, HeadLocks DEF On, Locking
<1>3. /\ pending[m] = None /\ writer[m] = None /\ pending' = [pending EXCEPT ![m] = k]
      /\ UNCHANGED <<todo, args, writer, readers, blocked, authorizeCodes, tableVars>>
  BY DEF Announce
<1> HIDE DEF m
<1>4. LocksTypes'
  BY <1>2, <1>3 DEF LocksInv, LocksTypes, tableVars, accessVars, refreshVars
<1>5. MutexInv'
  BY <1>2, <1>3 DEF LocksInv, LocksTypes, MutexInv, Does, On
<1>6. RegularInv' /\ HoldInv' /\ FoundInv'
  BY <1>3 DEF LocksInv, RegularInv, HoldInv, FoundInv, tableVars, accessVars
<1> QED BY <1>4, <1>5, <1>6 DEF LocksInv

LEMMA AcquireInv ==
    ASSUME LocksInv, NEW k \in Calls, Acquire(k)
    PROVE  LocksInv'
<1> DEFINE m == On(k)
<1>1. todo[k] # <<>> /\ Head(todo[k])[1] = "lock" /\ Regular(todo[k]) /\ LocksTypes /\ RegularInv
  BY DEF Acquire, Does, LocksInv, RegularInv
<1>2. m \in Maps /\ Head(todo[k]) = Lock(m)
  BY <1>1, HeadLocks DEF On, Locking, Lock
<1>3. /\ pending[m] = k /\ readers[m] = {}
      /\ pending' = [pending EXCEPT ![m] = None] /\ writer' = [writer EXCEPT ![m] = k]
      /\ Advance(k) /\ UNCHANGED <<args, readers, blocked, authorizeCodes, tableVars>>
  BY DEF Acquire
<1> HIDE DEF m
<1>4. /\ todo' \in [Calls -> Seq(Ops)] /\ RegularInv'
      /\ \A j \in Calls : todo'[j] = IF j = k THEN Tail(todo[k]) ELSE todo[j]
  BY <1>1, <1>3, AdvanceKeeps
<1>5. LocksTypes'
  BY <1>2, <1>3, <1>4 DEF LocksInv, LocksTypes, tableVars, accessVars, refreshVars
<1>6. \A x \in Maps : k \notin blocked[x]
  BY <1>1, NotBlocked
<1>7. k # None /\ writer[m] = None
  BY <1>2, <1>3, NoneAssumption DEF LocksInv, MutexInv
<1>8. MutexInv'
  <2>1. \A x \in Maps : \A j \in blocked[x] : j \in Calls /\ todo'[j] = todo[j]
    BY <1>4, <1>6 DEF LocksInv, LocksTypes
  <2> QED BY <1>2, <1>3, <1>7, <2>1 DEF LocksInv, LocksTypes, MutexInv, Does, On
<1>9. HoldInv'
  <2>1. ASSUME NEW j \in Calls, NEW x \in Maps, Keeps(todo'[j], x) PROVE writer'[x] = j
    <3>1. CASE j = k
      <4>1. Keeps(todo[k], x) \/ Lock(m) = Lock(x)
        BY <1>1, <1>2, <1>4, <2>1, <3>1, TailKeeps
      <4>2. Keeps(todo[k], x) \/ m = x
        BY <4>1 DEF Lock, Op
      <4> QED BY <1>2, <1>3, <3>1, <4>2 DEF LocksInv, HoldInv, LocksTypes
    <3>2. CASE j # k
      <4>1. writer[x] = j
        BY <1>4, <2>1, <3>2 DEF LocksInv, HoldInv
      <4>2. x # m
        BY <1>7, <4>1, NoneAssumption
      <4> QED BY <1>2, <1>3, <4>1, <4>2 DEF LocksInv, LocksTypes
    <3> QED BY <3>1, <3>2
  <2>2. ASSUME NEW j \in Calls, NEW x \in Maps, Reads(todo'[j], x) PROVE j \in readers'[x]
    <3>1. Lock(m) # RLock(x)
      BY DEF Lock, RLock, Op
    <3>2. Reads(todo[j], x)
      BY <1>1, <1>2, <1>4, <2>2, <3>1, TailKeeps
    <3> QED BY <1>3, <3>2 DEF LocksInv, HoldInv
  <2> QED BY <2>1, <2>2 DEF HoldInv
<1>10. FoundInv'
  BY <1>1, <1>3, FoundAdvance DEF tableVars, accessVars
<1> QED BY <1>4, <1>5, <1>8, <1>9, <1>10 DEF LocksInv

LEMMA TailEmpty ==
    ASSUME NEW s \in Seq(Ops), s # <<>>, ~(Len(s) > 1)
    PROVE  Tail(s) = <<>>
<1> DEFINE r == Tail(s)
<1>1. r \in Seq(Ops) /\ Len(s) \in Nat /\ Len(s) > 0 /\ Len(r) = Len(s) - 1
  BY TailFacts
<1> HIDE DEF r
<1>2. Len(r) = 0
  BY <1>1
<1>3. r = <<>>
  BY <1>1, <1>2
<1> QED BY <1>3 DEF r

\* An unlock may be the return of the method.
LEMMA ProceedTypes ==
    ASSUME LocksTypes, RegularInv, NEW k \in Calls, todo[k] # <<>>, Proceed(k)
    PROVE  /\ args' \in [Calls -> [sig : Calls, req : Requester]]
           /\ \/ UNCHANGED args
              \/ Tail(todo[k]) = <<>> /\ \A j \in Calls : j # k => args'[j] = args[j]
<1>1. todo[k] \in Seq(Ops) /\ args \in [Calls -> [sig : Calls, req : Requester]]
  BY DEF LocksTypes
<1>2. CASE Len(todo[k]) > 1
  BY <1>1, <1>2 DEF Proceed
<1>3. CASE ~(Len(todo[k]) > 1)
  <2>1. args' = [args EXCEPT ![k].sig = k]
    BY <1>3 DEF Proceed
  <2>2. Tail(todo[k]) = <<>>
    BY <1>1, <1>3, TailEmpty
  <2> QED BY <1>1, <2>1, <2>2
<1> QED BY <1>2, <1>3

LEMMA ReleaseInv ==
    ASSUME LocksInv, NEW k \in Calls, Release(k)
    PROVE  LocksInv'
<1> DEFINE m == On(k)
<1>1. todo[k] # <<>> /\ Head(todo[k])[1] = "unlock" /\ Regular(todo[k]) /\ LocksTypes /\ RegularInv
  BY DEF Release, Does, LocksInv, RegularInv
<1>2. m \in Maps /\ Head(todo[k]) = Unlock(m) /\ Keeps(todo[k], m)
  BY <1>1, HeadLocks DEF On, Locking, Unlock
<1>3. /\ writer' = [writer EXCEPT ![m] = None]
      /\ readers' = [readers EXCEPT ![m] = @ \union blocked[m]]
      /\ blocked' = [blocked EXCEPT ![m] = {}]
      /\ Proceed(k) /\ Advance(k) /\ UNCHANGED <<authorizeCodes, pending, tableVars>>
  BY DEF Release, Proceed
<1> HIDE DEF m
<1>4. /\ todo' \in [Calls -> Seq(Ops)] /\ RegularInv'
      /\ \A j \in Calls : todo'[j] = IF j = k THEN Tail(todo[k]) ELSE todo[j]
  BY <1>1, <1>3, AdvanceKeeps
<1>5. /\ args' \in [Calls -> [sig : Calls, req : Requester]]
      /\ \/ UNCHANGED args
         \/ Tail(todo[k]) = <<>> /\ \A j \in Calls : j # k => args'[j] = args[j]
  BY <1>1, <1>3, ProceedTypes
<1>6. LocksTypes'
  BY <1>2, <1>3, <1>4, <1>5 DEF LocksInv, LocksTypes, tableVars, accessVars, refreshVars
<1>7. \A x \in Maps : k \notin blocked[x]
  BY <1>1, NotBlocked
<1>8. writer[m] = k /\ k # None
  BY <1>2, NoneAssumption DEF LocksInv, HoldInv
<1>9. MutexInv'
  <2>1. \A x \in Maps : \A j \in blocked[x] : j \in Calls /\ todo'[j] = todo[j]
    BY <1>4, <1>7 DEF LocksInv, LocksTypes
  <2> QED BY <1>2, <1>3, <1>8, <2>1 DEF LocksInv, LocksTypes, MutexInv, Does, On
<1>10. HoldInv'
  <2>1. ASSUME NEW j \in Calls, NEW x \in Maps, Keeps(todo'[j], x) PROVE writer'[x] = j
    <3>1. Unlock(m) # Lock(x)
      BY DEF Lock, Unlock, Op
    <3>2. Keeps(todo[j], x) /\ (j = k => Unlock(m) # Unlock(x))
      BY <1>1, <1>2, <1>4, <2>1, <3>1, TailKeeps
    <3>3. writer[x] = j
      BY <3>2 DEF LocksInv, HoldInv
    <3>4. x # m
      BY <1>8, <3>2, <3>3
    <3> QED BY <1>2, <1>3, <3>3, <3>4 DEF LocksInv, LocksTypes
  <2>2. ASSUME NEW j \in Calls, NEW x \in Maps, Reads(todo'[j], x) PROVE j \in readers'[x]
    <3>1. Unlock(m) # RLock(x)
      BY DEF Unlock, RLock, Op
    <3>2. Reads(todo[j], x)
      BY <1>1, <1>2, <1>4, <2>2, <3>1, TailKeeps
    <3> QED BY <1>2, <1>3, <3>2 DEF LocksInv, LocksTypes, HoldInv
  <2> QED BY <2>1, <2>2 DEF HoldInv
<1>11. FoundInv'
  BY <1>1, <1>3, <1>5, FoundAdvance DEF tableVars, accessVars
<1> QED BY <1>4, <1>6, <1>9, <1>10, <1>11 DEF LocksInv

LEMMA LeaveInv ==
    ASSUME LocksInv, NEW k \in Calls, Leave(k)
    PROVE  LocksInv'
<1> DEFINE m == On(k)
<1>1. todo[k] # <<>> /\ Head(todo[k])[1] = "runlock" /\ Regular(todo[k]) /\ LocksTypes /\ RegularInv
  BY DEF Leave, Does, LocksInv, RegularInv
<1>2. m \in Maps /\ Head(todo[k]) = RUnlock(m)
  BY <1>1, HeadLocks DEF On, Locking, RUnlock
<1>3. /\ readers' = [readers EXCEPT ![m] = @ \ {k}]
      /\ Proceed(k) /\ Advance(k) /\ UNCHANGED <<authorizeCodes, writer, pending, blocked, tableVars>>
  BY DEF Leave, Proceed
<1> HIDE DEF m
<1>4. /\ todo' \in [Calls -> Seq(Ops)] /\ RegularInv'
      /\ \A j \in Calls : todo'[j] = IF j = k THEN Tail(todo[k]) ELSE todo[j]
  BY <1>1, <1>3, AdvanceKeeps
<1>5. /\ args' \in [Calls -> [sig : Calls, req : Requester]]
      /\ \/ UNCHANGED args
         \/ Tail(todo[k]) = <<>> /\ \A j \in Calls : j # k => args'[j] = args[j]
  BY <1>1, <1>3, ProceedTypes
<1>6. LocksTypes'
  BY <1>2, <1>3, <1>4, <1>5 DEF LocksInv, LocksTypes, tableVars, accessVars, refreshVars
<1>7. \A x \in Maps : k \notin blocked[x]
  BY <1>1, NotBlocked
<1>8. MutexInv'
  <2>1. \A x \in Maps : \A j \in blocked[x] : j \in Calls /\ todo'[j] = todo[j]
    BY <1>4, <1>7 DEF LocksInv, LocksTypes
  <2> QED BY <1>2, <1>3, <2>1 DEF LocksInv, LocksTypes, MutexInv, Does, On
<1>9. HoldInv'
  <2>1. ASSUME NEW j \in Calls, NEW x \in Maps, Keeps(todo'[j], x) PROVE writer'[x] = j
    <3>1. RUnlock(m) # Lock(x)
      BY DEF Lock, RUnlock, Op
    <3>2. Keeps(todo[j], x)
      BY <1>1, <1>2, <1>4, <2>1, <3>1, TailKeeps
    <3> QED BY <1>3, <3>2 DEF LocksInv, HoldInv
  <2>2. ASSUME NEW j \in Calls, NEW x \in Maps, Reads(todo'[j], x) PROVE j \in readers'[x]
    <3>1. RUnlock(m) # RLock(x)
      BY DEF RUnlock, RLock, Op
    <3>2. Reads(todo[j], x) /\ (j = k => RUnlock(m) # RUnlock(x))
      BY <1>1, <1>2, <1>4, <2>2, <3>1, TailKeeps
    <3>3. j \in readers[x] /\ (j = k => x # m)
      BY <3>2 DEF LocksInv, HoldInv
    <3> QED BY <1>2, <1>3, <3>3 DEF LocksInv, LocksTypes
  <2> QED BY <2>1, <2>2 DEF HoldInv
<1>10. FoundInv'
  BY <1>1, <1>3, <1>5, FoundAdvance DEF tableVars, accessVars
<1> QED BY <1>4, <1>6, <1>8, <1>9, <1>10 DEF LocksInv

\* Enter and Admitted: a reader goes in.
LEMMA EnteredInv ==
    ASSUME LocksInv, NEW k \in Calls, Does(k, "rlock"), Advance(k), On(k) \in Maps,
           writer[On(k)] = None, k \notin blocked[On(k)],
           readers' = [readers EXCEPT ![On(k)] = @ \union {k}],
           UNCHANGED <<authorizeCodes, args, writer, pending, blocked, tableVars>>
    PROVE  LocksInv'
<1> DEFINE m == On(k)
<1>1. todo[k] # <<>> /\ Head(todo[k])[1] = "rlock" /\ Regular(todo[k]) /\ LocksTypes /\ RegularInv
  BY DEF Does, LocksInv, RegularInv
<1>2. m \in Maps /\ Head(todo[k]) = RLock(m)
  BY <1>1, HeadLocks DEF On, RLock
<1>3. writer[m] = None /\ k \notin blocked[m] /\ readers' = [readers EXCEPT ![m] = @ \union {k}]
  OBVIOUS
<1>4. /\ todo' \in [Calls -> Seq(Ops)] /\ RegularInv'
      /\ \A j \in Calls : todo'[j] = IF j = k THEN Tail(todo[k]) ELSE todo[j]
  BY <1>1, AdvanceKeeps
<1>5. \A x \in Maps : k \notin blocked[x]
  BY <1>3 DEF LocksInv, MutexInv
<1> HIDE DEF m
<1>6. LocksTypes'
  BY <1>2, <1>3, <1>4 DEF LocksInv, LocksTypes, tableVars, accessVars, refreshVars
<1>7. MutexInv'
  <2>1. \A x \in Maps : \A j \in blocked[x] : j \in Calls /\ todo'[j] = todo[j]
    BY <1>4, <1>5 DEF LocksInv, LocksTypes
  <2> QED BY <1>2, <1>3, <2>1 DEF LocksInv, LocksTypes, MutexInv, Does, On
<1>8. HoldInv'
  <2>1. ASSUME NEW j \in Calls, NEW x \in Maps, Keeps(todo'[j], x) PROVE writer'[x] = j
    <3>1. RLock(m) # Lock(x)
      BY DEF Lock, RLock, Op
    <3>2. Keeps(todo[j], x)
      BY <1>1, <1>2, <1>4, <2>1, <3>1, TailKeeps
    <3> QED BY <3>2 DEF LocksInv, HoldInv
  <2>2. ASSUME NEW j \in Calls, NEW x \in Maps, Reads(todo'[j], x) PROVE j \in readers'[x]
    <3>1. Reads(todo[j], x) \/ (j = k /\ RLock(m) = RLock(x))
      BY <1>1, <1>2, <1>4, <2>2, TailKeeps
    <3>2. j \in readers[x] \/ (j = k /\ m = x)
      BY <3>1 DEF LocksInv, HoldInv, RLock, Op
    <3> QED BY <1>2, <1>3, <3>2 DEF LocksInv, LocksTypes
  <2> QED BY <2>1, <2>2 DEF HoldInv
<1>9. FoundInv'
  BY <1>1, FoundAdvance DEF tableVars, accessVars
<1> QED BY <1>4, <1>6, <1>7, <1>8, <1>9 DEF LocksInv

LEMMA EnterInv ==
    ASSUME LocksInv, NEW k \in Calls, Enter(k)
    PROVE  LocksInv'
<1>1. todo[k] # <<>> /\ Head(todo[k])[1] = "rlock" /\ Regular(todo[k])
  BY DEF Enter, Does, LocksInv, RegularInv
<1>2. On(k) \in Maps
  BY <1>1, HeadLocks DEF On, Locking
<1>3. CASE writer[On(k)] = None /\ pending[On(k)] = None
  BY <1>2, <1>3, EnteredInv DEF Enter
<1>4. CASE ~(writer[On(k)] = None /\ pending[On(k)] = None)
  <2> DEFINE m == On(k)
  <2>1. /\ k \notin readers[m] /\ blocked' = [blocked EXCEPT ![m] = @ \union {k}]
        /\ writer[m] # None \/ pending[m] # None
        /\ UNCHANGED <<todo, readers, authorizeCodes, args, writer, pending, tableVars>>
    BY <1>4 DEF Enter
  <2>2. m \in Maps
    BY <1>2
  <2>3. Does(k, "rlock") /\ On(k) = m
    BY DEF Enter
  <2> HIDE DEF m
  <2>4. LocksTypes'
    BY <2>1, <2>2 DEF LocksInv, LocksTypes, tableVars, accessVars, refreshVars
  <2>5. MutexInv'
    BY <2>1, <2>2, <2>3 DEF LocksInv, LocksTypes, MutexInv, Does, On
  <2>6. RegularInv' /\ HoldInv' /\ FoundInv'
    BY <2>1 DEF LocksInv, RegularInv, HoldInv, FoundInv, tableVars, accessVars
  <2> QED BY <2>4, <2>5, <2>6 DEF LocksInv
<1> QED BY <1>3, <1>4

LEMMA AdmittedInv ==
    ASSUME LocksInv, NEW k \in Calls, Admitted(k)
    PROVE  LocksInv'
<1>1. todo[k] # <<>> /\ Head(todo[k])[1] = "rlock" /\ Regular(todo[k])
  BY DEF Admitted, Does, LocksInv, RegularInv
<1>2. On(k) \in Maps /\ k \in readers[On(k)]
  BY <1>1, HeadLocks DEF On, Locking, Admitted
<1>3. writer[On(k)] = None /\ k \notin blocked[On(k)]
  BY <1>2 DEF LocksInv, MutexInv
<1>4. readers' = readers /\ readers = [readers EXCEPT ![On(k)] = @ \union {k}]
  BY <1>2 DEF Admitted, lockVars, LocksInv, LocksTypes
<1> QED BY <1>2, <1>3, <1>4, EnteredInv DEF Admitted, lockVars

-----------------------------------------------------------------------------
(* Steps in the maps.                                                      *)

\* An operation on a map other than an early return: what is left to show is
\* what it does to the tables.
LEMMA AccessInv ==
    ASSUME LocksInv, NEW k \in Calls, todo[k] # <<>>, Head(todo[k])[1] \notin Locking,
           Head(todo[k])[1] # "find_access", Advance(k),
           UNCHANGED <<authorizeCodes, args, lockVars>>,
           accessTokens' \in [AccessSignatures -> Requester \union {None}],
           refreshTokens' \in [Calls -> RefreshSession \union {None}],
           refreshTokenRequestIDs' \in [AuthReqs -> Calls \union {None}],
           UNCHANGED accessTokenRequestIDs
    PROVE  LocksInv'
<1>1. LocksTypes /\ RegularInv
  BY DEF LocksInv
<1>2. todo' \in [Calls -> Seq(Ops)] /\ RegularInv'
  BY <1>1, AdvanceKeeps
<1>3. MutexInv' /\ HoldInv'
  BY QuietAdvance
<1>4. FoundInv'
  BY FoundAdvance
<1>5. LocksTypes'
  BY <1>1, <1>2 DEF LocksTypes, lockVars
<1> QED BY <1>2, <1>3, <1>4, <1>5 DEF LocksInv

LEMMA TouchInv ==
    ASSUME LocksInv, NEW k \in Calls, Touch(k)
    PROVE  LocksInv'
  BY AccessInv DEF Touch, Does, Locking, tableVars, accessVars, refreshVars, LocksInv, LocksTypes

LEMMA ArgsTyped ==
    ASSUME LocksTypes, NEW k \in Calls
    PROVE  /\ args[k].sig \in Calls /\ args[k].sig \in AccessSignatures
           /\ args[k].req \in Requester /\ args[k].req.id \in AuthReqs
  BY DEF LocksTypes, AccessSignatures, Requester

LEMMA AccessTablesInv ==
    ASSUME LocksInv, NEW k \in Calls, UNCHANGED <<authorizeCodes, args, lockVars>>,
           PutAccess(k) \/ GetAccess(k) \/ DeleteAccess(k)
    PROVE  LocksInv'
<1>1. /\ LocksTypes /\ args[k].sig \in AccessSignatures /\ args[k].req \in Requester
      /\ refreshTokens \in [Calls -> RefreshSession \union {None}]
      /\ refreshTokenRequestIDs \in [AuthReqs -> Calls \union {None}]
      /\ accessTokens \in [AccessSignatures -> Requester \union {None}]
  BY ArgsTyped DEF LocksInv, LocksTypes
<1>2. /\ todo[k] # <<>> /\ Head(todo[k])[1] \in {"put_access", "get_access", "delete_access"}
      /\ Advance(k) /\ UNCHANGED <<accessTokenRequestIDs, refreshTokens, refreshTokenRequestIDs>>
  BY DEF PutAccess, GetAccess, DeleteAccess, Does, tableVars, accessVars, refreshVars
<1>3. accessTokens' \in [AccessSignatures -> Requester \union {None}]
  BY <1>1 DEF PutAccess, GetAccess, DeleteAccess, tableVars, accessVars
<1> QED BY <1>1, <1>2, <1>3, AccessInv DEF Locking

LEMMA RefreshTablesInv ==
    ASSUME LocksInv, NEW k \in Calls, UNCHANGED <<authorizeCodes, args, lockVars>>,
           PutRefresh(k) \/ IndexRefresh(k) \/ GetRefresh(k) \/ DeleteRefresh(k)
    PROVE  LocksInv'
<1>1. /\ LocksTypes /\ args[k].sig \in Calls /\ args[k].req \in Requester
      /\ args[k].req.id \in AuthReqs
      /\ refreshTokens \in [Calls -> RefreshSession \union {None}]
      /\ refreshTokenRequestIDs \in [AuthReqs -> Calls \union {None}]
      /\ accessTokens \in [AccessSignatures -> Requester \union {None}]
  BY ArgsTyped DEF LocksInv, LocksTypes
<1>2. /\ todo[k] # <<>>
      /\ Head(todo[k])[1] \in {"put_refresh", "index_refresh", "get_refresh", "delete_refresh"}
      /\ Advance(k) /\ UNCHANGED <<accessTokens, accessTokenRequestIDs>>
  BY DEF PutRefresh, IndexRefresh, GetRefresh, DeleteRefresh, Does, tableVars, accessVars
<1>3. [active |-> TRUE, req |-> args[k].req] \in RefreshSession
  BY <1>1 DEF RefreshSession
<1>4. refreshTokens' \in [Calls -> RefreshSession \union {None}]
  BY <1>1, <1>3 DEF PutRefresh, IndexRefresh, GetRefresh, DeleteRefresh, tableVars,
     refreshVars, DeleteRefreshTokenSession
<1>5. refreshTokenRequestIDs' \in [AuthReqs -> Calls \union {None}]
  BY <1>1 DEF PutRefresh, IndexRefresh, GetRefresh, DeleteRefresh, tableVars, refreshVars,
     DeleteRefreshTokenSession
<1> QED BY <1>1, <1>2, <1>4, <1>5, AccessInv DEF Locking

LEMMA IndexAccessInv ==
    ASSUME LocksInv, NEW k \in Calls, UNCHANGED <<authorizeCodes, args, lockVars>>, IndexAccess(k)
    PROVE  LocksInv'
<1>1. LocksTypes /\ RegularInv /\ todo[k] # <<>> /\ Head(todo[k])[1] = "index_access"
  BY DEF LocksInv, IndexAccess, Does
<1>2. /\ Advance(k) /\ UNCHANGED <<accessTokens, refreshVars>>
      /\ accessTokenRequestIDs' = [accessTokenRequestIDs EXCEPT ![args[k].req.id] = args[k].sig]
  BY DEF IndexAccess
<1>3. /\ todo' \in [Calls -> Seq(Ops)] /\ RegularInv'
      /\ \A j \in Calls : todo'[j] = IF j = k THEN Tail(todo[k]) ELSE todo[j]
  BY <1>1, <1>2, AdvanceKeeps
<1>4. MutexInv' /\ HoldInv'
  BY <1>1, <1>2, QuietAdvance DEF Locking
<1>5. LocksTypes'
  BY <1>1, <1>2, <1>3, ArgsTyped DEF LocksTypes, lockVars, refreshVars
<1>6. writer[AccessIDs] = k /\ readers[AccessIDs] = {}
  <2>1. Regular(todo[k])
    BY <1>1 DEF RegularInv
  <2>2. Head(todo[k])[2] = AccessIDs /\ AccessIDs \in Maps
    BY <1>1, <2>1, HeadTables DEF AccessIDs, Maps
  <2>3. Keeps(todo[k], AccessIDs)
    BY <1>1, <2>1, <2>2, HeadLocks DEF WritingOps
  <2>4. writer[AccessIDs] = k
    BY <2>2, <2>3 DEF LocksInv, HoldInv
  <2> QED BY <2>2, <2>4, NoneAssumption DEF LocksInv, MutexInv
<1>7. FoundInv'
  <2> SUFFICES ASSUME NEW j \in Calls, In(todo'[j], DeleteOp), ~In(todo'[j], FindOp) PROVE FALSE
    BY DEF FoundInv
  <2>1. Head(todo[k]) # FindOp
    BY <1>1 DEF FindOp, Op
  <2>2. In(todo[j], DeleteOp) /\ ~In(todo[j], FindOp)
    BY <1>1, <1>3, <2>1, TailIn DEF RegularInv
  <2>3. Reads(todo[j], AccessIDs)
    BY <1>1, <2>2, FoundReads DEF RegularInv
  <2>4. j \in readers[AccessIDs]
    BY <2>3 DEF LocksInv, HoldInv, AccessIDs, Maps
  <2> QED BY <1>6, <2>4
<1> QED BY <1>3, <1>4, <1>5, <1>7 DEF LocksInv

LEMMA FindAccessInv ==
    ASSUME LocksInv, NEW k \in Calls, UNCHANGED <<authorizeCodes, lockVars>>, FindAccess(k)
    PROVE  LocksInv'
<1> DEFINE s == todo[k]
           found == accessTokenRequestIDs[args[k].req.id]
<1>1. LocksTypes /\ RegularInv /\ s # <<>> /\ Head(s)[1] = "find_access" /\ Regular(s)
  BY DEF LocksInv, FindAccess, Does, RegularInv
<1>2. Head(s) = FindOp /\ Reads(s, AccessIDs) /\ s[Len(s)] = RUnlock(AccessIDs)
  BY <1>1, HeadTables
<1>3. UNCHANGED <<accessTokens, accessTokenRequestIDs, refreshTokens, refreshTokenRequestIDs>>
  BY DEF FindAccess, tableVars, accessVars, refreshVars
<1>4. CASE found = None
  <2> DEFINE t == <<RUnlock(AccessIDs)>>
  <2>1. todo' = [todo EXCEPT ![k] = t] /\ UNCHANGED args
    BY <1>2, <1>4 DEF FindAccess
  <2>2. Regular(t) /\ t \in Seq(Ops)
    BY JumpsRegular DEF Regular
  <2>3. \A x : In(t, x) <=> x = RUnlock(AccessIDs)
    BY DEF In
  <2> HIDE DEF t
  <2>4. \A j \in Calls : todo'[j] = IF j = k THEN t ELSE todo[j]
    BY <1>1, <2>1 DEF LocksTypes
  <2>5. \A x \in Maps : /\ Keeps(t, x) => Keeps(s, x)
                        /\ Reads(t, x) => Reads(s, x)
    BY <1>2, <2>3 DEF Keeps, Reads, Unlock, RUnlock, Op
  <2>6. \A x \in Maps : k \notin blocked[x]
    BY <1>1, NotBlocked
  <2>7. MutexInv' /\ HoldInv'
    BY <2>4, <2>5, <2>6, QuietStep
  <2>8. LocksTypes'
    BY <1>1, <1>3, <2>1, <2>2 DEF LocksTypes, lockVars
  <2>9. RegularInv'
    BY <1>1, <2>2, <2>4 DEF RegularInv
  <2>10. FoundInv'
    <3>1. ~In(t, DeleteOp)
      BY <2>3 DEF DeleteOp, RUnlock, Op
    <3> QED BY <1>3, <2>1, <2>4, <3>1 DEF LocksInv, FoundInv
  <2> QED BY <2>7, <2>8, <2>9, <2>10 DEF LocksInv
<1>5. CASE found # None
  <2>1. Advance(k) /\ args' = [args EXCEPT ![k].sig = found]
    BY <1>5 DEF FindAccess
  <2>2. /\ todo' \in [Calls -> Seq(Ops)] /\ RegularInv'
        /\ \A j \in Calls : todo'[j] = IF j = k THEN Tail(s) ELSE todo[j]
    BY <1>1, <2>1, AdvanceKeeps
  <2>3. MutexInv' /\ HoldInv'
    BY <1>1, <2>1, QuietAdvance DEF Locking
  <2>4. found \in Calls
    BY <1>1, <1>5, ArgsTyped DEF LocksTypes
  <2>5. LocksTypes'
    BY <1>1, <1>3, <2>1, <2>2, <2>4 DEF LocksTypes, lockVars
  <2>6. FoundInv'
    <3>1. /\ args'[k].sig = found /\ args'[k].req = args[k].req
          /\ \A j \in Calls : j # k => args'[j] = args[j]
      BY <1>1, <2>1 DEF LocksTypes
    <3> QED BY <1>3, <2>2, <3>1 DEF LocksInv, FoundInv
  <2> QED BY <2>2, <2>3, <2>5, <2>6 DEF LocksInv
<1> QED BY <1>4, <1>5

LEMMA DeactivateInv ==
    ASSUME LocksInv, NEW k \in Calls, UNCHANGED <<authorizeCodes, args, lockVars>>,
           DeactivateRefresh(k)
    PROVE  LocksInv'
<1> DEFINE s == todo[k]
           id == args[k].req.id
<1>1. LocksTypes /\ RegularInv /\ s # <<>> /\ Head(s)[1] = "deactivate_refresh" /\ Regular(s)
  BY DEF LocksInv, DeactivateRefresh, Does, RegularInv
<1>2. /\ UNCHANGED <<accessTokens, accessTokenRequestIDs, refreshTokenRequestIDs>>
      /\ RevokeRefreshToken(id)
  BY DEF DeactivateRefresh, RevokeRefreshToken, accessVars
<1>3. refreshTokens' \in [Calls -> RefreshSession \union {None}]
  <2>1. /\ refreshTokens \in [Calls -> RefreshSession \union {None}]
        /\ refreshTokenRequestIDs \in [AuthReqs -> Calls \union {None}] /\ id \in AuthReqs
    BY <1>1, ArgsTyped DEF LocksTypes
  <2>2. CASE refreshTokenRequestIDs[id] = None \/ RevokeRefreshTokenFails(id)
    BY <1>2, <2>1, <2>2 DEF RevokeRefreshToken
  <2>3. CASE ~(refreshTokenRequestIDs[id] = None \/ RevokeRefreshTokenFails(id))
    <3> DEFINE x == refreshTokenRequestIDs[id]
    <3>1. x \in Calls /\ refreshTokens[x] \in RefreshSession
      BY <2>1, <2>3 DEF RevokeRefreshTokenFails
    <3>2. [refreshTokens[x] EXCEPT !.active = FALSE] \in RefreshSession
      BY <3>1 DEF RefreshSession
    <3>3. refreshTokens' = [refreshTokens EXCEPT ![x] = [refreshTokens[x] EXCEPT !.active = FALSE]]
      BY <1>2, <2>3 DEF RevokeRefreshToken
    <3> QED BY <2>1, <3>1, <3>2, <3>3
  <2> QED BY <2>2, <2>3
<1>4. CASE ~RevokeRefreshTokenFails(id)
  <2>1. Advance(k)
    BY <1>4 DEF DeactivateRefresh
  <2> QED BY <1>1, <1>2, <1>3, <2>1, AccessInv DEF Locking, LocksTypes
<1>5. CASE RevokeRefreshTokenFails(id)
  <2> DEFINE t == <<Unlock("RefreshTokens"), Unlock(RefreshIDs)>>
  <2>1. SubSeq(s, 2, 3) = t /\ Keeps(s, "RefreshTokens") /\ Keeps(s, RefreshIDs)
    BY <1>1, HeadTables
  <2>2. todo' = [todo EXCEPT ![k] = t]
    BY <1>5, <2>1 DEF DeactivateRefresh
  <2>3. Regular(t) /\ t \in Seq(Ops)
    BY JumpsRegular DEF Regular
  <2>4. \A x : In(t, x) <=> x = Unlock("RefreshTokens") \/ x = Unlock(RefreshIDs)
    BY DEF In
  <2> HIDE DEF t
  <2>5. \A j \in Calls : todo'[j] = IF j = k THEN t ELSE todo[j]
    BY <1>1, <2>2 DEF LocksTypes
  <2>6. \A x \in Maps : /\ Keeps(t, x) => Keeps(s, x)
                        /\ Reads(t, x) => Reads(s, x)
    BY <2>1, <2>4 DEF Keeps, Reads, Unlock, RUnlock, Op
  <2>7. \A x \in Maps : k \notin blocked[x]
    BY <1>1, NotBlocked
  <2>8. MutexInv' /\ HoldInv'
    BY <2>5, <2>6, <2>7, QuietStep
  <2>9. LocksTypes'
    BY <1>1, <1>2, <1>3, <2>2, <2>3 DEF LocksTypes, lockVars
  <2>10. RegularInv'
    BY <1>1, <2>3, <2>5 DEF RegularInv
  <2>11. FoundInv'
    <3>1. ~In(t, DeleteOp)
      BY <2>4 DEF DeleteOp, Unlock, Op
    <3> QED BY <1>2, <2>5, <3>1 DEF LocksInv, FoundInv
  <2> QED BY <2>8, <2>9, <2>10, <2>11 DEF LocksInv
<1> QED BY <1>4, <1>5

LEMMA EffectInv ==
    ASSUME LocksInv, NEW k \in Calls, Effect(k)
    PROVE  LocksInv'
  BY AccessTablesInv, RefreshTablesInv, IndexAccessInv, FindAccessInv, DeactivateInv DEF Effect

LEMMA InvNext == LocksInv /\ [LocksNext]_locksVars => LocksInv'
<1> SUFFICES ASSUME LocksInv, [LocksNext]_locksVars PROVE LocksInv'
  OBVIOUS
<1>1. CASE UNCHANGED locksVars
  BY <1>1 DEF LocksInv, LocksTypes, RegularInv, MutexInv, HoldInv, FoundInv, Does, On,
     locksVars, lockVars, tableVars, accessVars, refreshVars
<1>2. ASSUME NEW k \in Calls, Call(k) \/ Step(k) PROVE LocksInv'
  BY <1>2, CallInv, AnnounceInv, AcquireInv, ReleaseInv, EnterInv, AdmittedInv, LeaveInv,
     TouchInv, EffectInv DEF Step
<1> QED BY <1>1, <1>2 DEF LocksNext

LEMMA InvAlways == LocksSpec => []LocksInv
  BY InvInit, InvNext, PTL DEF LocksSpec

-----------------------------------------------------------------------------

\* Types, and what a mutex is: a writer is alone, and a goroutine waits for
\* the mutex its next operation asks for.
THEOREM LocksTypesKept == LocksSpec => []LocksTypeOK
<1>1. LocksInv => LocksTypeOK
  <2> SUFFICES ASSUME LocksInv PROVE LocksTypeOK
    OBVIOUS
  <2>1. StoreTypeOK
    BY DEF LocksInv, LocksTypes, StoreTypeOK, AccessSignatures
  <2>2. args \in [Calls -> [sig : AccessSignatures, req : Requester]]
    BY DEF LocksInv, LocksTypes, AccessSignatures
  <2>3. \A k \in Calls : \A i \in 1..Len(todo[k]) : todo[k][i] \in OpNames \X Places
    BY DEF LocksInv, LocksTypes, Ops
  <2> QED BY <2>1, <2>2, <2>3 DEF LocksInv, LocksTypes, MutexInv, LocksTypeOK
<1> QED BY <1>1, InvAlways, PTL

\* No two goroutines are ever about to use one map of MemoryStore, one of them
\* writing: the mutexes keep the Go runtime from aborting the process.
THEOREM MapsAreNotShared == LocksSpec => []NoConcurrentMapAccess
<1>1. LocksInv => NoConcurrentMapAccess
  <2> SUFFICES ASSUME LocksInv, NEW j \in Calls, NEW k \in Calls, j # k,
                      todo[j] # <<>>, todo[k] # <<>>,
                      Head(todo[j])[1] \in WritingOps,
                      Head(todo[k])[1] \in WritingOps \union ReadingOps,
                      On(j) \in Maps, On(j) = On(k)
               PROVE  FALSE
    BY DEF NoConcurrentMapAccess
  <2>1. Regular(todo[j]) /\ Regular(todo[k])
    BY DEF LocksInv, RegularInv
  <2>2. Keeps(todo[j], On(j))
    BY <2>1, HeadLocks DEF On
  <2>3. writer[On(j)] = j /\ readers[On(j)] = {}
    BY <2>2, NoneAssumption DEF LocksInv, HoldInv, MutexInv
  <2>4. Keeps(todo[k], On(k)) \/ Reads(todo[k], On(k))
    BY <2>1, HeadLocks DEF On
  <2>5. writer[On(j)] = k \/ k \in readers[On(j)]
    BY <2>4 DEF LocksInv, HoldInv
  <2> QED BY <2>3, <2>5
<1> QED BY <1>1, InvAlways, PTL

-----------------------------------------------------------------------------
(* Refinement of AtomicStore.                                              *)

\* Who is about to index an access token holds the index: it is the only one,
\* and nobody reads the index.
LEMMA OneIndexes ==
    ASSUME LocksInv, NEW j \in Calls
    PROVE  /\ Does(j, "index_access") =>
                 \A k \in Calls : /\ Keeps(todo[k], AccessIDs) => k = j
                                  /\ ~Reads(todo[k], AccessIDs)
                                  /\ Does(k, "index_access") => k = j
           /\ Does(j, "index_refresh") =>
                 \A k \in Calls : /\ Keeps(todo[k], RefreshIDs) => k = j
                                  /\ Does(k, "index_refresh") => k = j
<1>1. /\ AccessIDs \in Maps /\ RefreshIDs \in Maps
      /\ "index_access" \in WritingOps /\ "index_refresh" \in WritingOps
  BY DEF AccessIDs, RefreshIDs, Maps, WritingOps
<1>2. \A k \in Calls : /\ Does(k, "index_access") => Keeps(todo[k], AccessIDs)
                       /\ Does(k, "index_refresh") => Keeps(todo[k], RefreshIDs)
  <2> TAKE k \in Calls
  <2>1. todo[k] # <<>> => Regular(todo[k])
    BY DEF LocksInv, RegularInv
  <2> QED BY <1>1, <2>1, HeadTables, HeadLocks DEF Does
<1>3. \A k \in Calls : k # None
  BY NoneAssumption
<1>4. \A k \in Calls : /\ Keeps(todo[k], AccessIDs) => writer[AccessIDs] = k /\ readers[AccessIDs] = {}
                       /\ Keeps(todo[k], RefreshIDs) => writer[RefreshIDs] = k
                       /\ Reads(todo[k], AccessIDs) => k \in readers[AccessIDs]
  BY <1>1, <1>3 DEF LocksInv, HoldInv, MutexInv
<1> QED BY <1>2, <1>4

\* The two cases of the refinement mapping.
AccessMapped ==
    /\ (\A k \in Calls : ~Does(k, "index_access")) => IndexedAccess = accessTokenRequestIDs
    /\ \A k \in Calls : Does(k, "index_access") =>
          IndexedAccess = [accessTokenRequestIDs EXCEPT ![args[k].req.id] = args[k].sig]

RefreshMapped ==
    /\ (\A k \in Calls : ~Does(k, "index_refresh")) => IndexedRefresh = refreshTokenRequestIDs
    /\ \A k \in Calls : Does(k, "index_refresh") =>
          IndexedRefresh = [refreshTokenRequestIDs EXCEPT ![args[k].req.id] = args[k].sig]

LEMMA IndexedAccessIs == LocksInv => AccessMapped
<1> SUFFICES ASSUME LocksInv PROVE AccessMapped
  OBVIOUS
<1>1. accessTokenRequestIDs \in [AuthReqs -> Calls \union {None}]
  BY DEF LocksInv, LocksTypes
<1>2. ASSUME \A k \in Calls : ~Does(k, "index_access")
      PROVE  IndexedAccess = accessTokenRequestIDs
  BY <1>1, <1>2 DEF IndexedAccess, Indexed
<1>3. ASSUME NEW k \in Calls, Does(k, "index_access")
      PROVE  IndexedAccess = [accessTokenRequestIDs EXCEPT ![args[k].req.id] = args[k].sig]
  <2>1. \A j \in Calls : Does(j, "index_access") <=> j = k
    BY <1>3, OneIndexes
  <2>2. \A a \in AuthReqs :
            /\ (\E j \in Calls : Does(j, "index_access") /\ args[j].req.id = a) <=> args[k].req.id = a
            /\ args[k].req.id = a =>
                  (CHOOSE j \in Calls : Does(j, "index_access") /\ args[j].req.id = a) = k
    BY <2>1
  <2>3. \A a \in AuthReqs : IndexedAccess[a] =
            IF args[k].req.id = a THEN args[k].sig ELSE accessTokenRequestIDs[a]
    BY <2>2 DEF IndexedAccess, Indexed
  <2>4. IndexedAccess = [a \in AuthReqs |-> IndexedAccess[a]]
    BY DEF IndexedAccess, Indexed
  <2> HIDE DEF IndexedAccess
  <2> QED BY <1>1, <2>3, <2>4
<1> QED BY <1>2, <1>3 DEF AccessMapped

LEMMA IndexedRefreshIs == LocksInv => RefreshMapped
<1> SUFFICES ASSUME LocksInv PROVE RefreshMapped
  OBVIOUS
<1>1. refreshTokenRequestIDs \in [AuthReqs -> Calls \union {None}]
  BY DEF LocksInv, LocksTypes
<1>2. ASSUME \A k \in Calls : ~Does(k, "index_refresh")
      PROVE  IndexedRefresh = refreshTokenRequestIDs
  BY <1>1, <1>2 DEF IndexedRefresh, Indexed
<1>3. ASSUME NEW k \in Calls, Does(k, "index_refresh")
      PROVE  IndexedRefresh = [refreshTokenRequestIDs EXCEPT ![args[k].req.id] = args[k].sig]
  <2>1. \A j \in Calls : Does(j, "index_refresh") <=> j = k
    BY <1>3, OneIndexes
  <2>2. \A a \in AuthReqs :
            /\ (\E j \in Calls : Does(j, "index_refresh") /\ args[j].req.id = a) <=> args[k].req.id = a
            /\ args[k].req.id = a =>
                  (CHOOSE j \in Calls : Does(j, "index_refresh") /\ args[j].req.id = a) = k
    BY <2>1
  <2>3. \A a \in AuthReqs : IndexedRefresh[a] =
            IF args[k].req.id = a THEN args[k].sig ELSE refreshTokenRequestIDs[a]
    BY <2>2 DEF IndexedRefresh, Indexed
  <2>4. IndexedRefresh = [a \in AuthReqs |-> IndexedRefresh[a]]
    BY DEF IndexedRefresh, Indexed
  <2> HIDE DEF IndexedRefresh
  <2> QED BY <1>1, <2>3, <2>4
<1> QED BY <1>2, <1>3 DEF RefreshMapped

\* What a step that indexes nothing leaves as it is.
LEMMA MappingKept ==
    ASSUME LocksInv, LocksInv', NEW k \in Calls,
           UNCHANGED <<accessTokenRequestIDs, refreshTokenRequestIDs>>,
           \A j \in Calls : j # k => todo'[j] = todo[j] /\ args'[j] = args[j]
    PROVE  /\ ~Does(k, "index_access") /\ ~Does(k, "index_access")' => UNCHANGED IndexedAccess
           /\ ~Does(k, "index_refresh") /\ ~Does(k, "index_refresh")' => UNCHANGED IndexedRefresh
<1>1. AccessMapped /\ AccessMapped' /\ RefreshMapped /\ RefreshMapped'
  <2>1. AccessMapped /\ RefreshMapped
    BY IndexedAccessIs, IndexedRefreshIs
  <2>2. LocksInv' => AccessMapped' /\ RefreshMapped'
    BY IndexedAccessIs, IndexedRefreshIs, PTL
  <2> QED BY <2>1, <2>2
<1>2. \A j \in Calls : j # k => /\ Does(j, "index_access")' <=> Does(j, "index_access")
                                /\ Does(j, "index_refresh")' <=> Does(j, "index_refresh")
  BY DEF Does
<1>3. ASSUME ~Does(k, "index_access"), ~Does(k, "index_access")' PROVE UNCHANGED IndexedAccess
  <2>1. CASE \A j \in Calls : ~Does(j, "index_access")
    BY <1>1, <1>2, <1>3, <2>1 DEF AccessMapped
  <2>2. CASE \E j \in Calls : Does(j, "index_access")
    BY <1>1, <1>2, <1>3, <2>2 DEF AccessMapped
  <2> QED BY <2>1, <2>2
<1>4. ASSUME ~Does(k, "index_refresh"), ~Does(k, "index_refresh")' PROVE UNCHANGED IndexedRefresh
  <2>1. CASE \A j \in Calls : ~Does(j, "index_refresh")
    BY <1>1, <1>2, <1>4, <2>1 DEF RefreshMapped
  <2>2. CASE \E j \in Calls : Does(j, "index_refresh")
    BY <1>1, <1>2, <1>4, <2>2 DEF RefreshMapped
  <2> QED BY <2>1, <2>2
<1> QED BY <1>3, <1>4

\* The next operation does not index, unless this one puts.
LEMMA Onwards ==
    ASSUME LocksInv, NEW k \in Calls, todo[k] # <<>>, Advance(k)
    PROVE  /\ Head(todo[k])[1] # "put_access" => ~Does(k, "index_access")'
           /\ Head(todo[k])[1] # "put_refresh" => ~Does(k, "index_refresh")'
           /\ \A j \in Calls : j # k => todo'[j] = todo[j]
           /\ todo'[k] = Tail(todo[k])
<1>1. Regular(todo[k]) /\ LocksTypes /\ RegularInv
  BY DEF LocksInv, RegularInv
<1>2. \A j \in Calls : todo'[j] = IF j = k THEN Tail(todo[k]) ELSE todo[j]
  BY <1>1, AdvanceKeeps
<1> QED BY <1>1, <1>2, HeadTables DEF Does

\* A step that leaves the tables and the answers alone.
LEMMA Stutters ==
    ASSUME LocksInv, LocksInv', NEW k \in Calls,
           UNCHANGED tableVars, UNCHANGED answers,
           \A j \in Calls : j # k => todo'[j] = todo[j] /\ args'[j] = args[j],
           ~Does(k, "index_access"), ~Does(k, "index_access")',
           ~Does(k, "index_refresh"), ~Does(k, "index_refresh")'
    PROVE  UNCHANGED Atomic!atomicVars
<1>1. UNCHANGED <<IndexedAccess, IndexedRefresh>>
  BY MappingKept DEF tableVars, accessVars, refreshVars
<1> QED BY <1>1 DEF tableVars, accessVars, refreshVars, Atomic!atomicVars, Atomic!accessVars,
       Atomic!refreshVars

LEMMA CallStutters ==
    ASSUME LocksInv, LocksInv', NEW k \in Calls, Call(k)
    PROVE  UNCHANGED Atomic!atomicVars
<1>1. PICK m \in UsedMethods[k], s \in Calls, r \in Requester :
         /\ todo' = [todo EXCEPT ![k] = Program(m)]
         /\ args' = [args EXCEPT ![k] = [sig |-> s, req |-> r]]
  BY DEF Call
<1>2. Complete(Program(m))
  BY ProgramRegular, MethodsAssumption
<1>3. todo'[k] = Program(m) /\ \A j \in Calls : j # k => todo'[j] = todo[j] /\ args'[j] = args[j]
  BY <1>1 DEF LocksInv, LocksTypes
<1>4. Program(m) # <<>> /\ Head(Program(m))[1] \in {"lock", "rlock"}
  BY <1>2 DEF Complete
<1>5. todo[k] = <<>> /\ UNCHANGED <<tableVars, answers>>
  BY DEF Call
<1> QED BY <1>3, <1>4, <1>5, Stutters DEF Does

LEMMA WaitStutters ==
    ASSUME LocksInv, LocksInv', NEW k \in Calls,
           Announce(k) \/ Acquire(k) \/ Enter(k) \/ Admitted(k) \/ Touch(k)
    PROVE  UNCHANGED Atomic!atomicVars
<1>1. /\ todo[k] # <<>> /\ UNCHANGED <<tableVars, answers, args>>
      /\ Head(todo[k])[1] \in {"lock", "rlock", "read", "write"}
  BY DEF Announce, Acquire, Enter, Admitted, Touch, Does
<1>2. UNCHANGED todo \/ Advance(k)
  BY DEF Announce, Acquire, Enter, Admitted, Touch
<1>3. CASE UNCHANGED todo
  BY <1>1, <1>3, Stutters DEF Does
<1>4. CASE Advance(k)
  BY <1>1, <1>4, Onwards, Stutters DEF Does
<1> QED BY <1>2, <1>3, <1>4

\* An unlock, which may be the return.
LEMMA ReturnSteps ==
    ASSUME LocksInv, LocksInv', NEW k \in Calls, Release(k) \/ Leave(k)
    PROVE  [Atomic!AtomicNext]_(Atomic!atomicVars)
<1>1. /\ todo[k] # <<>> /\ UNCHANGED tableVars /\ Proceed(k) /\ Advance(k)
      /\ Head(todo[k])[1] \in {"unlock", "runlock"}
  BY DEF Release, Leave, Does, Proceed
<1>2. /\ ~Does(k, "index_access") /\ ~Does(k, "index_access")'
      /\ ~Does(k, "index_refresh") /\ ~Does(k, "index_refresh")'
      /\ \A j \in Calls : j # k => todo'[j] = todo[j]
  <2>1. Head(todo[k])[1] \notin {"put_access", "put_refresh", "index_access", "index_refresh"}
    BY <1>1
  <2> QED BY <1>1, <2>1, Onwards DEF Does
<1>3. CASE Len(todo[k]) > 1
  <2>1. UNCHANGED <<args, answers>>
    BY <1>1, <1>3 DEF Proceed
  <2> QED BY <1>1, <1>2, <2>1, Stutters
<1>4. CASE ~(Len(todo[k]) > 1)
  <2>1. answers' = [answers EXCEPT ![k] = NoAnswer] /\ args' = [args EXCEPT ![k].sig = k]
    BY <1>1, <1>4 DEF Proceed
  <2>2. \A j \in Calls : j # k => todo'[j] = todo[j] /\ args'[j] = args[j]
    BY <1>2, <2>1 DEF LocksInv, LocksTypes
  <2>3. UNCHANGED <<IndexedAccess, IndexedRefresh, accessTokens, refreshTokens>>
    BY <1>1, <1>2, <2>2, MappingKept DEF tableVars, accessVars, refreshVars
  <2>4. Atomic!Take(k)
    BY <2>1, <2>3 DEF Atomic!Take, Atomic!accessVars, Atomic!refreshVars, Atomic!NoAnswer, NoAnswer
  <2> QED BY <2>4 DEF Atomic!AtomicNext
<1> QED BY <1>3, <1>4

-----------------------------------------------------------------------------
(* The methods take effect.                                                *)

\* The mapping does not change at an access that is not a Create's.
LEMMA EffectKeeps ==
    ASSUME LocksInv, LocksInv', NEW k \in Calls, todo[k] # <<>>,
           Head(todo[k])[1] \in {"get_access", "find_access", "delete_access",
                                 "get_refresh", "delete_refresh", "deactivate_refresh"},
           UNCHANGED <<accessTokenRequestIDs, refreshTokenRequestIDs>>, UNCHANGED args,
           \/ Advance(k)
           \/ todo' = [todo EXCEPT ![k] = <<RUnlock(AccessIDs)>>]
           \/ todo' = [todo EXCEPT ![k] = <<Unlock("RefreshTokens"), Unlock(RefreshIDs)>>]
    PROVE  UNCHANGED <<IndexedAccess, IndexedRefresh>>
<1>1. ~Does(k, "index_access") /\ ~Does(k, "index_refresh")
  BY DEF Does
<1>2. \A j \in Calls : j # k => todo'[j] = todo[j]
  BY DEF Advance, LocksInv, LocksTypes
<1>3. ~Does(k, "index_access")' /\ ~Does(k, "index_refresh")'
  <2>1. CASE Advance(k)
    BY <2>1, Onwards
  <2>2. CASE \/ todo' = [todo EXCEPT ![k] = <<RUnlock(AccessIDs)>>]
             \/ todo' = [todo EXCEPT ![k] = <<Unlock("RefreshTokens"), Unlock(RefreshIDs)>>]
    BY <2>2 DEF Does, LocksInv, LocksTypes, Unlock, RUnlock, Op
  <2> QED BY <2>1, <2>2
<1> QED BY <1>1, <1>2, <1>3, MappingKept

\* Who holds an index without being about to write it sees it as it is.
LEMMA SeesIndex ==
    ASSUME LocksInv, NEW k \in Calls
    PROVE  /\ Reads(todo[k], AccessIDs) \/ (Keeps(todo[k], AccessIDs) /\ ~Does(k, "index_access"))
                 => IndexedAccess = accessTokenRequestIDs
           /\ Keeps(todo[k], RefreshIDs) /\ ~Does(k, "index_refresh")
                 => IndexedRefresh = refreshTokenRequestIDs
<1>1. AccessMapped /\ RefreshMapped
  BY IndexedAccessIs, IndexedRefreshIs
<1> QED BY <1>1, OneIndexes DEF AccessMapped, RefreshMapped

LEMMA GetAccessSteps ==
    ASSUME LocksInv, LocksInv', NEW k \in Calls, GetAccess(k), UNCHANGED args
    PROVE  Atomic!AtomicNext
<1>1. /\ todo[k] # <<>> /\ Head(todo[k])[1] = "get_access" /\ Advance(k) /\ UNCHANGED tableVars
      /\ args[k].sig \in Atomic!AccessSignatures
  BY ArgsTyped DEF GetAccess, Does, LocksInv, Atomic!AccessSignatures, AccessSignatures
<1>2. UNCHANGED <<IndexedAccess, IndexedRefresh, accessTokens, refreshTokens>>
  BY <1>1, EffectKeeps DEF tableVars, accessVars, refreshVars
<1>3. Atomic!Answer(k, Atomic!GetAccessTokenError(args[k].sig), accessTokens[args[k].sig])
  BY DEF GetAccess, Answer, Atomic!Answer, Atomic!GetAccessTokenError
<1> QED BY <1>1, <1>2, <1>3 DEF Atomic!AtomicNext, Atomic!AccessMethod, Atomic!accessVars,
       Atomic!refreshVars

LEMMA GetRefreshSteps ==
    ASSUME LocksInv, LocksInv', NEW k \in Calls, GetRefresh(k), UNCHANGED args
    PROVE  Atomic!AtomicNext
<1>1. /\ todo[k] # <<>> /\ Head(todo[k])[1] = "get_refresh" /\ Advance(k) /\ UNCHANGED tableVars
      /\ args[k].sig \in Calls
  BY ArgsTyped DEF GetRefresh, Does, LocksInv
<1>2. UNCHANGED <<IndexedAccess, IndexedRefresh, accessTokens, refreshTokens>>
  BY <1>1, EffectKeeps DEF tableVars, accessVars, refreshVars
<1>3. Atomic!Answer(k, Atomic!GetRefreshTokenError(args[k].sig), refreshTokens[args[k].sig])
  BY DEF GetRefresh, Answer, Atomic!Answer, Atomic!GetRefreshTokenError, GetRefreshTokenError
<1> QED BY <1>1, <1>2, <1>3 DEF Atomic!AtomicNext, Atomic!RefreshMethod, Atomic!accessVars,
       Atomic!refreshVars

LEMMA DeleteRefreshSteps ==
    ASSUME LocksInv, LocksInv', NEW k \in Calls, DeleteRefresh(k), UNCHANGED args
    PROVE  Atomic!AtomicNext
<1>1. /\ todo[k] # <<>> /\ Head(todo[k])[1] = "delete_refresh" /\ Advance(k)
      /\ UNCHANGED <<accessTokens, accessTokenRequestIDs, refreshTokenRequestIDs>>
      /\ refreshTokens' = [refreshTokens EXCEPT ![args[k].sig] = None]
      /\ args[k].sig \in Calls
  BY ArgsTyped DEF DeleteRefresh, DeleteRefreshTokenSession, Does, LocksInv, accessVars
<1>2. UNCHANGED <<IndexedAccess, IndexedRefresh>>
  BY <1>1, EffectKeeps
<1>3. Atomic!DeleteRefreshTokenSession(args[k].sig) /\ Atomic!Answer(k, "nil", None)
  BY <1>1, <1>2 DEF DeleteRefresh, Answer, Atomic!Answer, Atomic!DeleteRefreshTokenSession
<1> QED BY <1>1, <1>2, <1>3 DEF Atomic!AtomicNext, Atomic!RefreshMethod, Atomic!accessVars

LEMMA DeleteAccessSteps ==
    ASSUME LocksInv, LocksInv', NEW k \in Calls, DeleteAccess(k), UNCHANGED args
    PROVE  Atomic!AtomicNext
<1> DEFINE a == args[k].req.id
<1>1. /\ todo[k] # <<>> /\ Head(todo[k])[1] = "delete_access" /\ Advance(k)
      /\ UNCHANGED <<refreshTokens, accessTokenRequestIDs, refreshTokenRequestIDs>>
      /\ accessTokens' = [accessTokens EXCEPT ![args[k].sig] = None]
      /\ args[k].sig \in Calls /\ a \in AuthReqs
  BY ArgsTyped DEF DeleteAccess, Does, LocksInv, refreshVars
<1>2. UNCHANGED <<IndexedAccess, IndexedRefresh>>
  BY <1>1, EffectKeeps
<1>3. Reads(todo[k], AccessIDs) /\ Head(todo[k]) = DeleteOp /\ ~In(todo[k], FindOp)
  BY <1>1, HeadTables DEF LocksInv, RegularInv
<1>4. In(todo[k], DeleteOp)
  <2>1. todo[k] \in Seq(Ops)
    BY DEF LocksInv, LocksTypes
  <2> QED BY <1>1, <1>3, <2>1, TailFacts DEF In
<1>5. IndexedAccess[a] = args[k].sig /\ args[k].sig # None
  BY <1>1, <1>3, <1>4, SeesIndex, NoneAssumption DEF LocksInv, FoundInv
<1> HIDE DEF a
<1>6. Atomic!RevokeAccessToken(a) /\ Atomic!Answer(k, "nil", None)
  BY <1>1, <1>2, <1>5 DEF DeleteAccess, Answer, Atomic!Answer, Atomic!RevokeAccessToken
<1> QED BY <1>1, <1>2, <1>6 DEF Atomic!AtomicNext, Atomic!AccessMethod, Atomic!refreshVars

LEMMA FindAccessSteps ==
    ASSUME LocksInv, LocksInv', NEW k \in Calls, FindAccess(k)
    PROVE  [Atomic!AtomicNext]_(Atomic!atomicVars)
<1> DEFINE a == args[k].req.id
<1>1. /\ todo[k] # <<>> /\ Head(todo[k])[1] = "find_access" /\ a \in AuthReqs
      /\ UNCHANGED <<accessTokens, accessTokenRequestIDs, refreshTokens, refreshTokenRequestIDs>>
  BY ArgsTyped DEF FindAccess, Does, LocksInv, tableVars, accessVars, refreshVars
<1>2. CASE accessTokenRequestIDs[a] = None
  <2>1. Reads(todo[k], AccessIDs) /\ todo[k][Len(todo[k])] = RUnlock(AccessIDs)
    BY <1>1, HeadTables DEF LocksInv, RegularInv
  <2>2. /\ answers' = [answers EXCEPT ![k] = <<"nil", None>>] /\ UNCHANGED args
        /\ todo' = [todo EXCEPT ![k] = <<RUnlock(AccessIDs)>>]
    BY <1>2, <2>1 DEF FindAccess, Answer
  <2>3. UNCHANGED <<IndexedAccess, IndexedRefresh>>
    BY <1>1, <2>2, EffectKeeps
  <2>4. IndexedAccess[a] = None
    BY <1>2, <2>1, SeesIndex
  <2> HIDE DEF a
  <2>5. Atomic!RevokeAccessToken(a) /\ Atomic!Answer(k, "nil", None)
    BY <1>1, <2>2, <2>3, <2>4 DEF Atomic!Answer, Atomic!RevokeAccessToken
  <2> QED BY <1>1, <2>3, <2>5 DEF Atomic!AtomicNext, Atomic!AccessMethod, Atomic!refreshVars
<1>3. CASE accessTokenRequestIDs[a] # None
  <2>1. Advance(k) /\ UNCHANGED answers /\ \A j \in Calls : j # k => args'[j] = args[j]
    BY <1>3 DEF FindAccess, LocksInv, LocksTypes
  <2> QED BY <1>1, <2>1, Onwards, Stutters DEF Does, tableVars, accessVars, refreshVars
<1> QED BY <1>2, <1>3

LEMMA DeactivateSteps ==
    ASSUME LocksInv, LocksInv', NEW k \in Calls, DeactivateRefresh(k), UNCHANGED args
    PROVE  Atomic!AtomicNext
<1> DEFINE a == args[k].req.id
<1>1. /\ todo[k] # <<>> /\ Head(todo[k])[1] = "deactivate_refresh" /\ a \in AuthReqs
      /\ UNCHANGED <<accessTokens, accessTokenRequestIDs, refreshTokenRequestIDs>>
      /\ RevokeRefreshToken(a)
  BY ArgsTyped DEF DeactivateRefresh, RevokeRefreshToken, Does, LocksInv, accessVars
<1>2. /\ Keeps(todo[k], RefreshIDs)
      /\ SubSeq(todo[k], 2, 3) = <<Unlock("RefreshTokens"), Unlock(RefreshIDs)>>
  BY <1>1, HeadTables DEF LocksInv, RegularInv
<1>3. IndexedRefresh = refreshTokenRequestIDs
  BY <1>1, <1>2, SeesIndex DEF Does
<1>4. \/ Advance(k)
      \/ todo' = [todo EXCEPT ![k] = <<Unlock("RefreshTokens"), Unlock(RefreshIDs)>>]
  BY <1>2 DEF DeactivateRefresh
<1>5. UNCHANGED <<IndexedAccess, IndexedRefresh>>
  BY <1>1, <1>4, EffectKeeps
<1>6. Atomic!RevokeRefreshTokenFails(a) <=> RevokeRefreshTokenFails(a)
  BY <1>3 DEF Atomic!RevokeRefreshTokenFails, RevokeRefreshTokenFails
<1>7. Atomic!RevokeRefreshToken(a)
  BY <1>1, <1>3, <1>5, <1>6 DEF Atomic!RevokeRefreshToken, RevokeRefreshToken
<1>8. Atomic!Answer(k, IF Atomic!RevokeRefreshTokenFails(a) THEN "ErrNotFound" ELSE "nil", None)
  BY <1>6 DEF DeactivateRefresh, Answer, Atomic!Answer
<1> HIDE DEF a
<1> QED BY <1>1, <1>5, <1>7, <1>8 DEF Atomic!AtomicNext, Atomic!RefreshMethod, Atomic!accessVars

\* A Create takes effect when it writes its first map.
LEMMA PutAccessSteps ==
    ASSUME LocksInv, LocksInv', NEW k \in Calls, PutAccess(k), UNCHANGED args
    PROVE  Atomic!AtomicNext
<1> DEFINE sig == args[k].sig
           req == args[k].req
<1>1. /\ todo[k] # <<>> /\ Head(todo[k])[1] = "put_access" /\ Advance(k)
      /\ UNCHANGED <<accessTokenRequestIDs, refreshTokens, refreshTokenRequestIDs>>
      /\ accessTokens' = [accessTokens EXCEPT ![sig] = req]
      /\ sig \in AccessSignatures /\ req \in Requester
  BY ArgsTyped DEF PutAccess, Does, LocksInv, refreshVars
<1>2. ~Does(k, "index_access") /\ ~Does(k, "index_refresh")
  BY <1>1 DEF Does
<1>3. /\ \A j \in Calls : j # k => todo'[j] = todo[j]
      /\ todo'[k] = Tail(todo[k]) /\ ~Does(k, "index_refresh")'
  BY <1>1, Onwards
<1>4. UNCHANGED IndexedRefresh
  BY <1>1, <1>2, <1>3, MappingKept
<1>5. /\ Keeps(todo[k], AccessIDs) /\ Tail(todo[k]) # <<>>
      /\ Head(Tail(todo[k])) = Op("index_access", AccessIDs)
  BY <1>1, HeadTables DEF LocksInv, RegularInv
<1>6. IndexedAccess = accessTokenRequestIDs
  BY <1>2, <1>5, SeesIndex
<1>7. Does(k, "index_access")'
  BY <1>3, <1>5 DEF Does, Op
<1>8. AccessMapped'
  BY IndexedAccessIs, PTL
<1>9. IndexedAccess' = [IndexedAccess EXCEPT ![req.id] = sig]
  BY <1>1, <1>6, <1>7, <1>8 DEF AccessMapped
<1>10. answers' = [answers EXCEPT ![k] = <<"nil", None>>]
  BY DEF PutAccess, Answer
<1> HIDE DEF sig, req
<1>11. Atomic!CreateAccessTokenSession(sig, req) /\ Atomic!Answer(k, "nil", None)
  BY <1>1, <1>9, <1>10 DEF Atomic!CreateAccessTokenSession, Atomic!Answer
<1> QED BY <1>1, <1>4, <1>11 DEF Atomic!AtomicNext, Atomic!AccessMethod, Atomic!refreshVars,
       Atomic!AccessSignatures, AccessSignatures, Atomic!Requester, Requester

LEMMA PutRefreshSteps ==
    ASSUME LocksInv, LocksInv', NEW k \in Calls, PutRefresh(k), UNCHANGED args
    PROVE  Atomic!AtomicNext
<1> DEFINE sig == args[k].sig
           req == args[k].req
<1>1. /\ todo[k] # <<>> /\ Head(todo[k])[1] = "put_refresh" /\ Advance(k)
      /\ UNCHANGED <<accessTokens, accessTokenRequestIDs, refreshTokenRequestIDs>>
      /\ refreshTokens' = [refreshTokens EXCEPT ![sig] = [active |-> TRUE, req |-> req]]
      /\ sig \in Calls /\ req \in Requester
  BY ArgsTyped DEF PutRefresh, Does, LocksInv, accessVars
<1>2. ~Does(k, "index_access") /\ ~Does(k, "index_refresh")
  BY <1>1 DEF Does
<1>3. /\ \A j \in Calls : j # k => todo'[j] = todo[j]
      /\ todo'[k] = Tail(todo[k]) /\ ~Does(k, "index_access")'
  BY <1>1, Onwards
<1>4. UNCHANGED IndexedAccess
  BY <1>1, <1>2, <1>3, MappingKept
<1>5. /\ Keeps(todo[k], RefreshIDs) /\ Tail(todo[k]) # <<>>
      /\ Head(Tail(todo[k])) = Op("index_refresh", RefreshIDs)
  BY <1>1, HeadTables DEF LocksInv, RegularInv
<1>6. IndexedRefresh = refreshTokenRequestIDs
  BY <1>2, <1>5, SeesIndex
<1>7. Does(k, "index_refresh")'
  BY <1>3, <1>5 DEF Does, Op
<1>8. RefreshMapped'
  BY IndexedRefreshIs, PTL
<1>9. IndexedRefresh' = [IndexedRefresh EXCEPT ![req.id] = sig]
  BY <1>1, <1>6, <1>7, <1>8 DEF RefreshMapped
<1>10. answers' = [answers EXCEPT ![k] = <<"nil", None>>]
  BY DEF PutRefresh, Answer
<1> HIDE DEF sig, req
<1>11. Atomic!CreateRefreshTokenSession(sig, req) /\ Atomic!Answer(k, "nil", None)
  BY <1>1, <1>9, <1>10 DEF Atomic!CreateRefreshTokenSession, Atomic!Answer
<1> QED BY <1>1, <1>4, <1>11 DEF Atomic!AtomicNext, Atomic!RefreshMethod, Atomic!accessVars,
       Atomic!Requester, Requester

\* Its second write is part of the same effect.
LEMMA IndexStutters ==
    ASSUME LocksInv, LocksInv', NEW k \in Calls, IndexAccess(k) \/ IndexRefresh(k), UNCHANGED args
    PROVE  UNCHANGED Atomic!atomicVars
<1>1. AccessMapped /\ RefreshMapped /\ AccessMapped' /\ RefreshMapped'
  <2>1. AccessMapped /\ RefreshMapped
    BY IndexedAccessIs, IndexedRefreshIs
  <2>2. LocksInv' => AccessMapped' /\ RefreshMapped'
    BY IndexedAccessIs, IndexedRefreshIs, PTL
  <2> QED BY <2>1, <2>2
<1>2. /\ todo[k] # <<>> /\ Advance(k) /\ UNCHANGED <<accessTokens, refreshTokens, answers>>
      /\ Head(todo[k])[1] \notin {"put_access", "put_refresh"}
  BY DEF IndexAccess, IndexRefresh, Does, accessVars, refreshVars
<1>3. /\ ~Does(k, "index_access")' /\ ~Does(k, "index_refresh")'
      /\ \A j \in Calls : j # k => todo'[j] = todo[j]
  BY <1>2, Onwards
<1>4. \A j \in Calls : j # k => /\ Does(j, "index_access")' <=> Does(j, "index_access")
                                /\ Does(j, "index_refresh")' <=> Does(j, "index_refresh")
  BY <1>3 DEF Does
<1>5. CASE IndexAccess(k)
  <2>1. /\ accessTokenRequestIDs' = [accessTokenRequestIDs EXCEPT ![args[k].req.id] = args[k].sig]
        /\ Does(k, "index_access") /\ ~Does(k, "index_refresh")
        /\ UNCHANGED refreshTokenRequestIDs
    BY <1>5 DEF IndexAccess, Does, refreshVars
  <2>2. \A j \in Calls : ~Does(j, "index_access")'
    BY <1>3, <1>4, <2>1, OneIndexes
  <2>3. IndexedAccess' = IndexedAccess
    BY <1>1, <2>1, <2>2 DEF AccessMapped
  <2>4. IndexedRefresh' = IndexedRefresh
    <3>1. CASE \A j \in Calls : ~Does(j, "index_refresh")
      BY <1>1, <1>3, <1>4, <2>1, <3>1 DEF RefreshMapped
    <3>2. CASE \E j \in Calls : Does(j, "index_refresh")
      BY <1>1, <1>4, <2>1, <3>2 DEF RefreshMapped
    <3> QED BY <3>1, <3>2
  <2> QED BY <1>2, <2>3, <2>4 DEF Atomic!atomicVars, Atomic!accessVars, Atomic!refreshVars
<1>6. CASE IndexRefresh(k)
  <2>1. /\ refreshTokenRequestIDs' = [refreshTokenRequestIDs EXCEPT ![args[k].req.id] = args[k].sig]
        /\ Does(k, "index_refresh") /\ ~Does(k, "index_access")
        /\ UNCHANGED accessTokenRequestIDs
    BY <1>6 DEF IndexRefresh, Does, accessVars
  <2>2. \A j \in Calls : ~Does(j, "index_refresh")'
    BY <1>3, <1>4, <2>1, OneIndexes
  <2>3. IndexedRefresh' = IndexedRefresh
    BY <1>1, <2>1, <2>2 DEF RefreshMapped
  <2>4. IndexedAccess' = IndexedAccess
    <3>1. CASE \A j \in Calls : ~Does(j, "index_access")
      BY <1>1, <1>3, <1>4, <2>1, <3>1 DEF AccessMapped
    <3>2. CASE \E j \in Calls : Does(j, "index_access")
      BY <1>1, <1>4, <2>1, <3>2 DEF AccessMapped
    <3> QED BY <3>1, <3>2
  <2> QED BY <1>2, <2>3, <2>4 DEF Atomic!atomicVars, Atomic!accessVars, Atomic!refreshVars
<1> QED BY <1>5, <1>6

-----------------------------------------------------------------------------

\* Every method of the token tables of MemoryStore takes effect all at once,
\* however many goroutines call it: its mutexes make it the step that the
\* models of the handlers take.
THEOREM MethodsAreAtomic == LocksSpec => StoreIsAtomic
<1>1. LocksInit => Atomic!AtomicInit
  <2> SUFFICES ASSUME LocksInit PROVE Atomic!AtomicInit
    OBVIOUS
  <2>1. AccessMapped /\ RefreshMapped /\ \A k \in Calls : todo[k] = <<>>
    BY InvInit, IndexedAccessIs, IndexedRefreshIs DEF LocksInit
  <2>2. IndexedAccess = accessTokenRequestIDs /\ IndexedRefresh = refreshTokenRequestIDs
    BY <2>1 DEF AccessMapped, RefreshMapped, Does
  <2> QED BY <2>2 DEF LocksInit, StoreInit, NoAnswer, Atomic!AtomicInit, Atomic!NoAnswer,
         Atomic!AccessSignatures, AccessSignatures
<1>2. LocksInv /\ LocksInv' /\ [LocksNext]_locksVars => [Atomic!AtomicNext]_(Atomic!atomicVars)
  <2> SUFFICES ASSUME LocksInv, LocksInv', [LocksNext]_locksVars
               PROVE  [Atomic!AtomicNext]_(Atomic!atomicVars)
    OBVIOUS
  <2>1. CASE UNCHANGED locksVars
    <3>1. UNCHANGED <<IndexedAccess, IndexedRefresh>>
      BY <2>1 DEF locksVars, tableVars, accessVars, refreshVars, IndexedAccess, IndexedRefresh,
         Indexed, Does
    <3> QED BY <2>1, <3>1 DEF locksVars, tableVars, accessVars, refreshVars, Atomic!atomicVars,
           Atomic!accessVars, Atomic!refreshVars
  <2>2. ASSUME NEW k \in Calls, Call(k) PROVE UNCHANGED Atomic!atomicVars
    BY <2>2, CallStutters
  <2>3. ASSUME NEW k \in Calls, Effect(k) PROVE [Atomic!AtomicNext]_(Atomic!atomicVars)
    BY <2>3, PutAccessSteps, IndexStutters, GetAccessSteps, FindAccessSteps, DeleteAccessSteps,
       PutRefreshSteps, GetRefreshSteps, DeleteRefreshSteps, DeactivateSteps DEF Effect
  <2>4. ASSUME NEW k \in Calls, Step(k) PROVE [Atomic!AtomicNext]_(Atomic!atomicVars)
    BY <2>3, <2>4, WaitStutters, ReturnSteps DEF Step
  <2> QED BY <2>1, <2>2, <2>4 DEF LocksNext
<1> QED BY <1>1, <1>2, InvAlways, PTL DEF LocksSpec, StoreIsAtomic, Atomic!AtomicSpec
=============================================================================
