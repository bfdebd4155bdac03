------------------------- MODULE KeyMetering_proofs -------------------------
(***************************************************************************)
(* Proofs about the metering of the keys of PersistentKeyStore, for any    *)
(* number of keys and requests, any quotas and any length of the day.      *)
(***************************************************************************)
EXTENDS KeyMetering, FiniteSetTheorems, TLAPS

\* The day of a second does not go down with the second.
LEMMA DayMonotone ==
  ASSUME NEW a \in Nat, NEW b \in Nat, NEW k \in Nat \ {0}, a <= b
  PROVE  a \div k \in Nat /\ b \div k \in Nat /\ a \div k <= b \div k
<1> DEFINE p == a \div k  q == b \div k
<1>1. p \in Nat /\ q \in Nat
  OBVIOUS
<1>2. a = k * p + (a % k) /\ 0 <= a % k /\ a % k < k
  OBVIOUS
<1>3. b = k * q + (b % k) /\ 0 <= b % k /\ b % k < k
  OBVIOUS
<1>4. SUFFICES ASSUME p >= q + 1 PROVE FALSE
  BY <1>1
<1>5. k * p >= k * (q + 1)
  BY <1>1, <1>4
<1>6. k * (q + 1) = k * q + k
  BY <1>1
<1>7. QED
  BY <1>1, <1>2, <1>3, <1>5, <1>6

\* The day of the clock is one of the behaviour's days.
LEMMA TodayInDays == TypeOK => Today \in Days
<1> SUFFICES ASSUME TypeOK PROVE Today \in Days
  OBVIOUS
<1>1. clock \in Nat /\ LastSecond \in Nat /\ clock <= LastSecond /\ SecondsPerDay \in Nat \ {0}
  BY ConstantsAssumption DEF TypeOK, Seconds
<1>2. /\ clock \div SecondsPerDay \in Nat /\ LastSecond \div SecondsPerDay \in Nat
      /\ clock \div SecondsPerDay <= LastSecond \div SecondsPerDay
  BY <1>1, DayMonotone
<1>3. QED
  BY <1>2 DEF Today, Days

\* What the constants are.
LEMMA Constants ==
  /\ \A r \in Requests : KeyOf[r] \in Keys /\ r \in Nat \ {0}
  /\ \A k \in Keys : Rps[k] \in Nat /\ Daily[k] \in Nat /\ PoolCap(k) \in Nat
  /\ 0 \in Seconds /\ 0 \in Days /\ PoolDaily \in Nat
<1>1. LastSecond \div SecondsPerDay \in Nat
  BY ConstantsAssumption
<1>2. QED
  BY <1>1, ConstantsAssumption DEF Requests, Seconds, Days, PoolCap

\* Writing a row changes that row only.
LEMMA WriteUsed ==
  ASSUME NEW s \in Store, NEW x \in Keys \X Days, NEW n \in Nat
  PROVE  /\ [s EXCEPT !.used[x] = n] \in Store
         /\ [s EXCEPT !.used[x] = n].revoked = s.revoked
         /\ [s EXCEPT !.used[x] = n].pool = s.pool
         /\ [s EXCEPT !.used[x] = n].used = [s.used EXCEPT ![x] = n]
<1> DEFINE u == [s.used EXCEPT ![x] = n]
<1>1. u \in [Keys \X Days -> Nat]
  BY DEF Store
<1>2. [s EXCEPT !.used[x] = n] = [s EXCEPT !.used = u]
  OBVIOUS
<1> HIDE DEF u
<1>3. [s EXCEPT !.used = u] = [revoked |-> s.revoked, used |-> u, pool |-> s.pool]
  BY DEF Store
<1>4. QED
  BY <1>1, <1>2, <1>3 DEF Store, u

\* The same for the rows of the pool.
LEMMA WritePool ==
  ASSUME NEW s \in Store, NEW d \in Days
  PROVE  /\ [s EXCEPT !.pool[d] = @ + 1] \in Store
         /\ [s EXCEPT !.pool[d] = @ + 1].revoked = s.revoked
         /\ [s EXCEPT !.pool[d] = @ + 1].used = s.used
         /\ [s EXCEPT !.pool[d] = @ + 1].pool = [s.pool EXCEPT ![d] = @ + 1]
<1> DEFINE u == [s.pool EXCEPT ![d] = @ + 1]
<1>1. u \in [Days -> Nat]
  BY DEF Store
<1>2. [s EXCEPT !.pool[d] = @ + 1] = [s EXCEPT !.pool = u]
  OBVIOUS
<1> HIDE DEF u
<1>3. [s EXCEPT !.pool = u] = [revoked |-> s.revoked, used |-> s.used, pool |-> u]
  BY DEF Store
<1>4. QED
  BY <1>1, <1>2, <1>3 DEF Store, u

-----------------------------------------------------------------------------
States == {"new", "known", "stamped", "metering", "charging", "ok", "refused"}

\* The initial state is well typed.
LEMMA TypeInit == Init => TypeOK
<1> SUFFICES ASSUME Init PROVE TypeOK
  OBVIOUS
<1>1. db \in Store
  BY Constants DEF Init, Store0, Store
<1>2. \A k \in Keys : window[k] \in [start : Seconds, count : 0..Rps[k]]
  BY Constants DEF Init, NoWindow
<1>3. clock \in Seconds /\ stops \in 0..MaxStops
  BY Constants, ConstantsAssumption DEF Init
<1>4. QED
  BY <1>1, <1>2, <1>3, Constants DEF Init, TypeOK

\* Every step keeps the types; a rate window that has reached its limit is
\* not counted up.
LEMMA TypeNext == TypeOK /\ [Next]_vars => TypeOK'
<1> SUFFICES ASSUME TypeOK, [Next]_vars PROVE TypeOK'
  OBVIOUS
<1> USE DEF TypeOK, callVars, Goto
<1>0. Today \in Days
  BY TodayInDays
<1>1. ASSUME NEW r \in Requests, ReadRecord(r) PROVE TypeOK'
  BY <1>1 DEF ReadRecord, AfterRecord
<1>2. ASSUME NEW r \in Requests, ReadClock(r) PROVE TypeOK'
  BY <1>2 DEF ReadClock
<1>3. ASSUME NEW r \in Requests, CheckRate(r) PROVE TypeOK'
  <2> DEFINE k == KeyOf[r]
             w == WindowAt(k, stamp[r])
  <2>1. k \in Keys /\ stamp[r] \in Seconds /\ Rps[k] \in Nat
    BY Constants
  <2>2. w \in [start : Seconds, count : 0..Rps[k]]
    BY <2>1 DEF WindowAt
  <2>3. w.count < Rps[k] =>
          [w EXCEPT !.count = @ + 1] \in [start : Seconds, count : 0..Rps[k]]
    BY <2>1, <2>2
  <2> HIDE DEF w, k
  <2>4. PICK v \in [start : Seconds, count : 0..Rps[k]] : window' = [window EXCEPT ![k] = v]
    BY <1>3, <2>2, <2>3 DEF CheckRate, w, k
  <2>5. DOMAIN window' = Keys
    BY <2>1, <2>4
  <2>6. ASSUME NEW j \in Keys PROVE window'[j] \in [start : Seconds, count : 0..Rps[j]]
    BY <2>1, <2>4
  <2>7. passed' \in [Keys \X Seconds -> Nat]
    <3>1. <<k, stamp[r]>> \in Keys \X Seconds
      BY <2>1
    <3>2. UNCHANGED passed \/ passed' = [passed EXCEPT ![<<k, stamp[r]>>] = @ + 1]
      BY <1>3 DEF CheckRate, k
    <3>3. PICK x \in Keys \X Seconds : UNCHANGED passed \/ passed' = [passed EXCEPT ![x] = @ + 1]
      BY <3>1, <3>2
    <3>4. QED
      BY <3>3
  <2>8. pc' \in [Requests -> States]
    BY <1>3 DEF CheckRate, States
  <2>9. UNCHANGED <<db, clock, stops, stamp, day, cur, keyLock, admitted, barred>>
    BY <1>3 DEF CheckRate
  <2>10. QED
    BY <2>5, <2>6, <2>7, <2>8, <2>9 DEF States
<1>4. ASSUME NEW r \in Requests, Unmetered(r) PROVE TypeOK'
  BY <1>0, <1>4 DEF Unmetered, Admit
<1>5. ASSUME NEW r \in Requests, Refuse(r) PROVE TypeOK'
  BY <1>5 DEF Refuse
<1>6. ASSUME NEW r \in Requests, ChargePool(r) PROVE TypeOK'
  <2>1. KeyOf[r] \in Keys /\ <<KeyOf[r], Today>> \in Keys \X Days
    BY <1>0, Constants
  <2>2. db' \in Store
    <3>1. db' = db \/ db' = [db EXCEPT !.pool[Today] = @ + 1]
      BY <1>6 DEF ChargePool
    <3>2. [db EXCEPT !.pool[Today] = @ + 1] \in Store
      BY <1>0, WritePool
    <3>3. QED
      BY <3>1, <3>2
  <2>3. cur' \in [Requests -> Nat]
    BY <1>6, <2>1 DEF ChargePool, Store
  <2>4. /\ keyLock' \in [Keys -> Requests \cup {0}]
        /\ day' \in [Requests -> Days]
        /\ pc' \in [Requests -> States]
    BY <1>0, <1>6 DEF ChargePool, States
  <2>5. UNCHANGED <<clock, stops, stamp, window, passed, admitted, barred>>
    BY <1>6 DEF ChargePool
  <2>6. QED
    BY <2>2, <2>3, <2>4, <2>5 DEF States
<1>7. ASSUME NEW r \in Requests, ChargeKey(r) PROVE TypeOK'
  <2>1. KeyOf[r] \in Keys /\ <<KeyOf[r], day[r]>> \in Keys \X Days /\ cur[r] + 1 \in Nat
    BY Constants
  <2>2. db' \in Store
    <3>1. db' = db \/ db' = [db EXCEPT !.used[<<KeyOf[r], day[r]>>] = cur[r] + 1]
      BY <1>7 DEF ChargeKey
    <3>2. [db EXCEPT !.used[<<KeyOf[r], day[r]>>] = cur[r] + 1] \in Store
      BY <2>1, WriteUsed
    <3>3. QED
      BY <3>1, <3>2
  <2>3. keyLock' \in [Keys -> Requests \cup {0}] /\ pc' \in [Requests -> States]
    BY <1>7 DEF ChargeKey, States
  <2>6. admitted' \subseteq Requests \X Days
    BY <1>7 DEF ChargeKey, Admit
  <2>4. UNCHANGED <<clock, stops, stamp, day, cur, window, passed, barred>>
    BY <1>7 DEF ChargeKey
  <2>5. QED
    BY <2>2, <2>3, <2>4, <2>6 DEF States
<1>8. ASSUME NEW r \in Requests, StoreError(r) PROVE TypeOK'
  BY <1>8 DEF StoreError
<1>9. ASSUME NEW k \in Revocable, Revoke(k) PROVE TypeOK'
  BY <1>9, ConstantsAssumption DEF Revoke, Store
<1>10. ASSUME Tick PROVE TypeOK'
  BY <1>10 DEF Tick
<1>11. ASSUME Stop PROVE TypeOK'
  <2>1. window' \in [Keys -> {NoWindow}] /\ \A k \in Keys : window'[k] = NoWindow
    BY <1>11 DEF Stop
  <2>2. \A k \in Keys : NoWindow \in [start : Seconds, count : 0..Rps[k]]
    BY Constants DEF NoWindow
  <2>3. stops' \in 0..MaxStops
    BY <1>11, ConstantsAssumption DEF Stop
  <2>4. QED
    BY <1>11, <2>1, <2>2, <2>3 DEF Stop
<1>12. CASE UNCHANGED vars
  BY <1>12 DEF vars
<1>13. QED
  BY <1>1, <1>2, <1>3, <1>4, <1>5, <1>6, <1>7, <1>8, <1>9, <1>10, <1>11, <1>12 DEF Next, Consume

-----------------------------------------------------------------------------
(* The inductive invariant.                                                *)

\* The member requests that have charged the pool of day d and not yet
\* their key.
ChargingMembers(d) ==
  {r \in Requests : pc[r] = "charging" /\ day[r] = d /\ KeyOf[r] \in Members}

\* A request between its two charges holds the lock of its key.
LockPart ==
  \A r \in Requests : pc[r] = "charging" => keyLock[KeyOf[r]] = r

\* What is recorded as admitted was answered with Ok.
HistoryPart ==
  /\ IsFiniteSet(admitted)
  /\ \A a \in admitted : pc[a[1]] = "ok"

\* Requests that came after a revocation get nowhere.
RevokedPart ==
  \A r \in barred : KeyOf[r] \in db.revoked /\ pc[r] \in {"new", "refused"}

\* The counter of a key is what was admitted, is within the quota, and is
\* still what the holder of the key's lock read.
QuotaPart ==
  \A k \in Keys : Daily[k] > 0 =>
    /\ \A d \in Days : /\ db.used[<<k, d>>] = Cardinality(AdmittedOf(k, d))
                       /\ db.used[<<k, d>>] <= Daily[k]
    /\ \A r \in Requests : pc[r] = "charging" /\ KeyOf[r] = k =>
         cur[r] = db.used[<<k, day[r]>>] /\ cur[r] < Daily[k]

\* The pool has been charged for the admitted and for those on their way.
PoolPart ==
  PoolDaily > 0 => \A d \in Days :
    /\ Cardinality(AdmittedMembers(d)) + Cardinality(ChargingMembers(d)) <= db.pool[d]
    /\ db.pool[d] <= PoolDaily

IInv == TypeOK /\ LockPart /\ HistoryPart /\ RevokedPart /\ QuotaPart /\ PoolPart

\* The sets that the invariant counts are finite.
LEMMA Finite ==
  ASSUME TypeOK, IsFiniteSet(admitted)
  PROVE  /\ \A k, d : IsFiniteSet(AdmittedOf(k, d)) /\ Cardinality(AdmittedOf(k, d)) \in Nat
         /\ \A d : IsFiniteSet(AdmittedMembers(d)) /\ Cardinality(AdmittedMembers(d)) \in Nat
         /\ \A d : IsFiniteSet(ChargingMembers(d)) /\ Cardinality(ChargingMembers(d)) \in Nat
<1>1. IsFiniteSet(Requests)
  BY FS_Interval, ConstantsAssumption DEF Requests
<1>2. ASSUME NEW k, NEW d
      PROVE  IsFiniteSet(AdmittedOf(k, d)) /\ Cardinality(AdmittedOf(k, d)) \in Nat
  <2>1. AdmittedOf(k, d) \subseteq admitted
    BY DEF AdmittedOf
  <2>2. QED
    BY <2>1, FS_Subset, FS_CardinalityType
<1>3. ASSUME NEW d
      PROVE  IsFiniteSet(AdmittedMembers(d)) /\ Cardinality(AdmittedMembers(d)) \in Nat
  <2>1. AdmittedMembers(d) \subseteq admitted
    BY DEF AdmittedMembers
  <2>2. QED
    BY <2>1, FS_Subset, FS_CardinalityType
<1>4. ASSUME NEW d
      PROVE  IsFiniteSet(ChargingMembers(d)) /\ Cardinality(ChargingMembers(d)) \in Nat
  <2>1. ChargingMembers(d) \subseteq Requests
    BY DEF ChargingMembers
  <2>2. QED
    BY <1>1, <2>1, FS_Subset, FS_CardinalityType
<1>5. QED
  BY <1>2, <1>3, <1>4

\* Nothing is admitted or charged at the start.
LEMMA InvInit == Init => IInv
<1> SUFFICES ASSUME Init PROVE IInv
  OBVIOUS
<1>1. TypeOK
  BY TypeInit
<1>2. IsFiniteSet({}) /\ Cardinality({}) = 0
  BY FS_EmptySet
<1>3. /\ \A k, d : AdmittedOf(k, d) = {}
      /\ \A d : AdmittedMembers(d) = {} /\ ChargingMembers(d) = {}
  BY DEF Init, AdmittedOf, AdmittedMembers, ChargingMembers
<1>4. LockPart /\ HistoryPart /\ RevokedPart
  BY <1>2 DEF Init, LockPart, HistoryPart, RevokedPart
<1>5. (\A x \in Keys \X Days : db.used[x] = 0) /\ (\A d \in Days : db.pool[d] = 0)
  BY DEF Init, Store0
<1>6. QuotaPart
  <2> SUFFICES ASSUME NEW k \in Keys, Daily[k] > 0
               PROVE  /\ \A d \in Days : /\ db.used[<<k, d>>] = Cardinality(AdmittedOf(k, d))
                                          /\ db.used[<<k, d>>] <= Daily[k]
                      /\ \A r \in Requests : pc[r] # "charging"
    BY DEF QuotaPart
  <2>1. \A d \in Days : db.used[<<k, d>>] = 0
    BY <1>5
  <2>2. Daily[k] \in Nat
    BY Constants
  <2>3. \A r \in Requests : pc[r] # "charging"
    BY DEF Init
  <2>4. QED
    BY <1>2, <1>3, <2>1, <2>2, <2>3
<1>7. PoolPart
  <2>1. \A d \in Days : /\ Cardinality(AdmittedMembers(d)) = 0
                        /\ Cardinality(ChargingMembers(d)) = 0
                        /\ db.pool[d] = 0
    BY <1>2, <1>3, <1>5
  <2>2. QED
    BY <2>1, Constants DEF PoolPart
<1>8. QED
  BY <1>1, <1>4, <1>6, <1>7 DEF IInv

-----------------------------------------------------------------------------
(* The steps.                                                              *)

\* A step that charges nothing, and after which at most those are between
\* their charges who were before.
LEMMA QuietStep ==
  ASSUME IInv, TypeOK', HistoryPart', RevokedPart',
         db'.used = db.used, db'.pool = db.pool, day' = day, cur' = cur,
         \A k \in Keys, d \in Days : Daily[k] > 0 => AdmittedOf(k, d)' = AdmittedOf(k, d),
         PoolDaily > 0 => \A d \in Days : AdmittedMembers(d)' = AdmittedMembers(d),
         \A r \in Requests : pc'[r] = "charging" =>
           pc[r] = "charging" /\ keyLock'[KeyOf[r]] = keyLock[KeyOf[r]]
  PROVE  IInv'
<1>1. LockPart'
  BY DEF IInv, LockPart
<1>2. QuotaPart'
  BY DEF IInv, QuotaPart
<1>3. PoolPart'
  <2> SUFFICES ASSUME PoolDaily > 0, NEW d \in Days
               PROVE  /\ Cardinality(AdmittedMembers(d))' + Cardinality(ChargingMembers(d))' <= db'.pool[d]
                      /\ db'.pool[d] <= PoolDaily
    BY DEF PoolPart
  <2>1. ChargingMembers(d)' \subseteq ChargingMembers(d)
    BY DEF ChargingMembers
  <2>2. /\ IsFiniteSet(ChargingMembers(d)) /\ Cardinality(ChargingMembers(d)) \in Nat
        /\ Cardinality(AdmittedMembers(d)) \in Nat
    BY Finite DEF IInv, HistoryPart
  <2>3. Cardinality(ChargingMembers(d)') \in Nat
    BY <2>1, <2>2, FS_Subset, FS_CardinalityType
  <2>4. Cardinality(ChargingMembers(d)') <= Cardinality(ChargingMembers(d))
    BY <2>1, <2>2, FS_Subset
  <2>5. /\ Cardinality(AdmittedMembers(d)) + Cardinality(ChargingMembers(d)) <= db.pool[d]
        /\ db.pool[d] <= PoolDaily /\ db.pool[d] \in Nat
    BY DEF IInv, PoolPart, TypeOK, Store
  <2>6. AdmittedMembers(d)' = AdmittedMembers(d)
    OBVIOUS
  <2>7. QED
    BY <2>2, <2>3, <2>4, <2>5, <2>6
<1>4. QED
  BY <1>1, <1>2, <1>3 DEF IInv

\* The case where nothing is admitted or revoked either.
LEMMA SilentStep ==
  ASSUME IInv, TypeOK', UNCHANGED <<db, day, cur, admitted, barred>>,
         \A r \in Requests : pc[r] = "ok" => pc'[r] = "ok",
         \A r \in barred : pc'[r] \in {"new", "refused"},
         \A r \in Requests : pc'[r] = "charging" =>
           pc[r] = "charging" /\ keyLock'[KeyOf[r]] = keyLock[KeyOf[r]]
  PROVE  IInv'
<1>1. HistoryPart'
  BY DEF IInv, HistoryPart, TypeOK
<1>2. RevokedPart'
  BY DEF IInv, RevokedPart
<1>3. /\ \A k \in Keys, d \in Days : AdmittedOf(k, d)' = AdmittedOf(k, d)
      /\ \A d \in Days : AdmittedMembers(d)' = AdmittedMembers(d)
  BY DEF AdmittedOf, AdmittedMembers
<1>4. QED
  BY <1>1, <1>2, <1>3, QuietStep

\* Only one request at a time is between the charges of one key.
LEMMA OneHolder ==
  ASSUME LockPart, NEW r \in Requests, NEW q \in Requests,
         pc[r] = "charging", pc[q] = "charging", KeyOf[r] = KeyOf[q]
  PROVE  r = q
BY DEF LockPart

\* ChargePool: the pool is charged, and the request holds its key's lock.
LEMMA ChargePoolStep ==
  ASSUME IInv, TypeOK', NEW r \in Requests, ChargePool(r)
  PROVE  IInv'
<1> DEFINE k == KeyOf[r]
<1>0. TypeOK /\ LockPart /\ HistoryPart /\ RevokedPart /\ QuotaPart /\ PoolPart
  BY DEF IInv
<1>1. /\ Daily[k] > 0 \/ PoolCap(k) > 0
      /\ keyLock[k] = 0 /\ ~UsedUp(k) /\ pc[r] = "metering"
      /\ pc' = [pc EXCEPT ![r] = "charging"]
      /\ keyLock' = [keyLock EXCEPT ![k] = r]
      /\ day' = [day EXCEPT ![r] = Today]
      /\ cur' = [cur EXCEPT ![r] = db.used[<<k, Today>>]]
      /\ PoolCap(k) > 0 => db' = [db EXCEPT !.pool[Today] = @ + 1]
      /\ ~(PoolCap(k) > 0) => db' = db
      /\ UNCHANGED <<admitted, barred>>
  BY DEF ChargePool, Goto
<1>2. Today \in Days /\ k \in Keys /\ db \in Store
  BY <1>0, TodayInDays, Constants DEF TypeOK
<1>3. /\ db'.used = db.used /\ db'.revoked = db.revoked
      /\ db'.pool = IF PoolCap(k) > 0 THEN [db.pool EXCEPT ![Today] = @ + 1] ELSE db.pool
  <2>1. CASE PoolCap(k) > 0
    <3>1. db' = [db EXCEPT !.pool[Today] = @ + 1]
      BY <1>1, <2>1
    <3>2. QED
      BY <1>2, <2>1, <3>1, WritePool
  <2>2. CASE ~(PoolCap(k) > 0)
    BY <1>1, <2>2
  <2>3. QED
    BY <2>1, <2>2
<1>4. /\ \A q \in Requests : pc'[q] = IF q = r THEN "charging" ELSE pc[q]
      /\ \A q \in Requests : day'[q] = IF q = r THEN Today ELSE day[q]
      /\ \A q \in Requests : cur'[q] = IF q = r THEN db.used[<<k, Today>>] ELSE cur[q]
      /\ \A j \in Keys : keyLock'[j] = IF j = k THEN r ELSE keyLock[j]
  BY <1>0, <1>1, <1>2 DEF TypeOK
<1> HIDE DEF k
<1>5. \A q \in Requests : pc[q] = "charging" => KeyOf[q] # k
  BY <1>0, <1>1, Constants DEF LockPart
<1>6. LockPart'
  BY <1>0, <1>4, <1>5, Constants DEF LockPart, k
<1>7. HistoryPart'
  <2>1. \A a \in admitted : a[1] \in Requests /\ a[1] # r
    BY <1>0, <1>1 DEF HistoryPart, TypeOK
  <2>2. QED
    BY <1>0, <1>1, <1>4, <2>1 DEF HistoryPart
<1>8. RevokedPart'
  BY <1>0, <1>1, <1>3, <1>4 DEF RevokedPart, TypeOK
<1>9. /\ \A j \in Keys, d \in Days : AdmittedOf(j, d)' = AdmittedOf(j, d)
      /\ \A d \in Days : AdmittedMembers(d)' = AdmittedMembers(d)
  BY <1>1 DEF AdmittedOf, AdmittedMembers
<1>10. QuotaPart'
  <2> SUFFICES ASSUME NEW j \in Keys, Daily[j] > 0
               PROVE  /\ \A d \in Days : /\ db'.used[<<j, d>>] = Cardinality(AdmittedOf(j, d)')
                                          /\ db'.used[<<j, d>>] <= Daily[j]
                      /\ \A q \in Requests : pc'[q] = "charging" /\ KeyOf[q] = j =>
                           cur'[q] = db'.used[<<j, day'[q]>>] /\ cur'[q] < Daily[j]
    BY DEF QuotaPart
  <2>1. \A d \in Days : /\ db'.used[<<j, d>>] = Cardinality(AdmittedOf(j, d)')
                        /\ db'.used[<<j, d>>] <= Daily[j]
    BY <1>0, <1>3, <1>9 DEF QuotaPart
  <2>2. ASSUME NEW q \in Requests, pc'[q] = "charging", KeyOf[q] = j
        PROVE  cur'[q] = db'.used[<<j, day'[q]>>] /\ cur'[q] < Daily[j]
    <3>1. CASE q = r
      <4>1. db.used[<<k, Today>>] \in Nat /\ Daily[k] \in Nat
        BY <1>2, Constants DEF Store
      <4>2. db.used[<<k, Today>>] < Daily[k]
        BY <1>1, <2>2, <3>1, <4>1 DEF UsedUp, k
      <4>3. QED
        BY <1>3, <1>4, <2>2, <3>1, <4>2 DEF k
    <3>2. CASE q # r
      BY <1>0, <1>3, <1>4, <2>2, <3>2 DEF QuotaPart
    <3>3. QED
      BY <3>1, <3>2
  <2>3. QED
    BY <2>1, <2>2
<1>11. PoolPart'
  <2> SUFFICES ASSUME PoolDaily > 0, NEW d \in Days
               PROVE  /\ Cardinality(AdmittedMembers(d)') + Cardinality(ChargingMembers(d)') <= db'.pool[d]
                      /\ db'.pool[d] <= PoolDaily
    BY DEF PoolPart
  <2>1. /\ IsFiniteSet(ChargingMembers(d)) /\ Cardinality(ChargingMembers(d)) \in Nat
        /\ Cardinality(AdmittedMembers(d)) \in Nat
    BY <1>0, Finite DEF HistoryPart
  <2>2. /\ Cardinality(AdmittedMembers(d)) + Cardinality(ChargingMembers(d)) <= db.pool[d]
        /\ db.pool[d] <= PoolDaily /\ db.pool[d] \in Nat /\ PoolDaily \in Nat
    BY <1>0, Constants DEF PoolPart, TypeOK, Store
  <2>3. AdmittedMembers(d)' = AdmittedMembers(d)
    BY <1>9
  <2>4. CASE k \in Members /\ d = Today
    <3>1. PoolCap(k) = PoolDaily
      BY <2>4 DEF PoolCap
    <3>2. db'.pool[d] = db.pool[d] + 1 /\ db.pool[d] < PoolDaily
      BY <1>1, <1>2, <1>3, <2>2, <2>4, <3>1 DEF UsedUp, Store
    <3>3. ChargingMembers(d)' = ChargingMembers(d) \cup {r} /\ r \notin ChargingMembers(d)
      BY <1>1, <1>4, <2>4 DEF ChargingMembers, k
    <3>4. Cardinality(ChargingMembers(d)') = Cardinality(ChargingMembers(d)) + 1
      BY <2>1, <3>3, FS_AddElement
    <3>5. QED
      BY <2>1, <2>2, <2>3, <3>2, <3>4
  <2>5. CASE ~(k \in Members /\ d = Today)
    <3>1. ChargingMembers(d)' = ChargingMembers(d)
      BY <1>1, <1>4, <2>5 DEF ChargingMembers, k
    <3>2. db'.pool[d] = db.pool[d]
      BY <1>2, <1>3, <2>5 DEF PoolCap, Store
    <3>3. QED
      BY <2>1, <2>2, <2>3, <3>1, <3>2
  <2>6. QED
    BY <2>4, <2>5
<1>12. QED
  BY <1>6, <1>7, <1>8, <1>10, <1>11 DEF IInv

\* ChargeKey: what the request read of its key's counter is still true, so
\* the counter moves from the admitted to one more.
LEMMA ChargeKeyStep ==
  ASSUME IInv, TypeOK', NEW r \in Requests, ChargeKey(r)
  PROVE  IInv'
<1> DEFINE k == KeyOf[r]
           e == day[r]
<1>0. TypeOK /\ LockPart /\ HistoryPart /\ RevokedPart /\ QuotaPart /\ PoolPart
  BY DEF IInv
<1>1. /\ pc[r] = "charging" /\ pc' = [pc EXCEPT ![r] = "ok"]
      /\ keyLock' = [keyLock EXCEPT ![k] = 0]
      /\ Daily[k] > 0 => db' = [db EXCEPT !.used[<<k, e>>] = cur[r] + 1]
      /\ ~(Daily[k] > 0) => db' = db
      /\ admitted' = admitted \cup {<<r, e>>}
      /\ UNCHANGED <<day, cur, barred>>
  BY DEF ChargeKey, Goto, Admit
<1>2. e \in Days /\ k \in Keys /\ db \in Store /\ <<k, e>> \in Keys \X Days
      /\ cur[r] \in Nat /\ cur[r] + 1 \in Nat
  BY <1>0, Constants DEF TypeOK
<1>3. /\ db'.pool = db.pool /\ db'.revoked = db.revoked
      /\ db'.used = IF Daily[k] > 0 THEN [db.used EXCEPT ![<<k, e>>] = cur[r] + 1] ELSE db.used
  <2>1. CASE Daily[k] > 0
    <3>1. db' = [db EXCEPT !.used[<<k, e>>] = cur[r] + 1]
      BY <1>1, <2>1
    <3>2. QED
      BY <1>2, <2>1, <3>1, WriteUsed
  <2>2. CASE ~(Daily[k] > 0)
    BY <1>1, <2>2
  <2>3. QED
    BY <2>1, <2>2
<1>4. /\ \A q \in Requests : pc'[q] = IF q = r THEN "ok" ELSE pc[q]
      /\ \A j \in Keys : keyLock'[j] = IF j = k THEN 0 ELSE keyLock[j]
  BY <1>0, <1>1, <1>2 DEF TypeOK
<1>5. \A q \in Requests : pc[q] = "charging" /\ KeyOf[q] = k => q = r
  BY <1>0, <1>1, OneHolder
<1>6. /\ \A a \in admitted : a[1] \in Requests /\ a[1] # r
      /\ <<r, e>> \notin admitted /\ <<r, e>>[1] = r /\ <<r, e>>[2] = e
  BY <1>0, <1>1 DEF HistoryPart, TypeOK
<1> HIDE DEF k, e
<1>7. LockPart'
  BY <1>0, <1>4, <1>5, Constants DEF LockPart
<1>8. HistoryPart'
  <2>1. IsFiniteSet(admitted')
    BY <1>0, <1>1, FS_AddElement DEF HistoryPart
  <2>2. QED
    BY <1>0, <1>1, <1>4, <1>6, <2>1 DEF HistoryPart
<1>9. RevokedPart'
  BY <1>0, <1>1, <1>3, <1>4 DEF RevokedPart, TypeOK
<1>10. QuotaPart'
  <2> SUFFICES ASSUME NEW j \in Keys, Daily[j] > 0
               PROVE  /\ \A d \in Days : /\ db'.used[<<j, d>>] = Cardinality(AdmittedOf(j, d)')
                                          /\ db'.used[<<j, d>>] <= Daily[j]
                      /\ \A q \in Requests : pc'[q] = "charging" /\ KeyOf[q] = j =>
                           cur'[q] = db'.used[<<j, day'[q]>>] /\ cur'[q] < Daily[j]
    BY DEF QuotaPart
  <2>0. \A x \in Keys \X Days : Daily[k] > 0 =>
          db'.used[x] = IF x = <<k, e>> THEN cur[r] + 1 ELSE db.used[x]
    BY <1>2, <1>3 DEF Store
  <2>1. ASSUME NEW d \in Days
        PROVE  /\ db'.used[<<j, d>>] = Cardinality(AdmittedOf(j, d)')
               /\ db'.used[<<j, d>>] <= Daily[j]
    <3>1. db.used[<<j, d>>] = Cardinality(AdmittedOf(j, d)) /\ db.used[<<j, d>>] <= Daily[j]
      BY <1>0 DEF QuotaPart
    <3>2. CASE j = k /\ d = e
      <4>1. cur[r] = db.used[<<j, d>>] /\ cur[r] < Daily[j]
        BY <1>0, <1>1, <3>2 DEF QuotaPart, k, e
      <4>2. db'.used[<<j, d>>] = cur[r] + 1
        BY <1>2, <2>0, <3>2
      <4>3. AdmittedOf(j, d)' = AdmittedOf(j, d) \cup {<<r, e>>}
        BY <1>1, <1>6, <3>2 DEF AdmittedOf, k
      <4>4. <<r, e>> \notin AdmittedOf(j, d) /\ IsFiniteSet(AdmittedOf(j, d))
        BY <1>0, <1>6, Finite DEF AdmittedOf, HistoryPart
      <4>5. Cardinality(AdmittedOf(j, d)') = Cardinality(AdmittedOf(j, d)) + 1
        BY <4>3, <4>4, FS_AddElement
      <4>6. Daily[j] \in Nat
        BY Constants
      <4>7. QED
        BY <1>2, <3>1, <4>1, <4>2, <4>5, <4>6
    <3>3. CASE ~(j = k /\ d = e)
      <4>1. <<j, d>> # <<k, e>> /\ <<j, d>> \in Keys \X Days
        BY <3>3
      <4>2. db'.used[<<j, d>>] = db.used[<<j, d>>]
        BY <1>3, <2>0, <4>1
      <4>3. AdmittedOf(j, d)' = AdmittedOf(j, d)
        BY <1>1, <1>6, <3>3 DEF AdmittedOf, k
      <4>4. QED
        BY <3>1, <4>2, <4>3
    <3>4. QED
      BY <3>2, <3>3
  <2>2. ASSUME NEW q \in Requests, pc'[q] = "charging", KeyOf[q] = j
        PROVE  cur'[q] = db'.used[<<j, day'[q]>>] /\ cur'[q] < Daily[j]
    <3>1. q # r /\ pc[q] = "charging" /\ j # k
      BY <1>4, <1>5, <2>2
    <3>2. cur[q] = db.used[<<j, day[q]>>] /\ cur[q] < Daily[j]
      BY <1>0, <2>2, <3>1 DEF QuotaPart
    <3>3. <<j, day[q]>> # <<k, e>> /\ <<j, day[q]>> \in Keys \X Days
      BY <1>0, <3>1 DEF TypeOK
    <3>4. db'.used[<<j, day[q]>>] = db.used[<<j, day[q]>>]
      BY <1>3, <2>0, <3>3
    <3>5. QED
      BY <1>1, <3>2, <3>4
  <2>3. QED
    BY <2>1, <2>2
<1>11. PoolPart'
  <2> SUFFICES ASSUME PoolDaily > 0, NEW d \in Days
               PROVE  /\ Cardinality(AdmittedMembers(d)') + Cardinality(ChargingMembers(d)') <= db'.pool[d]
                      /\ db'.pool[d] <= PoolDaily
    BY DEF PoolPart
  <2>1. /\ IsFiniteSet(ChargingMembers(d)) /\ Cardinality(ChargingMembers(d)) \in Nat
        /\ IsFiniteSet(AdmittedMembers(d)) /\ Cardinality(AdmittedMembers(d)) \in Nat
    BY <1>0, Finite DEF HistoryPart
  <2>2. /\ Cardinality(AdmittedMembers(d)) + Cardinality(ChargingMembers(d)) <= db'.pool[d]
        /\ db'.pool[d] <= PoolDaily /\ db'.pool[d] \in Nat
    BY <1>0, <1>2, <1>3 DEF PoolPart, Store
  <2>3. CASE k \in Members /\ d = e
    <3>1. ChargingMembers(d)' = ChargingMembers(d) \ {r} /\ r \in ChargingMembers(d)
      BY <1>1, <1>4, <2>3 DEF ChargingMembers, k, e
    <3>2. /\ AdmittedMembers(d)' = AdmittedMembers(d) \cup {<<r, e>>}
          /\ <<r, e>> \notin AdmittedMembers(d)
      BY <1>1, <1>6, <2>3 DEF AdmittedMembers, k
    <3>3. Cardinality(ChargingMembers(d)') = Cardinality(ChargingMembers(d)) - 1
      BY <2>1, <3>1, FS_RemoveElement
    <3>4. Cardinality(AdmittedMembers(d)') = Cardinality(AdmittedMembers(d)) + 1
      BY <2>1, <3>2, FS_AddElement
    <3>5. QED
      BY <2>1, <2>2, <3>3, <3>4
  <2>4. CASE ~(k \in Members /\ d = e)
    <3>1. ChargingMembers(d)' = ChargingMembers(d)
      BY <1>1, <1>4, <2>4 DEF ChargingMembers, k, e
    <3>2. AdmittedMembers(d)' = AdmittedMembers(d)
      BY <1>1, <1>6, <2>4 DEF AdmittedMembers, k
    <3>3. QED
      BY <2>2, <3>1, <3>2
  <2>5. QED
    BY <2>3, <2>4
<1>12. QED
  BY <1>7, <1>8, <1>9, <1>10, <1>11 DEF IInv

\* Unmetered: the request is of no key that has a quota or shares the pool.
LEMMA UnmeteredStep ==
  ASSUME IInv, TypeOK', NEW r \in Requests, Unmetered(r)
  PROVE  IInv'
<1>0. TypeOK /\ HistoryPart /\ RevokedPart
  BY DEF IInv
<1>1. /\ Daily[KeyOf[r]] = 0 /\ PoolCap(KeyOf[r]) = 0
      /\ pc[r] = "metering" /\ pc' = [pc EXCEPT ![r] = "ok"]
      /\ admitted' = admitted \cup {<<r, Today>>}
      /\ UNCHANGED <<db, day, cur, keyLock, barred>>
  BY DEF Unmetered, Goto, Admit
<1>2. \A q \in Requests : pc'[q] = IF q = r THEN "ok" ELSE pc[q]
  BY <1>0, <1>1 DEF TypeOK
<1>3. HistoryPart'
  <2>1. IsFiniteSet(admitted')
    BY <1>0, <1>1, FS_AddElement DEF HistoryPart
  <2>2. \A a \in admitted : a[1] \in Requests
    BY <1>0 DEF TypeOK
  <2>3. QED
    BY <1>0, <1>1, <1>2, <2>1, <2>2 DEF HistoryPart
<1>4. RevokedPart'
  BY <1>0, <1>1, <1>2 DEF RevokedPart, TypeOK
<1>5. \A k \in Keys, d \in Days : Daily[k] > 0 => AdmittedOf(k, d)' = AdmittedOf(k, d)
  BY <1>1 DEF AdmittedOf
<1>6. PoolDaily > 0 => \A d \in Days : AdmittedMembers(d)' = AdmittedMembers(d)
  BY <1>1 DEF AdmittedMembers, PoolCap
<1>7. QED
  BY <1>1, <1>2, <1>3, <1>4, <1>5, <1>6, QuietStep

\* Revoke: the requests it bars are those that have not begun.
LEMMA RevokeStep ==
  ASSUME IInv, TypeOK', NEW k \in Revocable, Revoke(k)
  PROVE  IInv'
<1>0. TypeOK /\ HistoryPart /\ RevokedPart
  BY DEF IInv
<1>1. /\ db' = [db EXCEPT !.revoked = @ \cup {k}]
      /\ barred' = barred \cup {r \in Requests : KeyOf[r] = k /\ pc[r] = "new"}
      /\ UNCHANGED <<pc, day, cur, keyLock, admitted>>
  BY DEF Revoke, callVars
<1>2. /\ db'.used = db.used /\ db'.pool = db.pool
      /\ db'.revoked = db.revoked \cup {k}
  BY <1>0, <1>1 DEF TypeOK, Store
<1>3. HistoryPart'
  BY <1>0, <1>1 DEF HistoryPart
<1>4. RevokedPart'
  BY <1>0, <1>1, <1>2 DEF RevokedPart
<1>5. /\ \A j \in Keys, d \in Days : AdmittedOf(j, d)' = AdmittedOf(j, d)
      /\ \A d \in Days : AdmittedMembers(d)' = AdmittedMembers(d)
  BY <1>1 DEF AdmittedOf, AdmittedMembers
<1>6. QED
  BY <1>1, <1>2, <1>3, <1>4, <1>5, QuietStep

\* Every step of every request, of the operator and of the process keeps
\* the invariant.
LEMMA InvNext == IInv /\ [Next]_vars => IInv'
<1> SUFFICES ASSUME IInv, [Next]_vars PROVE IInv'
  OBVIOUS
<1>0. TypeOK /\ LockPart /\ HistoryPart /\ RevokedPart /\ TypeOK'
  BY TypeNext DEF IInv
<1> USE DEF callVars, Goto
<1>s. ASSUME NEW r \in Requests, NEW s \in States \ {"charging"},
             pc[r] # "ok", r \in barred => s \in {"new", "refused"},
             pc' = [pc EXCEPT ![r] = s],
             UNCHANGED <<db, day, cur, admitted, barred, keyLock>>
      PROVE  IInv'
  <2>1. \A q \in Requests : pc'[q] = IF q = r THEN s ELSE pc[q]
    BY <1>0, <1>s DEF TypeOK
  <2>2. \A q \in barred : q \in Requests /\ pc[q] \in {"new", "refused"}
    BY <1>0 DEF RevokedPart, TypeOK
  <2>3. QED
    BY <1>0, <1>s, <2>1, <2>2, SilentStep
<1>b. ASSUME NEW r \in Requests, pc[r] \notin {"new", "refused"} PROVE r \notin barred
  BY <1>0, <1>b DEF RevokedPart
<1>1. ASSUME NEW r \in Requests, ReadRecord(r) PROVE IInv'
  <2>1. PICK s \in {"refused", "known", "metering"} :
          /\ pc[r] = "new" /\ pc' = [pc EXCEPT ![r] = s]
          /\ KeyOf[r] \in db.revoked => s = "refused"
    BY <1>1 DEF ReadRecord, AfterRecord
  <2>2. r \in barred => s = "refused"
    BY <1>0, <2>1 DEF RevokedPart
  <2>3. UNCHANGED <<db, day, cur, admitted, barred, keyLock>>
    BY <1>1 DEF ReadRecord
  <2>4. QED
    BY <1>s, <2>1, <2>2, <2>3 DEF States
<1>2. ASSUME NEW r \in Requests, ReadClock(r) PROVE IInv'
  BY <1>2, <1>s, <1>b DEF ReadClock, States
<1>3. ASSUME NEW r \in Requests, CheckRate(r) PROVE IInv'
  <2>1. PICK s \in {"refused", "metering"} : pc[r] = "stamped" /\ pc' = [pc EXCEPT ![r] = s]
    BY <1>3 DEF CheckRate
  <2>2. UNCHANGED <<db, day, cur, admitted, barred, keyLock>>
    BY <1>3 DEF CheckRate
  <2>3. QED
    BY <1>s, <1>b, <2>1, <2>2 DEF States
<1>4. ASSUME NEW r \in Requests, Refuse(r) PROVE IInv'
  BY <1>4, <1>s, <1>b DEF Refuse, States
<1>5. ASSUME NEW r \in Requests, StoreError(r) PROVE IInv'
  <2>1. /\ pc[r] \in {"new", "metering", "charging"} /\ pc' = [pc EXCEPT ![r] = "refused"]
        /\ keyLock' = IF pc[r] = "charging" THEN [keyLock EXCEPT ![KeyOf[r]] = 0] ELSE keyLock
        /\ UNCHANGED <<db, day, cur, admitted, barred>>
    BY <1>5 DEF StoreError
  <2>2. \A q \in Requests : pc'[q] = IF q = r THEN "refused" ELSE pc[q]
    BY <1>0, <2>1 DEF TypeOK
  <2>3. \A q \in Requests : pc[q] = "charging" /\ pc[r] = "charging" /\ KeyOf[q] = KeyOf[r] => q = r
    BY <1>0, OneHolder
  <2>4. \A q \in Requests : pc'[q] = "charging" =>
          pc[q] = "charging" /\ keyLock'[KeyOf[q]] = keyLock[KeyOf[q]]
    BY <1>0, <2>1, <2>2, <2>3, Constants DEF TypeOK
  <2>5. \A q \in barred : q \in Requests /\ pc[q] \in {"new", "refused"}
    BY <1>0 DEF RevokedPart, TypeOK
  <2>6. QED
    BY <1>0, <2>1, <2>2, <2>4, <2>5, SilentStep
<1>6. ASSUME Tick PROVE IInv'
  <2>1. \A q \in barred : pc[q] \in {"new", "refused"}
    BY <1>0 DEF RevokedPart
  <2>2. QED
    BY <1>0, <1>6, <2>1, SilentStep DEF Tick
<1>7. ASSUME Stop PROVE IInv'
  <2>1. \A q \in Requests :
          pc'[q] = IF pc[q] \in {"new", "ok", "refused"} THEN pc[q] ELSE "refused"
    BY <1>7 DEF Stop
  <2>2. \A q \in barred : q \in Requests /\ pc[q] \in {"new", "refused"}
    BY <1>0 DEF RevokedPart, TypeOK
  <2>3. UNCHANGED <<db, day, cur, admitted, barred>>
    BY <1>7 DEF Stop
  <2>4. QED
    BY <1>0, <2>1, <2>2, <2>3, SilentStep
<1>8. CASE UNCHANGED vars
  <2>1. \A q \in barred : pc[q] \in {"new", "refused"}
    BY <1>0 DEF RevokedPart
  <2>2. QED
    BY <1>0, <1>8, <2>1, SilentStep DEF vars
<1>9. QED
  BY <1>0, <1>1, <1>2, <1>3, <1>4, <1>5, <1>6, <1>7, <1>8,
     ChargePoolStep, ChargeKeyStep, UnmeteredStep, RevokeStep DEF Next, Consume

\* The invariant gives what the run checks.
LEMMA InvImplies == IInv => MeteringInv /\ MemberPoolHolds /\ RevokedKeyRefused
<1> SUFFICES ASSUME IInv PROVE MeteringInv /\ MemberPoolHolds /\ RevokedKeyRefused
  OBVIOUS
<1>0. TypeOK /\ HistoryPart /\ RevokedPart /\ QuotaPart /\ PoolPart
  BY DEF IInv
<1>1. \A d \in Days : /\ Cardinality(AdmittedMembers(d)) \in Nat
                      /\ Cardinality(ChargingMembers(d)) \in Nat
  BY <1>0, Finite DEF HistoryPart
<1>2. \A d \in Days : db.pool[d] \in Nat
  BY <1>0 DEF TypeOK, Store
<1>3. PoolDaily > 0 => \A d \in Days : /\ Cardinality(AdmittedMembers(d)) <= db.pool[d]
                                       /\ Cardinality(AdmittedMembers(d)) <= PoolDaily
  BY <1>0, <1>1, <1>2, Constants DEF PoolPart
<1>4. DailyQuotaHolds
  BY <1>0 DEF QuotaPart, DailyQuotaHolds
<1>5. ChargedWhenAdmitted
  BY <1>0, <1>3 DEF QuotaPart, ChargedWhenAdmitted
<1>6. RevokedKeyRefused
  BY <1>0 DEF RevokedPart, RevokedKeyRefused
<1>7. QED
  BY <1>0, <1>3, <1>4, <1>5, <1>6 DEF MeteringInv, MemberPoolHolds

\* The inductive invariant holds in every state.
LEMMA InvAlways == Spec => []IInv
BY InvInit, InvNext, PTL DEF Spec

\* MeteringInv holds in every state: no interleaving of try_consume calls,
\* change of the day, store error or restart gets a key more than its daily
\* quota, and its counter is exactly what was admitted.
THEOREM QuotasHold == Spec => []MeteringInv
BY InvAlways, InvImplies, PTL

\* MemberPoolHolds in every state: the members together never get more than
\* the pool, although each is charged under its own key's lock.
THEOREM PoolHolds == Spec => []MemberPoolHolds
BY InvAlways, InvImplies, PTL

\* RevokedKeyRefused in every state: a call that begins after the revocation
\* is refused, whatever else is in flight.
THEOREM RevocationTakesEffect == Spec => []RevokedKeyRefused
BY InvAlways, InvImplies, PTL
=============================================================================
