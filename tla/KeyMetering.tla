---------------------------- MODULE KeyMetering ----------------------------
(***************************************************************************)
(* Metering of the local-proxy keys: PersistentKeyStore::try_consume and   *)
(* revoke (keystore.rs), called by requests that run in parallel.  A call  *)
(* reads the record without a lock, reads the clock before it takes the    *)
(* rate mutex, and charges the daily counters of the key and of the shared *)
(* member pool under the key's lock and the pool's lock.  The rate windows *)
(* are in memory; records and counters are rows of the store, which a stop *)
(* of the process does not touch.                                          *)
(***************************************************************************)
EXTENDS Naturals, FiniteSets

CONSTANTS
  Keys,           \* keys with a record
  Members,        \* the keys labelled "member:..."
  NumRequests,    \* calls of try_consume
  KeyOf,          \* KeyOf[r]: the key that request r presents
  Rps,            \* Rps[k]: quota_rps (0: no rate limit)
  Daily,          \* Daily[k]: daily_quota (0: no daily quota)
  PoolDaily,      \* member_pool_daily (0: no pool)
  Revocable,      \* bound: keys that the operator may revoke
  LastSecond,     \* bound: last second of a behaviour
  SecondsPerDay,  \* bound: seconds in a day of the model
  MaxStops        \* bound: stops of the process

Requests == 1..NumRequests
Seconds == 0..LastSecond
Days == 0..(LastSecond \div SecondsPerDay)

ASSUME ConstantsAssumption ==
  /\ Members \subseteq Keys
  /\ Revocable \subseteq Keys
  /\ NumRequests \in Nat
  /\ KeyOf \in [Requests -> Keys]
  /\ Rps \in [Keys -> Nat]
  /\ Daily \in [Keys -> Nat]
  /\ PoolDaily \in Nat
  /\ LastSecond \in Nat
  /\ SecondsPerDay \in Nat \ {0}
  /\ MaxStops \in Nat

VARIABLES
  db,        \* the rows: revoked records, daily counters, the pool's
  clock,     \* unix seconds
  stops,     \* stops of the process so far
  pc,        \* where request r stands in try_consume
  stamp,     \* the second that request r read
  day,       \* the day that request r charges
  cur,       \* the key's counter as request r read it
  window,    \* rate: key -> [start, count]
  keyLock,   \* lock_for(hash): the request that holds it, or 0
  passed,    \* history: (key, second) -> requests the rate limit let pass
  admitted,  \* history: <<r, d>> for the requests answered with Ok on day d
  barred     \* history: requests that came after their key was revoked

callVars == <<pc, stamp, day, cur, keyLock>>
vars == <<db, clock, stops, callVars, window, passed, admitted, barred>>

Today == clock \div SecondsPerDay

Goto(r, from, to) ==
  /\ pc[r] = from
  /\ pc' = [pc EXCEPT ![r] = to]

-----------------------------------------------------------------------------
(* try_consume.                                                            *)

\* Only a key with a rate limit has its clock and window looked at.
AfterRecord(r) == IF Rps[KeyOf[r]] > 0 THEN "known" ELSE "metering"

\* Mutant: the revoked flag of the record is not looked at.
ReadRecordOnly(r) ==
  /\ Goto(r, "new", AfterRecord(r))
  /\ UNCHANGED <<db, clock, stops, stamp, day, cur, keyLock, window, passed,
                 admitted, barred>>

\* The record is read without a lock; a revoked key is refused.
ReadRecord(r) ==
  /\ \/ KeyOf[r] \in db.revoked /\ Goto(r, "new", "refused")
     \/ KeyOf[r] \notin db.revoked /\ Goto(r, "new", AfterRecord(r))
  /\ UNCHANGED <<db, clock, stops, stamp, day, cur, keyLock, window, passed,
                 admitted, barred>>

\* now_secs(), before the rate mutex is taken.
ReadClock(r) ==
  /\ Goto(r, "known", "stamped")
  /\ stamp' = [stamp EXCEPT ![r] = clock]
  /\ UNCHANGED <<db, clock, stops, day, cur, keyLock, window, passed, admitted, barred>>

\* The window of key k for a request stamped s: it starts over when it is
\* not the stamp's.
WindowAt(k, s) ==
  IF window[k].start = s THEN window[k] ELSE [start |-> s, count |-> 0]

\* The rate window, under its mutex.
CheckRate(r) ==
  LET k == KeyOf[r]
      w == WindowAt(k, stamp[r])
  IN /\ \/ /\ w.count >= Rps[k]
           /\ Goto(r, "stamped", "refused")
           /\ window' = [window EXCEPT ![k] = w]
           /\ UNCHANGED passed
        \/ /\ w.count < Rps[k]
           /\ Goto(r, "stamped", "metering")
           /\ window' = [window EXCEPT ![k] = [w EXCEPT !.count = @ + 1]]
           /\ passed' = [passed EXCEPT ![<<k, stamp[r]>>] = @ + 1]
     /\ UNCHANGED <<db, clock, stops, stamp, day, cur, keyLock, admitted, barred>>

PoolCap(k) == IF k \in Members THEN PoolDaily ELSE 0

Admit(r, d) == admitted' = admitted \cup {<<r, d>>}

\* Neither a daily quota nor a pool: nothing is charged.
Unmetered(r) ==
  /\ Daily[KeyOf[r]] = 0 /\ PoolCap(KeyOf[r]) = 0
  /\ Goto(r, "metering", "ok")
  /\ Admit(r, Today)
  /\ UNCHANGED <<db, clock, stops, stamp, day, cur, keyLock, window, passed, barred>>

\* Mutant: the pool is compared one too late.
UsedUpLate(k) ==
  \/ Daily[k] > 0 /\ db.used[<<k, Today>>] >= Daily[k]
  \/ PoolCap(k) > 0 /\ db.pool[Today] > PoolCap(k)

\* Is one of the limits of key k used up today?
UsedUp(k) ==
  \/ Daily[k] > 0 /\ db.used[<<k, Today>>] >= Daily[k]
  \/ PoolCap(k) > 0 /\ db.pool[Today] >= PoolCap(k)

\* Mutant: the counters are checked and charged without the key's lock.
ChargePoolUnlocked(r) ==
  LET k == KeyOf[r] IN
  /\ Daily[k] > 0 \/ PoolCap(k) > 0
  /\ ~UsedUp(k)
  /\ Goto(r, "metering", "charging")
  /\ day' = [day EXCEPT ![r] = Today]
  /\ cur' = [cur EXCEPT ![r] = db.used[<<k, Today>>]]
  /\ IF PoolCap(k) > 0
     THEN db' = [db EXCEPT !.pool[Today] = @ + 1]
     ELSE UNCHANGED db
  /\ UNCHANGED <<keyLock, clock, stops, stamp, window, passed, admitted, barred>>

\* The key's lock, then the key's counter, then the pool's check and charge
\* under the pool lock.  A refusal by either charges neither.
ChargePool(r) ==
  LET k == KeyOf[r] IN
  /\ Daily[k] > 0 \/ PoolCap(k) > 0
  /\ keyLock[k] = 0
  /\ ~UsedUp(k)
  /\ Goto(r, "metering", "charging")
  /\ keyLock' = [keyLock EXCEPT ![k] = r]
  /\ day' = [day EXCEPT ![r] = Today]
  /\ cur' = [cur EXCEPT ![r] = db.used[<<k, Today>>]]
  /\ IF PoolCap(k) > 0
     THEN db' = [db EXCEPT !.pool[Today] = @ + 1]
     ELSE UNCHANGED db
  /\ UNCHANGED <<clock, stops, stamp, window, passed, admitted, barred>>

Refuse(r) ==
  /\ keyLock[KeyOf[r]] = 0
  /\ UsedUp(KeyOf[r])
  /\ Goto(r, "metering", "refused")
  /\ UNCHANGED <<db, clock, stops, stamp, day, cur, keyLock, window, passed,
                 admitted, barred>>

\* The key's counter, and Ok.
ChargeKey(r) ==
  LET k == KeyOf[r] IN
  /\ Goto(r, "charging", "ok")
  /\ keyLock' = [keyLock EXCEPT ![k] = 0]
  /\ IF Daily[k] > 0
     THEN db' = [db EXCEPT !.used[<<k, day[r]>>] = cur[r] + 1]
     ELSE UNCHANGED db
  /\ Admit(r, day[r])
  /\ UNCHANGED <<clock, stops, stamp, day, cur, window, passed, barred>>

\* A store error is a 500.  When the key's counter cannot be written, the
\* pool stays charged.
StoreError(r) ==
  /\ pc[r] \in {"new", "metering", "charging"}
  /\ pc[r] = "metering" => keyLock[KeyOf[r]] = 0
  /\ Goto(r, pc[r], "refused")
  /\ keyLock' = IF pc[r] = "charging" THEN [keyLock EXCEPT ![KeyOf[r]] = 0] ELSE keyLock
  /\ UNCHANGED <<db, clock, stops, stamp, day, cur, window, passed, admitted, barred>>

-----------------------------------------------------------------------------
(* The operator, time and failures.                                        *)

\* revoke of a record: no lock.
Revoke(k) ==
  /\ k \notin db.revoked
  /\ db' = [db EXCEPT !.revoked = @ \cup {k}]
  /\ barred' = barred \cup {r \in Requests : KeyOf[r] = k /\ pc[r] = "new"}
  /\ UNCHANGED <<clock, stops, callVars, window, passed, admitted>>

Tick ==
  /\ clock + 1 \in Seconds
  /\ clock' = clock + 1
  /\ UNCHANGED <<db, stops, callVars, window, passed, admitted, barred>>

NoWindow == [start |-> 0, count |-> 0]

\* The process stops and is started again: calls, locks and rate windows
\* are gone, the rows stay.
Stop ==
  /\ stops < MaxStops
  /\ stops' = stops + 1
  /\ pc' = [r \in Requests |->
              IF pc[r] \in {"new", "ok", "refused"} THEN pc[r] ELSE "refused"]
  /\ keyLock' = [k \in Keys |-> 0]
  /\ window' = [k \in Keys |-> NoWindow]
  /\ UNCHANGED <<db, clock, stamp, day, cur, passed, admitted, barred>>

-----------------------------------------------------------------------------
Store0 ==
  [revoked |-> {},
   used    |-> [x \in Keys \X Days |-> 0],
   pool    |-> [d \in Days |-> 0]]

Init ==
  /\ db = Store0
  /\ clock = 0
  /\ stops = 0
  /\ pc = [r \in Requests |-> "new"]
  /\ stamp = [r \in Requests |-> 0]
  /\ day = [r \in Requests |-> 0]
  /\ cur = [r \in Requests |-> 0]
  /\ window = [k \in Keys |-> NoWindow]
  /\ keyLock = [k \in Keys |-> 0]
  /\ passed = [x \in Keys \X Seconds |-> 0]
  /\ admitted = {}
  /\ barred = {}

Consume(r) ==
  \/ ReadRecord(r)
  \/ ReadClock(r)
  \/ CheckRate(r)
  \/ Unmetered(r)
  \/ Refuse(r)
  \/ ChargePool(r)
  \/ ChargeKey(r)
  \/ StoreError(r)

Next ==
  \/ \E r \in Requests : Consume(r)
  \/ \E k \in Revocable : Revoke(k)
  \/ Tick
  \/ Stop

Spec == Init /\ [][Next]_vars

-----------------------------------------------------------------------------
(* Properties.                                                             *)

Store == [revoked : SUBSET Keys, used : [Keys \X Days -> Nat], pool : [Days -> Nat]]

\* The rows and the windows have the shape the code gives them; a rate
\* window never counts beyond its limit.
TypeOK ==
  /\ db \in Store
  /\ clock \in Seconds
  /\ stops \in 0..MaxStops
  /\ pc \in [Requests -> {"new", "known", "stamped", "metering", "charging", "ok", "refused"}]
  /\ stamp \in [Requests -> Seconds]
  /\ day \in [Requests -> Days]
  /\ cur \in [Requests -> Nat]
  /\ keyLock \in [Keys -> Requests \cup {0}]
  /\ DOMAIN window = Keys
  /\ \A k \in Keys : window[k] \in [start : Seconds, count : 0..Rps[k]]
  /\ passed \in [Keys \X Seconds -> Nat]
  /\ admitted \subseteq Requests \X Days
  /\ barred \subseteq Requests

\* The requests of key k, and of all member keys, that were admitted on day d.
AdmittedOf(k, d) == {a \in admitted : KeyOf[a[1]] = k /\ a[2] = d}
AdmittedMembers(d) == {a \in admitted : KeyOf[a[1]] \in Members /\ a[2] = d}

\* DailyQuotaHolds: parallel requests, the change of the day, store errors
\* and restarts of the process do not let a key have more than its quota of
\* requests admitted on one day (KeyRecord::daily_quota).
DailyQuotaHolds ==
  \A k \in Keys, d \in Days : Daily[k] > 0 => Cardinality(AdmittedOf(k, d)) <= Daily[k]

\* MemberPoolHolds: the members together have at most the pool's requests
\* admitted on one day, although each charges under its own lock.
MemberPoolHolds ==
  PoolDaily > 0 => \A d \in Days : Cardinality(AdmittedMembers(d)) <= PoolDaily

\* ChargedWhenAdmitted: a key is charged exactly for the requests that were
\* admitted, and the pool for no fewer (try_consume: "a pool refusal charges
\* neither counter").
ChargedWhenAdmitted ==
  \A d \in Days :
    /\ \A k \in Keys : Daily[k] > 0 => db.used[<<k, d>>] = Cardinality(AdmittedOf(k, d))
    /\ PoolDaily > 0 => Cardinality(AdmittedMembers(d)) <= db.pool[d]

\* MeteringInv: the daily quota holds, and it holds because the counters
\* are what was admitted (try_consume).
MeteringInv == TypeOK /\ DailyQuotaHolds /\ ChargedWhenAdmitted

\* RateLimitHolds: at most quota_rps requests of one second pass (KeyRecord:
\* "Max requests/second for this key").
RateLimitHolds ==
  \A k \in Keys, s \in Seconds : Rps[k] > 0 => passed[<<k, s>>] <= Rps[k]

\* RevokedKeyRefused: a request that comes after its key was revoked is
\* never admitted (revoke: "Takes effect on the next request").
RevokedKeyRefused == \A r \in barred : pc[r] # "ok"
=============================================================================
