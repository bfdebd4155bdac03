----------------------------- MODULE MemberKeys -----------------------------
(***************************************************************************)
(* POST /auth/member-key (member_keys.rs): a member shows the token of the *)
(* identity provider and gets a fresh proxy key; the previous one is       *)
(* retired.  Requests run in parallel.  The limiter lives in memory under  *)
(* one mutex; PersistentKeyStore::rotate_member_key (keystore.rs) makes    *)
(* three writes under the account's lock, of which only the last is        *)
(* synced.  The process may be killed and the machine may lose power       *)
(* between any two of them.                                                *)
(***************************************************************************)
EXTENDS Naturals, FiniteSets, RocksStore

CONSTANTS
  Accounts,        \* subject hashes of members
  Ips,             \* client address buckets, the shared "unknown" included
  NumRequests,     \* calls of the handler; request r mints key r
  MinInterval,     \* account_min_interval, in seconds
  DailyMax,        \* account_daily_max
  HourlyMax,       \* ip_hourly_max
  PruneAt,         \* LIMITER_PRUNE_AT
  SecondsPerHour, HoursPerDay,   \* bounds: a short calendar
  LastSecond,      \* bound: last second of a behaviour
  MaxStops         \* bound: kills and power losses

Requests == 1..NumRequests
NoToken == 0
NoAccount == "none"

\* The limits are those of MemberKeyConfig::default, which the environment
\* does not change.  A limit of 0 would not hold: the first issuance of a
\* window is not compared with it.
MemberConstantsOK ==
  /\ NumRequests \in Nat
  /\ NoAccount \notin Accounts
  /\ MinInterval \in Nat /\ DailyMax \in Nat \ {0} /\ HourlyMax \in Nat \ {0}
  /\ PruneAt \in Nat
  /\ SecondsPerHour \in Nat \ {0} /\ HoursPerDay \in Nat \ {0}
  /\ LastSecond \in Nat /\ MaxStops \in Nat

ASSUME MemberAssumption == MemberConstantsOK

VARIABLES
  now,       \* unix seconds
  up,        \* whether the gateway runs
  stops,     \* kills and power losses so far
  accounts,  \* limiter: account -> [last, day, count]
  ips,       \* limiter: address -> [hour, count]
  req,       \* where a request stands: pc, ip, account, previous key
  lock,      \* lock_for(member_map_key): the request that holds it, or NoKey
  handed,    \* history: keys whose token went out to their member
  grants     \* history: what the limiter let pass since the gateway started

limiterVars == <<accounts, ips>>
memberVars == <<storeVars, now, up, stops, limiterVars, req, lock, handed, grants>>

HourAt(t) == t \div SecondsPerHour
DayAt(t) == HourAt(t) \div HoursPerDay

NewRequest == [pc |-> "new", ip |-> "none", account |-> NoAccount, previous |-> NoToken]

\* The rows of the store: the record of every key, and the key each account
\* is mapped to.  Both start empty.
EmptyStore ==
  [record |-> [k \in Requests |-> "none"],
   map    |-> [a \in Accounts |-> NoToken]]

Goto(r, from, state) ==
  /\ up
  /\ req[r].pc = from
  /\ req' = [req EXCEPT ![r] = state]

At(r, pc) == [req[r] EXCEPT !.pc = pc]
Ended(r, outcome) == [NewRequest EXCEPT !.pc = outcome, !.account = req[r].account]
Over(r) == req[r].pc \in {"issued", "refused", "gone"}

-----------------------------------------------------------------------------
(* The issuance limiter.                                                   *)

IpBlocked(ip) ==
  /\ ip \in DOMAIN ips
  /\ ips[ip].hour = HourAt(now)
  /\ ips[ip].count >= HourlyMax

AccountBlocked(a) ==
  /\ a \in DOMAIN accounts
  /\ \/ now - accounts[a].last < MinInterval
     \/ accounts[a].day = DayAt(now) /\ accounts[a].count >= DailyMax

\* One more issuance in the window, in a new window if the old one is over.
AccountCharged(a) ==
  LET old == a \in DOMAIN accounts /\ accounts[a].day = DayAt(now)
      w == [last |-> now, day |-> DayAt(now),
            count |-> IF old THEN accounts[a].count + 1 ELSE 1] IN
  [b \in DOMAIN accounts \cup {a} |-> IF b = a THEN w ELSE accounts[b]]

IpCharged(ip) ==
  LET old == ip \in DOMAIN ips /\ ips[ip].hour = HourAt(now)
      w == [hour |-> HourAt(now), count |-> IF old THEN ips[ip].count + 1 ELSE 1] IN
  [i \in DOMAIN ips \cup {ip} |-> IF i = ip THEN w ELSE ips[i]]

\* Mutant: forgets that the minimum interval outlives the day.
AccountWindowLiveToday(w) == w.day = DayAt(now)

\* What prune retains.
AccountWindowLive(w) == w.day = DayAt(now) \/ now - w.last < MinInterval

IpWindowLive(w) == w.hour = HourAt(now)

PrunedAccounts(m) ==
  IF Cardinality(DOMAIN m) > PruneAt
  THEN [a \in {b \in DOMAIN m : AccountWindowLive(m[b])} |-> m[a]]
  ELSE m

PrunedIps(m) ==
  IF Cardinality(DOMAIN m) > PruneAt
  THEN [i \in {j \in DOMAIN m : IpWindowLive(m[j])} |-> m[i]]
  ELSE m

-----------------------------------------------------------------------------
(* The handler.                                                            *)

\* The cheap check before the identity provider is asked.  Without a bearer
\* token, or with the feature off, the answer is 401 or 404.  Requests are
\* numbered as they arrive.
Receive(r, ip) ==
  /\ \A q \in 1..(r - 1) : req[q].pc # "new"
  /\ \/ Goto(r, "new", Ended(r, "refused"))
     \/ /\ ~IpBlocked(ip)
        /\ Goto(r, "new", [At(r, "asking") EXCEPT !.ip = ip])
  /\ UNCHANGED <<storeVars, now, up, stops, limiterVars, lock, handed, grants>>

\* verify_with_idp: the provider names the account, or rejects the token,
\* or does not answer in time or properly.
Verify(r) ==
  /\ \/ Goto(r, "asking", Ended(r, "refused"))
     \/ \E a \in Accounts : Goto(r, "asking", [At(r, "reserving") EXCEPT !.account = a])
  /\ UNCHANGED <<storeVars, now, up, stops, limiterVars, lock, handed, grants>>

\* reserve checks the address again.
Limited(r) == IpBlocked(req[r].ip) \/ AccountBlocked(req[r].account)

\* IssuanceLimiter::reserve, under the limiter's mutex: 429, or both windows
\* are charged and the maps pruned.
Reserve(r) ==
  LET a == req[r].account
      ip == req[r].ip IN
  /\ req[r].pc = "reserving"
  /\ \/ /\ Limited(r)
        /\ Goto(r, "reserving", Ended(r, "refused"))
        /\ UNCHANGED <<limiterVars, grants>>
     \/ /\ ~Limited(r)
        /\ Goto(r, "reserving", At(r, "locking"))
        /\ accounts' = PrunedAccounts(AccountCharged(a))
        /\ ips' = PrunedIps(IpCharged(ip))
        /\ grants' = grants \cup {[request |-> r, account |-> a, ip |-> ip, at |-> now]}
  /\ UNCHANGED <<storeVars, now, up, stops, lock, handed>>

-----------------------------------------------------------------------------
(* rotate_member_key.                                                      *)

\* Mutant: two issuances for one account may run at a time.
ReadMappingUnlocked(r) ==
  /\ req[r].pc = "locking"
  /\ Goto(r, "locking", [At(r, "creating") EXCEPT !.previous = db.map[req[r].account]])
  /\ UNCHANGED <<storeVars, now, up, stops, limiterVars, lock, handed, grants>>

\* Take the account's lock and read which key it is mapped to.
ReadMapping(r) ==
  LET a == req[r].account IN
  /\ req[r].pc = "locking"
  /\ lock[a] = NoToken
  /\ lock' = [lock EXCEPT ![a] = r]
  /\ Goto(r, "locking", [At(r, "creating") EXCEPT !.previous = db.map[a]])
  /\ UNCHANGED <<storeVars, now, up, stops, limiterVars, handed, grants>>

\* create_key: an unsynced record.
CreateKey(r) ==
  /\ Goto(r, "creating", At(r, "revoking"))
  /\ WriteUnsynced([db EXCEPT !.record[r] = "live"])
  /\ UNCHANGED <<now, up, stops, limiterVars, lock, handed, grants>>

\* revoke_hash of the previous key, unsynced; it is fine if its record is
\* not there.
RevokeOld(r) ==
  LET k == req[r].previous IN
  /\ Goto(r, "revoking", At(r, "mapping"))
  /\ IF k # NoToken /\ db.record[k] # "none"
     THEN WriteUnsynced([db EXCEPT !.record[k] = "revoked"])
     ELSE UNCHANGED storeVars
  /\ UNCHANGED <<now, up, stops, limiterVars, lock, handed, grants>>

\* Mutant: the mapping is written like the records.
PutMappingUnsynced(r) ==
  LET a == req[r].account IN
  /\ Goto(r, "mapping", Ended(r, "issued"))
  /\ WriteUnsynced([db EXCEPT !.map[a] = r])
  /\ lock' = [lock EXCEPT ![a] = NoToken]
  /\ handed' = handed \cup {r}
  /\ UNCHANGED <<now, up, stops, limiterVars, grants>>

\* The mapping, synced; then the lock is released and the token goes out.
PutMapping(r) ==
  LET a == req[r].account IN
  /\ Goto(r, "mapping", Ended(r, "issued"))
  /\ WriteSynced([db EXCEPT !.map[a] = r])
  /\ lock' = [lock EXCEPT ![a] = NoToken]
  /\ handed' = handed \cup {r}
  /\ UNCHANGED <<now, up, stops, limiterVars, grants>>

\* A read or a write of the store fails: 500.  What was written stays, and
\* so does the limiter's charge.
StoreError(r) ==
  /\ req[r].pc \in {"creating", "revoking", "mapping"}
  /\ Goto(r, req[r].pc, Ended(r, "refused"))
  /\ lock' = [lock EXCEPT ![req[r].account] = NoToken]
  /\ UNCHANGED <<storeVars, now, up, stops, limiterVars, handed, grants>>

-----------------------------------------------------------------------------
(* The environment.                                                        *)

Tick ==
  /\ now < LastSecond
  /\ now' = now + 1
  /\ UNCHANGED <<storeVars, up, stops, limiterVars, req, lock, handed, grants>>

\* The process ends: requests in flight and the limiter's windows are gone.
Stop ==
  /\ up
  /\ stops < MaxStops
  /\ up' = FALSE
  /\ stops' = stops + 1
  /\ accounts' = <<>>
  /\ ips' = <<>>
  /\ grants' = {}
  /\ lock' = [a \in Accounts |-> NoToken]
  /\ req' = [r \in Requests |->
               IF Over(r) \/ req[r].pc = "new" THEN req[r] ELSE Ended(r, "gone")]
  /\ UNCHANGED <<now, handed>>

\* Killed, or down with the machine.
Kill == Stop /\ UNCHANGED storeVars
PowerLoss == Stop /\ LosePower

Restart ==
  /\ ~up
  /\ up' = TRUE
  /\ UNCHANGED <<storeVars, now, stops, limiterVars, req, lock, handed, grants>>

\* The admin command line revokes a key by its token; it needs the store to
\* itself.  The write is not synced.
AdminRevoke(k) ==
  /\ ~up
  /\ k \in handed
  /\ db.record[k] = "live"
  /\ WriteUnsynced([db EXCEPT !.record[k] = "revoked"])
  /\ UNCHANGED <<now, up, stops, limiterVars, req, lock, handed, grants>>

-----------------------------------------------------------------------------
MemberInit ==
  /\ db = EmptyStore
  /\ survivors = {db}
  /\ now = 0
  /\ up = TRUE
  /\ stops = 0
  /\ accounts = <<>>
  /\ ips = <<>>
  /\ req = [r \in Requests |-> NewRequest]
  /\ lock = [a \in Accounts |-> NoToken]
  /\ handed = {}
  /\ grants = {}

Step(r) ==
  \/ Verify(r) \/ Reserve(r) \/ ReadMapping(r) \/ CreateKey(r) \/ RevokeOld(r)
  \/ PutMapping(r) \/ StoreError(r)

MemberNext ==
  \/ \E r \in Requests : Step(r) \/ \E ip \in Ips : Receive(r, ip)
  \/ Tick \/ Kill \/ PowerLoss \/ Restart
  \/ \E k \in Requests : AdminRevoke(k)

MemberSpec == MemberInit /\ [][MemberNext]_memberVars

-----------------------------------------------------------------------------
(* Properties.                                                             *)

KeyStores ==
  [record : [Requests -> {"none", "live", "revoked"}],
   map : [Accounts -> Requests \cup {NoToken}]]

MemberTypeOK ==
  /\ survivors \subseteq KeyStores
  /\ db \in survivors
  /\ now \in 0..LastSecond
  /\ up \in BOOLEAN
  /\ stops \in 0..MaxStops
  /\ DOMAIN accounts \subseteq Accounts
  /\ \A a \in DOMAIN accounts : accounts[a] \in [last : 0..now, day : 0..DayAt(now), count : 1..DailyMax]
  /\ DOMAIN ips \subseteq Ips
  /\ \A i \in DOMAIN ips : ips[i] \in [hour : 0..HourAt(now), count : 1..HourlyMax]
  /\ req \in [Requests -> [pc : {"new", "asking", "reserving", "locking", "creating",
                                 "revoking", "mapping", "issued", "refused", "gone"},
                           ip : Ips \cup {"none"}, account : Accounts \cup {NoAccount},
                           previous : Requests \cup {NoToken}]]
  /\ lock \in [Accounts -> Requests \cup {NoToken}]
  /\ handed \subseteq Requests

\* NoStrandedKey: every token that went out and still works is the one its
\* account is mapped to, so an account holds at most one and the next
\* issuance retires it (rotate_member_key: "stranding a working key nobody
\* can retire").  So it is now and after any power loss.
NoStrandedKey ==
  \A s \in survivors, k \in handed :
    s.record[k] = "live" => s.map[req[k].account] = k

\* RetiredForGood: once a member has been handed a newer key, no crash,
\* power loss or race brings an older one back to life.
RetiredForGood ==
  [][\A k \in handed :
       db.record[k] # "live" /\ db.map[req[k].account] # k => db'.record[k] # "live"]_memberVars

\* The grants of an account on a day and of an address in an hour.
OnDay(gs, a, d) == {g \in gs : g.account = a /\ DayAt(g.at) = d}
InHour(gs, i, h) == {g \in gs : g.ip = i /\ HourAt(g.at) = h}

\* AccountLimitsHold: since the gateway started, an account was let pass at
\* most account_daily_max times a day and never twice within the minimum
\* interval, however requests interleave and although windows are pruned.
AccountLimitsHold ==
  \A g \in grants :
    /\ \A h \in grants \ {g} :
         g.account = h.account => g.at - h.at >= MinInterval \/ h.at - g.at >= MinInterval
    /\ Cardinality(OnDay(grants, g.account, DayAt(g.at))) <= DailyMax

\* IpLimitHolds: nor was an address let pass more than ip_hourly_max times an
\* hour, although the check that spares the identity provider is made
\* before the wait for it.
IpLimitHolds ==
  \A g \in grants :
    Cardinality(InHour(grants, g.ip, HourAt(g.at))) <= HourlyMax

\* LockIsOwned: the lock of an account belongs to a call that is rotating
\* its key, and such a call holds it: no error or stop leaves it behind, and
\* two issuances never write for one account at a time.
LockIsOwned ==
  \A a \in Accounts, r \in Requests :
    lock[a] = r <=> /\ req[r].pc \in {"creating", "revoking", "mapping"}
                    /\ req[r].account = a

\* LimiterInv: what issue_member_key's limiter and the locks of
\* rotate_member_key guarantee together, with the types.
LimiterInv == MemberTypeOK /\ AccountLimitsHold /\ IpLimitHolds /\ LockIsOwned
=============================================================================
