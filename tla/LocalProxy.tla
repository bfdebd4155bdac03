----------------------------- MODULE LocalProxy -----------------------------
(***************************************************************************)
(* Concurrency of the local proxy (local_proxy.rs, proxy_handler): a       *)
(* metered request takes one of its key's slots or is turned away, waits   *)
(* first come first served for a slot of the shared upstream capacity,     *)
(* tries the upstreams of its route in order, and streams the answer.  The *)
(* slots travel with the response body: they come back when the body ends, *)
(* when the handler returns early, or when the client goes away.           *)
(***************************************************************************)
EXTENDS Naturals, Sequences, SequencesExt, FiniteSets

CONSTANTS
  Clients,            \* connections, each with one request at a time
  Keys,               \* API keys
  Members,            \* the keys labelled "member:..."
  KeyOf,              \* KeyOf[c]: the key client c presents
  Routes,             \* numbers of upstreams that a route may have
  MaxPerKey,          \* max_concurrent_per_key
  MemberConcurrent,   \* MemberKeyConfig::max_concurrent
  MaxUpstream         \* max_concurrent_upstream

ASSUME ConstantsAssumption ==
  /\ Members \subseteq Keys
  /\ KeyOf \in [Clients -> Keys]
  /\ Routes \subseteq Nat
  /\ MaxPerKey \in Nat \ {0}
  /\ MemberConcurrent \in Nat
  /\ MaxUpstream \in Nat \ {0}

VARIABLES
  pc,         \* where the request of client c stands in proxy_handler
  route,      \* how many upstreams its route has
  attempt,    \* the upstream it tries
  keyFree,    \* per_key_slots: free slots of each key
  queue,      \* upstream_slots: the waiters, first come first
  upFree      \* upstream_slots: free slots

slotVars == <<keyFree, queue, upFree>>
vars == <<pc, route, attempt, slotVars>>

\* concurrency_limit_for: clamp(1, max_concurrent_per_key) for members.
Limit(k) ==
  IF k \notin Members THEN MaxPerKey
  ELSE IF MemberConcurrent < 1 THEN 1
  ELSE IF MemberConcurrent > MaxPerKey THEN MaxPerKey
  ELSE MemberConcurrent

Goto(c, from, to) ==
  /\ pc[c] = from
  /\ pc' = [pc EXCEPT ![c] = to]

\* Mutant: an early return keeps the key's slot.
ReleaseNothing(c) == UNCHANGED keyFree

\* The permit of the key's semaphore is dropped.
ReleaseKey(c) == keyFree' = [keyFree EXCEPT ![KeyOf[c]] = @ + 1]

-----------------------------------------------------------------------------
\* try_consume admitted the request; try_key_slot gives it a slot or a 429.
Arrive(c, n) ==
  /\ \/ /\ keyFree[KeyOf[c]] > 0
        /\ Goto(c, "idle", "body")
        /\ keyFree' = [keyFree EXCEPT ![KeyOf[c]] = @ - 1]
        /\ route' = [route EXCEPT ![c] = n]
     \/ /\ keyFree[KeyOf[c]] = 0
        /\ Goto(c, "idle", "idle")
        /\ UNCHANGED <<keyFree, route>>
  /\ UNCHANGED <<attempt, queue, upFree>>

\* Mutant: a waiter of the same key is overtaken.
EnqueueFirst(c) ==
  /\ Goto(c, "body", "queued")
  /\ queue' = <<c>> \o queue
  /\ UNCHANGED <<route, attempt, keyFree, upFree>>

\* The body is read and clamped, and the request waits for capacity.
Enqueue(c) ==
  /\ Goto(c, "body", "queued")
  /\ queue' = Append(queue, c)
  /\ UNCHANGED <<route, attempt, keyFree, upFree>>

\* The body is too large, cannot be read or asks for too much: a 400.
RefuseBody(c) ==
  /\ Goto(c, "body", "idle")
  /\ ReleaseKey(c)
  /\ UNCHANGED <<route, attempt, queue, upFree>>

\* The first waiter gets a free slot.
Acquire(c) ==
  /\ queue # <<>> /\ Head(queue) = c
  /\ upFree > 0
  /\ Goto(c, "queued", "forwarding")
  /\ queue' = Tail(queue)
  /\ upFree' = upFree - 1
  /\ attempt' = [attempt EXCEPT ![c] = 1]
  /\ UNCHANGED <<route, keyFree>>

\* Dropping the acquire future takes the waiter out of the queue.
LeaveQueue(c) ==
  \E i \in DOMAIN queue : queue[i] = c /\ queue' = RemoveAt(queue, i)

\* UPSTREAM_QUEUE_WAIT has passed: a 503.
QueueTimeout(c) ==
  /\ Goto(c, "queued", "idle")
  /\ LeaveQueue(c)
  /\ ReleaseKey(c)
  /\ UNCHANGED <<route, attempt, upFree>>

\* Mutant: the upstream permit is not part of the response body.
ReleaseKeyOnly(c) == ReleaseKey(c) /\ UNCHANGED upFree

\* Both permits are dropped.
ReleaseBoth(c) == ReleaseKey(c) /\ upFree' = upFree + 1

\* An upstream answered with anything but a 5xx: the answer is streamed.
Answer(c) ==
  /\ attempt[c] <= route[c]
  /\ Goto(c, "forwarding", "streaming")
  /\ UNCHANGED <<route, attempt, slotVars>>

\* An upstream failed or answered with a 5xx: the next one is tried.
Failover(c) ==
  /\ pc[c] = "forwarding"
  /\ attempt[c] <= route[c]
  /\ attempt' = [attempt EXCEPT ![c] = @ + 1]
  /\ UNCHANGED <<pc, route, slotVars>>

\* No upstream is left, or the route has none: a 502 or 503.
GiveUp(c) ==
  /\ attempt[c] > route[c]
  /\ Goto(c, "forwarding", "idle")
  /\ ReleaseBoth(c)
  /\ UNCHANGED <<route, attempt, queue>>

\* The body has been streamed, or the upstream connection broke.
Finish(c) ==
  /\ Goto(c, "streaming", "idle")
  /\ ReleaseBoth(c)
  /\ UNCHANGED <<route, attempt, queue>>

\* The client goes away: the handler's future or the body is dropped.
Disconnect(c) ==
  /\ \/ Goto(c, "body", "idle") /\ ReleaseKey(c) /\ UNCHANGED <<queue, upFree>>
     \/ Goto(c, "queued", "idle") /\ ReleaseKey(c) /\ LeaveQueue(c) /\ UNCHANGED upFree
     \/ Goto(c, "forwarding", "idle") /\ ReleaseBoth(c) /\ UNCHANGED queue
     \/ Goto(c, "streaming", "idle") /\ ReleaseBoth(c) /\ UNCHANGED queue
  /\ UNCHANGED <<route, attempt>>

-----------------------------------------------------------------------------
Init ==
  /\ pc = [c \in Clients |-> "idle"]
  /\ route = [c \in Clients |-> 0]
  /\ attempt = [c \in Clients |-> 0]
  /\ keyFree = [k \in Keys |-> Limit(k)]
  /\ queue = <<>>
  /\ upFree = MaxUpstream

\* What the handler does by itself once it has capacity.
Proceed(c) ==
  \/ Answer(c)
  \/ Failover(c)
  \/ GiveUp(c)
  \/ Finish(c)

Next ==
  \E c \in Clients :
    \/ \E n \in Routes : Arrive(c, n)
    \/ Enqueue(c)
    \/ RefuseBody(c)
    \/ Acquire(c)
    \/ QueueTimeout(c)
    \/ Proceed(c)
    \/ Disconnect(c)

Spec == Init /\ [][Next]_vars

\* The runtime wakes the waiter it hands a slot to, and the 300 s timeout of
\* the HTTP client ends every upstream call.  That a streamed body ends is an
\* assumption about the clients: they read it or go away.
Fairness ==
  \A c \in Clients : WF_vars(Acquire(c)) /\ WF_vars(Proceed(c))

FairSpec == Spec /\ Fairness

-----------------------------------------------------------------------------
(* Properties.                                                             *)

\* Slots, queue and control have the shape the code gives them; no
\* semaphore has more permits than it was made with.
TypeOK ==
  /\ pc \in [Clients -> {"idle", "body", "queued", "forwarding", "streaming"}]
  /\ route \in [Clients -> Routes \cup {0}]
  /\ attempt \in [Clients -> Nat]
  /\ DOMAIN keyFree = Keys
  /\ \A k \in Keys : keyFree[k] \in 0..Limit(k)
  /\ queue \in Seq(Clients)
  /\ upFree \in 0..MaxUpstream

InFlight(k) == {c \in Clients : KeyOf[c] = k /\ pc[c] # "idle"}
Upstream == {c \in Clients : pc[c] \in {"forwarding", "streaming"}}

\* PermitsAccounted: on every path out of the handler, early returns,
\* timeouts and disconnects included, each slot is given back exactly once;
\* so a key has at most its limit in flight and the upstreams at most their
\* capacity, whatever sequence of requests came before.
PermitsAccounted ==
  /\ \A k \in Keys : keyFree[k] + Cardinality(InFlight(k)) = Limit(k)
  /\ upFree + Cardinality(Upstream) = MaxUpstream

\* The waiters in front of client c.
Ahead(c, q) == {d \in Clients : \E i, j \in DOMAIN q : q[i] = d /\ q[j] = c /\ i < j}

\* NoStarvation: the waiters of one key in front of another request are at
\* most that key's limit, and all waiters are in the queue once
\* (DEFAULT_MAX_CONCURRENT_UPSTREAM: "one key cannot starve the others").
NoStarvation ==
  /\ IsInjective(queue)
  /\ ToSet(queue) = {c \in Clients : pc[c] = "queued"}
  /\ \A c \in ToSet(queue), k \in Keys :
       Cardinality({d \in Ahead(c, queue) : KeyOf[d] = k}) <= Limit(k)

\* PermitsInv: slots and queue are accounted for on every path through
\* proxy_handler.
PermitsInv == TypeOK /\ PermitsAccounted /\ NoStarvation

\* NoOvertaking: nobody gets in front of a waiting request ("Waiters queue
\* first-come first-served").
NoOvertaking ==
  [][\A c \in Clients :
       pc[c] = "queued" /\ pc'[c] = "queued" => Ahead(c, queue') \subseteq Ahead(c, queue)]_vars

\* WaitEnds: a waiting request gets capacity, also if neither it nor those
\* in front of it give up.
WaitEnds == \A c \in Clients : (pc[c] = "queued") ~> (pc[c] # "queued")

\* CapacityReturns: a request that has upstream capacity gives it back.
CapacityReturns ==
  \A c \in Clients : (pc[c] = "forwarding") ~> (pc[c] = "idle")

\* RequestsMoveOn: no request of proxy_handler waits or works for ever.
RequestsMoveOn == WaitEnds /\ CapacityReturns
=============================================================================
