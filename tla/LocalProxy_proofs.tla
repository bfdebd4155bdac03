-------------------------- MODULE LocalProxy_proofs --------------------------
(***************************************************************************)
(* Proofs about the permits and the queue of the local proxy, for any      *)
(* number of clients, keys and upstreams, and any limits, and, at the end, *)
(* about the catalogue of models, whose refresh lock is such a queue too.  *)
(***************************************************************************)
EXTENDS LocalProxy, ModelCatalogue, FiniteSetTheorems, SequenceTheorems, WellFoundedInduction, TLAPS

\* What happens to a sequence when one element is taken out.
LEMMA RemoveAtProperties ==
  ASSUME NEW S, NEW q \in Seq(S), NEW i \in 1..Len(q)
  PROVE  /\ RemoveAt(q, i) \in Seq(S)
         /\ Len(RemoveAt(q, i)) = Len(q) - 1
         /\ \A j \in 1..(Len(q) - 1) :
              RemoveAt(q, i)[j] = IF j < i THEN q[j] ELSE q[j + 1]
<1> DEFINE a == SubSeq(q, 1, i - 1)
           b == SubSeq(q, i + 1, Len(q))
<1>1. Len(q) \in Nat /\ DOMAIN q = 1..Len(q) /\ \A j \in 1..Len(q) : q[j] \in S
  OBVIOUS
<1>2. a \in Seq(S) /\ Len(a) = i - 1 /\ \A j \in 1..(i - 1) : a[j] = q[j]
  BY <1>1
<1>3. b \in Seq(S) /\ Len(b) = Len(q) - i /\ \A j \in 1..(Len(q) - i) : b[j] = q[i + j]
  <2>1. \A j \in (i + 1)..Len(q) : q[j] \in S
    BY <1>1
  <2>2. /\ b \in Seq(S) /\ Len(b) = IF i + 1 <= Len(q) THEN Len(q) - (i + 1) + 1 ELSE 0
        /\ \A j \in 1..(Len(q) - (i + 1) + 1) : b[j] = q[(i + 1) + j - 1]
    BY <1>1, <2>1, SubSeqProperties
  <2> HIDE DEF b
  <2>3. Len(b) = Len(q) - i /\ Len(q) - (i + 1) + 1 = Len(q) - i
    <3>1. Len(q) - (i + 1) + 1 = Len(q) - i
      BY <1>1
    <3>2. ~(i + 1 <= Len(q)) => Len(q) - i = 0
      <4>1. \A m \in Nat : \A k \in 1..m : ~(k + 1 <= m) => m - k = 0
        OBVIOUS
      <4>2. QED
        BY <1>1, <4>1
    <3>3. Len(b) = IF i + 1 <= Len(q) THEN Len(q) - (i + 1) + 1 ELSE 0
      BY <2>2
    <3>4. QED
      BY <3>1, <3>2, <3>3
  <2>4. \A j \in 1..(Len(q) - i) : (i + 1) + j - 1 = i + j
    BY <1>1
  <2>5. QED
    BY <2>2, <2>3, <2>4
<1>4. RemoveAt(q, i) = a \o b
  BY DEF RemoveAt
<1> HIDE DEF a, b
<1>5. a \o b \in Seq(S) /\ Len(a \o b) = Len(q) - 1
  <2>1. a \o b \in Seq(S) /\ Len(a \o b) = Len(a) + Len(b)
    BY <1>2, <1>3, ConcatProperties
  <2>2. QED
    BY <1>1, <1>2, <1>3, <2>1
<1>6. ASSUME NEW j \in 1..(Len(q) - 1)
      PROVE  (a \o b)[j] = IF j < i THEN q[j] ELSE q[j + 1]
  <2>1. CASE j < i
    BY <1>1, <1>2, <1>3, <2>1
  <2>2. CASE j >= i
    <3>1. (a \o b)[j] = b[j - (i - 1)] /\ j - (i - 1) \in 1..(Len(q) - i)
      BY <1>1, <1>2, <1>3, <2>2
    <3>2. b[j - (i - 1)] = q[i + (j - (i - 1))]
      BY <1>3, <3>1
    <3>3. i + (j - (i - 1)) = j + 1
      BY <1>1
    <3>4. QED
      BY <1>1, <2>2, <3>1, <3>2, <3>3
  <2>3. j < i \/ j >= i
    BY <1>1
  <2>4. QED
    BY <2>1, <2>2, <2>3
<1>7. QED
  BY <1>4, <1>5, <1>6

\* Taking one element out of a queue without repetitions removes just that
\* element and brings nobody in front of anybody.
LEMMA TakenOut ==
  ASSUME NEW S, NEW q \in Seq(S), IsInjective(q), NEW i \in 1..Len(q),
         NEW t, t = RemoveAt(q, i)
  PROVE  /\ IsInjective(t)
         /\ ToSet(t) = ToSet(q) \ {q[i]}
         /\ \A c \in Clients : Ahead(c, t) \subseteq Ahead(c, q)
<1> DEFINE Old(j) == IF j < i THEN j ELSE j + 1
<1>0. /\ t \in Seq(S) /\ Len(t) = Len(q) - 1
      /\ \A j \in 1..(Len(q) - 1) : t[j] = IF j < i THEN q[j] ELSE q[j + 1]
  BY RemoveAtProperties
<1>1. DOMAIN t = 1..(Len(q) - 1) /\ DOMAIN q = 1..Len(q) /\ Len(q) \in Nat
  BY <1>0
<1>2. \A j \in DOMAIN t : Old(j) \in DOMAIN q /\ Old(j) # i /\ t[j] = q[Old(j)]
  BY <1>0, <1>1
<1>3. \A j, k \in DOMAIN t : j < k => Old(j) < Old(k)
  BY <1>1
<1>4. \A j, k \in DOMAIN t : Old(j) = Old(k) => j = k
  BY <1>1
<1>5. IsInjective(t)
  BY <1>2, <1>4 DEF IsInjective
<1>6. \A m \in DOMAIN q : m # i => \E j \in DOMAIN t : Old(j) = m
  <2> TAKE m \in DOMAIN q
  <2> HAVE m # i
  <2>1. CASE m < i
    <3>1. m \in DOMAIN t /\ Old(m) = m
      BY <1>1, <2>1
    <3>2. QED
      BY <3>1
  <2>2. CASE m > i
    <3>1. m - 1 \in DOMAIN t /\ Old(m - 1) = m
      BY <1>1, <2>2
    <3>2. QED
      BY <3>1
  <2>3. QED
    BY <1>1, <2>1, <2>2
<1> HIDE DEF Old
<1>7. \A m \in DOMAIN q : q[m] = q[i] => m = i
  BY <1>1 DEF IsInjective
<1>8. ToSet(t) = ToSet(q) \ {q[i]}
  <2>1. ASSUME NEW x \in ToSet(t) PROVE x \in ToSet(q) \ {q[i]}
    <3>1. PICK j \in DOMAIN t : x = t[j]
      BY <2>1 DEF ToSet
    <3>2. Old(j) \in DOMAIN q /\ Old(j) # i /\ x = q[Old(j)]
      BY <1>2, <3>1
    <3>3. QED
      BY <1>7, <3>2 DEF ToSet
  <2>2. ASSUME NEW x \in ToSet(q) \ {q[i]} PROVE x \in ToSet(t)
    <3>1. PICK m \in DOMAIN q : x = q[m]
      BY <2>2 DEF ToSet
    <3>2. m # i
      BY <2>2, <3>1
    <3>3. PICK j \in DOMAIN t : Old(j) = m
      BY <1>6, <3>2
    <3>4. x = t[j]
      BY <1>2, <3>1, <3>3
    <3>5. QED
      BY <3>4 DEF ToSet
  <2>3. QED
    BY <2>1, <2>2
<1>9. ASSUME NEW c \in Clients, NEW d \in Ahead(c, t) PROVE d \in Ahead(c, q)
  <2>1. PICK j, k \in DOMAIN t : t[j] = d /\ t[k] = c /\ j < k
    BY <1>9 DEF Ahead
  <2>2. /\ Old(j) \in DOMAIN q /\ q[Old(j)] = d
        /\ Old(k) \in DOMAIN q /\ q[Old(k)] = c
        /\ Old(j) < Old(k)
    BY <1>2, <1>3, <2>1
  <2>3. QED
    BY <1>9, <2>2 DEF Ahead
<1>10. QED
  BY <1>5, <1>8, <1>9

\* A newcomer at the end of the queue is in front of nobody.
LEMMA Appended ==
  ASSUME NEW q \in Seq(Clients), IsInjective(q), NEW c \in Clients, c \notin ToSet(q)
  PROVE  /\ Append(q, c) \in Seq(Clients)
         /\ IsInjective(Append(q, c))
         /\ ToSet(Append(q, c)) = ToSet(q) \cup {c}
         /\ \A d \in Clients \ {c} : Ahead(d, Append(q, c)) \subseteq Ahead(d, q)
<1> DEFINE t == Append(q, c)
           n == Len(q) + 1
<1>1. /\ t \in Seq(Clients) /\ DOMAIN q = 1..Len(q) /\ Len(q) \in Nat
      /\ DOMAIN t = 1..n /\ t[n] = c
      /\ \A j \in 1..Len(q) : t[j] = q[j]
  OBVIOUS
<1> HIDE DEF t
<1>2. DOMAIN t = DOMAIN q \cup {n} /\ n \notin DOMAIN q
  BY <1>1
<1>3. \A j \in DOMAIN q : t[j] = q[j] /\ q[j] # c /\ q[j] \in ToSet(q)
  BY <1>1 DEF ToSet
<1>4. IsInjective(t)
  BY <1>1, <1>2, <1>3 DEF IsInjective
<1>5. ToSet(t) = ToSet(q) \cup {c}
  <2>1. \A x \in ToSet(t) : x \in ToSet(q) \cup {c}
    BY <1>1, <1>2, <1>3 DEF ToSet
  <2>2. \A x \in ToSet(q) : x \in ToSet(t)
    BY <1>2, <1>3 DEF ToSet
  <2>3. c \in ToSet(t)
    BY <1>1, <1>2, Zenon DEF ToSet
  <2>4. QED
    BY <2>1, <2>2, <2>3
<1>6. ASSUME NEW d \in Clients \ {c}, NEW e \in Ahead(d, t) PROVE e \in Ahead(d, q)
  <2>1. PICK j, k \in DOMAIN t : t[j] = e /\ t[k] = d /\ j < k
    BY <1>6 DEF Ahead
  <2>2. k # n
    BY <1>1, <1>6, <2>1
  <2>3. j # n
    BY <1>1, <2>1, <2>2
  <2>4. j \in DOMAIN q /\ k \in DOMAIN q /\ q[j] = e /\ q[k] = d
    BY <1>2, <1>3, <2>1, <2>2, <2>3
  <2>5. QED
    BY <1>6, <2>1, <2>4 DEF Ahead
<1>7. QED
  BY <1>1, <1>4, <1>5, <1>6 DEF t

-----------------------------------------------------------------------------
(* The inductive invariant, in three parts that the actions change         *)
(* independently: the permits of the keys, those of the upstreams, and the *)
(* queue.  The number of clients may be infinite; the number in flight is  *)
(* always finite.                                                          *)

States == {"idle", "body", "queued", "forwarding", "streaming"}

KeyPart ==
  /\ keyFree \in [Keys -> Nat]
  /\ \A k \in Keys : /\ IsFiniteSet(InFlight(k))
                     /\ keyFree[k] + Cardinality(InFlight(k)) = Limit(k)

UpPart ==
  /\ upFree \in Nat
  /\ IsFiniteSet(Upstream)
  /\ upFree + Cardinality(Upstream) = MaxUpstream

QueuePart ==
  /\ queue \in Seq(Clients)
  /\ IsInjective(queue)
  /\ ToSet(queue) = {c \in Clients : pc[c] = "queued"}

ControlPart ==
  /\ pc \in [Clients -> States]
  /\ route \in [Clients -> Routes \cup {0}]
  /\ attempt \in [Clients -> Nat]

IInv == ControlPart /\ KeyPart /\ UpPart /\ QueuePart

\* A key's limit is a positive number.
LEMMA LimitType == \A k \in Keys : Limit(k) \in Nat \ {0}
BY ConstantsAssumption DEF Limit

\* Adding or removing one element of a finite set changes its size by one.
LEMMA OneMore ==
  ASSUME NEW S, IsFiniteSet(S), NEW x, x \notin S
  PROVE  /\ IsFiniteSet(S \cup {x}) /\ Cardinality(S) \in Nat
         /\ Cardinality(S \cup {x}) = Cardinality(S) + 1
BY FS_AddElement, FS_CardinalityType

\* The same for taking one out.
LEMMA OneLess ==
  ASSUME NEW S, IsFiniteSet(S), NEW x \in S
  PROVE  /\ IsFiniteSet(S \ {x}) /\ Cardinality(S) \in Nat
         /\ Cardinality(S \ {x}) = Cardinality(S) - 1
BY FS_RemoveElement, FS_CardinalityType

-----------------------------------------------------------------------------
(* The permits of the keys.                                                *)

\* A request enters the handler with a permit of its key.
LEMMA KeyEnter ==
  ASSUME ControlPart, KeyPart, NEW c \in Clients, NEW s \in States \ {"idle"},
         pc[c] = "idle", pc' = [pc EXCEPT ![c] = s],
         keyFree[KeyOf[c]] > 0,
         keyFree' = [keyFree EXCEPT ![KeyOf[c]] = @ - 1]
  PROVE  KeyPart'
<1>1. KeyOf[c] \in Keys
  BY ConstantsAssumption
<1>2. keyFree' \in [Keys -> Nat]
  BY <1>1 DEF KeyPart
<1>3. ASSUME NEW k \in Keys
      PROVE  IsFiniteSet(InFlight(k))' /\ (keyFree[k] + Cardinality(InFlight(k)) = Limit(k))'
  <2>1. CASE k = KeyOf[c]
    <3>1. InFlight(k)' = InFlight(k) \cup {c} /\ c \notin InFlight(k)
      BY <2>1 DEF InFlight, ControlPart
    <3>2. keyFree'[k] = keyFree[k] - 1
      BY <2>1 DEF KeyPart
    <3>3. QED
      BY <3>1, <3>2, OneMore DEF KeyPart
  <2>2. CASE k # KeyOf[c]
    <3>1. InFlight(k)' = InFlight(k)
      BY <2>2 DEF InFlight, ControlPart
    <3>2. keyFree'[k] = keyFree[k]
      BY <2>2 DEF KeyPart
    <3>3. QED
      BY <3>1, <3>2 DEF KeyPart
  <2>3. QED
    BY <2>1, <2>2
<1>4. QED
  BY <1>2, <1>3 DEF KeyPart

\* A request that stays in the handler, or outside, keeps what it has.
LEMMA KeyStay ==
  ASSUME ControlPart, KeyPart, NEW c \in Clients, NEW s \in States,
         (pc[c] = "idle") <=> (s = "idle"), pc' = [pc EXCEPT ![c] = s],
         keyFree' = keyFree
  PROVE  KeyPart'
<1>1. \A k \in Keys : InFlight(k)' = InFlight(k)
  BY DEF InFlight, ControlPart
<1>2. QED
  BY <1>1 DEF KeyPart

\* A request that leaves the handler gives its permit back.
LEMMA KeyLeave ==
  ASSUME ControlPart, KeyPart, NEW c \in Clients,
         pc[c] # "idle", pc' = [pc EXCEPT ![c] = "idle"], ReleaseKey(c)
  PROVE  KeyPart'
<1>1. KeyOf[c] \in Keys
  BY ConstantsAssumption
<1>2. keyFree' \in [Keys -> Nat]
  BY <1>1 DEF KeyPart, ReleaseKey
<1>3. ASSUME NEW k \in Keys
      PROVE  IsFiniteSet(InFlight(k))' /\ (keyFree[k] + Cardinality(InFlight(k)) = Limit(k))'
  <2>1. CASE k = KeyOf[c]
    <3>1. InFlight(k)' = InFlight(k) \ {c} /\ c \in InFlight(k)
      BY <2>1 DEF InFlight, ControlPart
    <3>2. keyFree'[k] = keyFree[k] + 1
      BY <2>1 DEF KeyPart, ReleaseKey
    <3>3. QED
      BY <3>1, <3>2, OneLess DEF KeyPart
  <2>2. CASE k # KeyOf[c]
    <3>1. InFlight(k)' = InFlight(k)
      BY <2>2 DEF InFlight, ControlPart
    <3>2. keyFree'[k] = keyFree[k]
      BY <2>2 DEF KeyPart, ReleaseKey
    <3>3. QED
      BY <3>1, <3>2 DEF KeyPart
  <2>3. QED
    BY <2>1, <2>2
<1>4. QED
  BY <1>2, <1>3 DEF KeyPart

-----------------------------------------------------------------------------
(* The permits of the upstreams.                                           *)

Working == {"forwarding", "streaming"}

\* A request gets a slot of the upstream capacity.
LEMMA UpEnter ==
  ASSUME ControlPart, UpPart, NEW c \in Clients, NEW s \in Working,
         pc[c] \notin Working, pc' = [pc EXCEPT ![c] = s],
         upFree > 0, upFree' = upFree - 1
  PROVE  UpPart'
<1>1. Upstream' = Upstream \cup {c} /\ c \notin Upstream
  BY DEF Upstream, Working, ControlPart
<1>2. QED
  BY <1>1, OneMore DEF UpPart

\* A request that neither gets nor gives up a slot changes nothing.
LEMMA UpStay ==
  ASSUME ControlPart, UpPart, NEW c \in Clients, NEW s \in States,
         (pc[c] \in Working) <=> (s \in Working), pc' = [pc EXCEPT ![c] = s],
         upFree' = upFree
  PROVE  UpPart'
<1>1. Upstream' = Upstream
  BY DEF Upstream, Working, ControlPart
<1>2. QED
  BY <1>1 DEF UpPart

\* A request that ends gives its slot back.
LEMMA UpLeave ==
  ASSUME ControlPart, UpPart, NEW c \in Clients, NEW s \in States \ Working,
         pc[c] \in Working, pc' = [pc EXCEPT ![c] = s],
         upFree' = upFree + 1
  PROVE  UpPart'
<1>1. Upstream' = Upstream \ {c} /\ c \in Upstream
  BY DEF Upstream, Working, ControlPart
<1>2. QED
  BY <1>1, OneLess DEF UpPart

-----------------------------------------------------------------------------
(* The queue.                                                              *)

\* Steps outside the queue leave it as it is.
LEMMA QueueStay ==
  ASSUME ControlPart, QueuePart, NEW c \in Clients, NEW s \in States,
         pc[c] # "queued", s # "queued", pc' = [pc EXCEPT ![c] = s],
         queue' = queue
  PROVE  QueuePart'
<1>1. {d \in Clients : pc'[d] = "queued"} = {d \in Clients : pc[d] = "queued"}
  BY DEF ControlPart
<1>2. QED
  BY <1>1 DEF QueuePart

\* A request joins the queue at its end.
LEMMA QueueEnter ==
  ASSUME ControlPart, QueuePart, NEW c \in Clients,
         pc[c] # "queued", pc' = [pc EXCEPT ![c] = "queued"],
         queue' = Append(queue, c)
  PROVE  /\ QueuePart'
         /\ \A d \in Clients : pc[d] = "queued" => Ahead(d, queue') \subseteq Ahead(d, queue)
<1>1. queue \in Seq(Clients) /\ IsInjective(queue) /\ c \notin ToSet(queue)
  BY DEF QueuePart
<1>2. {d \in Clients : pc'[d] = "queued"} = {d \in Clients : pc[d] = "queued"} \cup {c}
  BY DEF ControlPart
<1>3. QED
  BY <1>1, <1>2, Appended DEF QueuePart

\* A waiter leaves the queue, from wherever it is.
LEMMA QueueLeave ==
  ASSUME ControlPart, QueuePart, NEW c \in Clients, NEW s \in States \ {"queued"},
         pc[c] = "queued", pc' = [pc EXCEPT ![c] = s],
         \E i \in DOMAIN queue : queue[i] = c /\ queue' = RemoveAt(queue, i)
  PROVE  /\ QueuePart'
         /\ \A d \in Clients : Ahead(d, queue') \subseteq Ahead(d, queue)
<1>1. PICK i \in DOMAIN queue : queue[i] = c /\ queue' = RemoveAt(queue, i)
  OBVIOUS
<1>2. queue \in Seq(Clients) /\ IsInjective(queue) /\ i \in 1..Len(queue)
  BY <1>1 DEF QueuePart
<1>3. /\ queue' \in Seq(Clients) /\ Len(queue') = Len(queue) - 1
      /\ \A j \in 1..(Len(queue) - 1) :
           queue'[j] = IF j < i THEN queue[j] ELSE queue[j + 1]
  BY <1>1, <1>2, RemoveAtProperties
<1>4. /\ IsInjective(queue') /\ ToSet(queue') = ToSet(queue) \ {queue[i]}
      /\ \A d \in Clients : Ahead(d, queue') \subseteq Ahead(d, queue)
  BY <1>1, <1>2, TakenOut
<1>5. {d \in Clients : pc'[d] = "queued"} = {d \in Clients : pc[d] = "queued"} \ {c}
  BY DEF ControlPart
<1>6. QED
  BY <1>1, <1>3, <1>4, <1>5 DEF QueuePart

\* The first waiter leaves the queue at its head.
LEMMA TailIsRemoveAt ==
  ASSUME NEW S, NEW q \in Seq(S), q # <<>>
  PROVE  1 \in DOMAIN q /\ q[1] = Head(q) /\ Tail(q) = RemoveAt(q, 1)
<1>1. 1 \in DOMAIN q /\ q[1] = Head(q)
  OBVIOUS
<1>2. SubSeq(q, 1, 1 - 1) = <<>>
  BY SubSeqEmpty
<1>3. Tail(q) = SubSeq(q, 2, Len(q)) /\ Tail(q) \in Seq(S)
  BY TailIsSubSeq
<1>4. RemoveAt(q, 1) = <<>> \o Tail(q)
  BY <1>2, <1>3 DEF RemoveAt
<1>5. QED
  BY <1>1, <1>3, <1>4, ConcatEmptySeq

-----------------------------------------------------------------------------
\* Nobody is in flight at the start and all slots are free.
LEMMA InvInit == Init => IInv
<1> SUFFICES ASSUME Init PROVE IInv
  OBVIOUS
<1>1. \A k \in Keys : InFlight(k) = {}
  BY DEF Init, InFlight
<1>2. Upstream = {}
  BY DEF Init, Upstream
<1>3. KeyPart
  <2>1. keyFree \in [Keys -> Nat] /\ \A k \in Keys : keyFree[k] = Limit(k) /\ Limit(k) + 0 = Limit(k)
    BY LimitType DEF Init
  <2>2. IsFiniteSet({}) /\ Cardinality({}) = 0
    BY FS_EmptySet
  <2>3. QED
    BY <1>1, <2>1, <2>2 DEF KeyPart
<1>4. UpPart
  BY <1>2, FS_EmptySet, ConstantsAssumption DEF Init, UpPart
<1>5. QueuePart
  BY DEF Init, QueuePart, IsInjective, ToSet
<1>6. ControlPart
  BY ConstantsAssumption DEF Init, ControlPart, States
<1>7. QED
  BY <1>3, <1>4, <1>5, <1>6 DEF IInv

\* NobodyOvertakes: what a step must not do to those who keep waiting.
NobodyOvertakes ==
  \A c \in Clients :
    pc[c] = "queued" /\ pc'[c] = "queued" => Ahead(c, queue') \subseteq Ahead(c, queue)

\* Every step of every request keeps the invariant and lets nobody overtake.
LEMMA InvNext == IInv /\ [Next]_vars => IInv' /\ NobodyOvertakes
<1> SUFFICES ASSUME IInv, [Next]_vars PROVE IInv' /\ NobodyOvertakes
  OBVIOUS
<1> USE DEF Goto, slotVars
<1>0. ControlPart /\ KeyPart /\ UpPart /\ QueuePart
  BY DEF IInv
<1>a. ASSUME UNCHANGED queue PROVE NobodyOvertakes
  BY <1>a DEF NobodyOvertakes
<1>b. 1 \in Nat /\ 0 \in Nat
  OBVIOUS
<1>1. ASSUME NEW c \in Clients, NEW n \in Routes, Arrive(c, n)
      PROVE  IInv' /\ NobodyOvertakes
  <2>1. UNCHANGED <<attempt, queue, upFree>>
    BY <1>1 DEF Arrive
  <2>2. PICK s \in {"idle", "body"} :
          /\ pc[c] = "idle" /\ pc' = [pc EXCEPT ![c] = s]
          /\ s = "body" => /\ keyFree[KeyOf[c]] > 0
                           /\ keyFree' = [keyFree EXCEPT ![KeyOf[c]] = @ - 1]
                           /\ route' = [route EXCEPT ![c] = n]
          /\ s = "idle" => UNCHANGED <<keyFree, route>>
    BY <1>1 DEF Arrive
  <2>3. s \in States /\ s \notin Working /\ s # "queued"
    BY DEF States, Working
  <2>4. ControlPart'
    BY <1>0, <2>1, <2>2, <2>3 DEF ControlPart
  <2>5. KeyPart'
    BY <1>0, <2>2, <2>3, KeyEnter, KeyStay
  <2>6. UpPart'
    <3>1. pc[c] \notin Working
      BY <2>2 DEF Working
    <3>2. QED
      BY <1>0, <2>1, <2>2, <2>3, <3>1, UpStay
  <2>7. QueuePart'
    BY <1>0, <2>1, <2>2, <2>3, QueueStay
  <2>8. QED
    BY <1>a, <2>1, <2>4, <2>5, <2>6, <2>7 DEF IInv
<1>2. ASSUME NEW c \in Clients, Enqueue(c) PROVE IInv' /\ NobodyOvertakes
  <2>1. /\ pc[c] = "body" /\ pc' = [pc EXCEPT ![c] = "queued"] /\ queue' = Append(queue, c)
        /\ UNCHANGED <<route, attempt, keyFree, upFree>>
    BY <1>2 DEF Enqueue
  <2>2. "queued" \in States /\ "queued" \notin Working /\ pc[c] \notin Working
    BY <2>1 DEF States, Working
  <2>3. ControlPart'
    BY <1>0, <2>1, <2>2 DEF ControlPart
  <2>4. KeyPart'
    BY <1>0, <2>1, <2>2, KeyStay
  <2>5. UpPart'
    BY <1>0, <2>1, <2>2, UpStay
  <2>6. QueuePart' /\ NobodyOvertakes
    BY <1>0, <2>1, QueueEnter DEF NobodyOvertakes
  <2>7. QED
    BY <2>3, <2>4, <2>5, <2>6 DEF IInv
<1>3. ASSUME NEW c \in Clients, pc[c] \in {"body", "queued"}, pc' = [pc EXCEPT ![c] = "idle"],
             ReleaseKey(c), pc[c] = "body" => UNCHANGED queue,
             pc[c] = "queued" => LeaveQueue(c), UNCHANGED <<route, attempt, upFree>>
      PROVE  IInv' /\ NobodyOvertakes
  <2>1. /\ "idle" \in States \ Working /\ "idle" \in States \ {"queued"}
        /\ pc[c] \notin Working /\ pc[c] # "idle"
    BY <1>3 DEF States, Working
  <2>2. ControlPart'
    BY <1>0, <1>3, <2>1 DEF ControlPart
  <2>3. KeyPart'
    BY <1>0, <1>3, <2>1, KeyLeave
  <2>4. UpPart'
    BY <1>0, <1>3, <2>1, UpStay
  <2>5. CASE pc[c] = "body"
    BY <1>0, <1>3, <1>a, <2>1, <2>2, <2>3, <2>4, <2>5, QueueStay DEF IInv
  <2>6. CASE pc[c] = "queued"
    <3>1. QueuePart' /\ NobodyOvertakes
      BY <1>0, <1>3, <2>1, <2>6, QueueLeave DEF LeaveQueue, NobodyOvertakes
    <3>2. QED
      BY <2>2, <2>3, <2>4, <3>1 DEF IInv
  <2>7. QED
    BY <1>3, <2>5, <2>6
<1>4. ASSUME NEW c \in Clients, Acquire(c) PROVE IInv' /\ NobodyOvertakes
  <2>1. /\ queue # <<>> /\ Head(queue) = c /\ upFree > 0 /\ pc[c] = "queued"
        /\ pc' = [pc EXCEPT ![c] = "forwarding"] /\ queue' = Tail(queue)
        /\ upFree' = upFree - 1 /\ attempt' = [attempt EXCEPT ![c] = 1]
        /\ UNCHANGED <<route, keyFree>>
    BY <1>4 DEF Acquire
  <2>2. /\ "forwarding" \in States \ {"queued"} /\ "forwarding" \in Working
        /\ pc[c] \notin Working /\ pc[c] # "idle"
    BY <2>1 DEF States, Working
  <2>3. ControlPart'
    BY <1>0, <1>b, <2>1, <2>2 DEF ControlPart
  <2>4. KeyPart'
    BY <1>0, <2>1, <2>2, KeyStay
  <2>5. UpPart'
    BY <1>0, <2>1, <2>2, UpEnter
  <2>6. \E i \in DOMAIN queue : queue[i] = c /\ queue' = RemoveAt(queue, i)
    <3>1. queue \in Seq(Clients)
      BY <1>0 DEF QueuePart
    <3>2. QED
      BY <2>1, <3>1, TailIsRemoveAt
  <2>7. QueuePart' /\ NobodyOvertakes
    BY <1>0, <2>1, <2>2, <2>6, QueueLeave DEF NobodyOvertakes
  <2>8. QED
    BY <2>3, <2>4, <2>5, <2>7 DEF IInv
<1>5. ASSUME NEW c \in Clients, pc[c] \in Working, pc' = [pc EXCEPT ![c] = "idle"],
             ReleaseBoth(c), UNCHANGED <<route, attempt, queue>>
      PROVE  IInv' /\ NobodyOvertakes
  <2>1. "idle" \in States \ Working /\ pc[c] # "idle" /\ pc[c] # "queued"
    BY <1>5 DEF States, Working
  <2>2. ControlPart'
    BY <1>0, <1>5, <2>1 DEF ControlPart
  <2>3. KeyPart'
    BY <1>0, <1>5, <2>1, KeyLeave DEF ReleaseBoth
  <2>4. UpPart'
    BY <1>0, <1>5, <2>1, UpLeave DEF ReleaseBoth
  <2>5. QueuePart'
    BY <1>0, <1>5, <2>1, QueueStay
  <2>6. QED
    BY <1>5, <1>a, <2>2, <2>3, <2>4, <2>5 DEF IInv
<1>6. ASSUME NEW c \in Clients, Answer(c) PROVE IInv' /\ NobodyOvertakes
  <2>1. /\ pc[c] = "forwarding" /\ pc' = [pc EXCEPT ![c] = "streaming"]
        /\ UNCHANGED <<route, attempt, keyFree, queue, upFree>>
    BY <1>6 DEF Answer
  <2>2. "streaming" \in States /\ "streaming" \in Working /\ pc[c] \in Working
    BY <2>1 DEF States, Working
  <2>3. ControlPart'
    BY <1>0, <2>1, <2>2 DEF ControlPart
  <2>4. KeyPart'
    BY <1>0, <2>1, <2>2, KeyStay
  <2>5. UpPart'
    BY <1>0, <2>1, <2>2, UpStay
  <2>6. QueuePart'
    BY <1>0, <2>1, <2>2, QueueStay
  <2>7. QED
    BY <1>a, <2>1, <2>3, <2>4, <2>5, <2>6 DEF IInv
<1>7. ASSUME UNCHANGED <<pc, route, slotVars>>, attempt' \in [Clients -> Nat]
      PROVE  IInv' /\ NobodyOvertakes
  <2>1. ControlPart'
    BY <1>0, <1>7 DEF ControlPart
  <2>2. KeyPart'
    BY <1>0, <1>7 DEF KeyPart, InFlight
  <2>3. UpPart'
    BY <1>0, <1>7 DEF UpPart, Upstream
  <2>4. QueuePart'
    BY <1>0, <1>7 DEF QueuePart
  <2>5. QED
    BY <1>7, <1>a, <2>1, <2>2, <2>3, <2>4 DEF IInv
<1>8. ASSUME NEW c \in Clients, Failover(c) PROVE IInv' /\ NobodyOvertakes
  <2>1. attempt' \in [Clients -> Nat] /\ UNCHANGED <<pc, route, slotVars>>
    BY <1>0, <1>8 DEF Failover, ControlPart
  <2>2. QED
    BY <1>7, <2>1
<1>9. ASSUME NEW c \in Clients, RefuseBody(c) PROVE IInv' /\ NobodyOvertakes
  BY <1>3, <1>9 DEF RefuseBody
<1>10. ASSUME NEW c \in Clients, QueueTimeout(c) PROVE IInv' /\ NobodyOvertakes
  BY <1>3, <1>10 DEF QueueTimeout
<1>11. ASSUME NEW c \in Clients, GiveUp(c) PROVE IInv' /\ NobodyOvertakes
  BY <1>5, <1>11 DEF GiveUp, Working
<1>12. ASSUME NEW c \in Clients, Finish(c) PROVE IInv' /\ NobodyOvertakes
  BY <1>5, <1>12 DEF Finish, Working
<1>13. ASSUME NEW c \in Clients, Disconnect(c) PROVE IInv' /\ NobodyOvertakes
  <2>1. CASE pc[c] \in {"body", "queued"}
    BY <1>3, <1>13, <2>1 DEF Disconnect
  <2>2. CASE pc[c] \in Working
    BY <1>5, <1>13, <2>2 DEF Disconnect, Working
  <2>3. QED
    BY <1>13, <2>1, <2>2 DEF Disconnect, Working
<1>14. CASE UNCHANGED vars
  BY <1>0, <1>7, <1>14 DEF vars, ControlPart
<1>15. QED
  BY <1>1, <1>2, <1>4, <1>6, <1>8, <1>9, <1>10, <1>11, <1>12, <1>13, <1>14 DEF Next, Proceed

\* The parts of the invariant give the properties that the run checks: in
\* particular, the waiters of one key in front of a request are in flight,
\* and those are at most the key's limit.
LEMMA InvImplies == IInv => PermitsInv
<1> SUFFICES ASSUME IInv PROVE PermitsInv
  OBVIOUS
<1>0. ControlPart /\ KeyPart /\ UpPart /\ QueuePart
  BY DEF IInv
<1>1. \A k \in Keys : /\ IsFiniteSet(InFlight(k)) /\ Cardinality(InFlight(k)) \in Nat
                       /\ Cardinality(InFlight(k)) <= Limit(k) /\ keyFree[k] \in 0..Limit(k)
  BY <1>0, FS_CardinalityType, LimitType DEF KeyPart
<1>2. upFree \in 0..MaxUpstream
  BY <1>0, FS_CardinalityType, ConstantsAssumption DEF UpPart
<1>3. TypeOK
  BY <1>0, <1>1, <1>2 DEF TypeOK, ControlPart, KeyPart, QueuePart, States
<1>4. PermitsAccounted
  BY <1>0 DEF PermitsAccounted, KeyPart, UpPart
<1>5. ASSUME NEW c \in ToSet(queue), NEW k \in Keys
      PROVE  Cardinality({d \in Ahead(c, queue) : KeyOf[d] = k}) <= Limit(k)
  <2> DEFINE W == {d \in Ahead(c, queue) : KeyOf[d] = k}
  <2>1. W \subseteq InFlight(k)
    <3> SUFFICES ASSUME NEW d \in W PROVE d \in InFlight(k)
      OBVIOUS
    <3>1. d \in Clients /\ d \in ToSet(queue)
      BY DEF Ahead, ToSet
    <3>2. pc[d] = "queued"
      BY <1>0, <3>1 DEF QueuePart
    <3>3. QED
      BY <3>1, <3>2 DEF InFlight
  <2>2. IsFiniteSet(W) /\ Cardinality(W) <= Cardinality(InFlight(k))
    BY <1>1, <2>1, FS_Subset
  <2>3. Cardinality(W) \in Nat
    BY <2>2, FS_CardinalityType
  <2> HIDE DEF W
  <2>4. Cardinality(W) <= Limit(k)
    BY <1>1, <2>2, <2>3, LimitType
  <2>5. QED
    BY <2>4 DEF W
<1>6. NoStarvation
  BY <1>0, <1>5 DEF NoStarvation, QueuePart
<1>7. QED
  BY <1>3, <1>4, <1>6 DEF PermitsInv

\* PermitsInv holds in every state: on every path out of proxy_handler each
\* slot comes back exactly once, a key has at most its limit in flight, and
\* no key can put more than its limit in front of a waiting request.
THEOREM PermitsAlwaysAccounted == Spec => []PermitsInv
<1>1. Init => IInv
  BY InvInit
<1>2. IInv /\ [Next]_vars => IInv'
  BY InvNext
<1>3. QED
  BY <1>1, <1>2, InvImplies, PTL DEF Spec

\* NoOvertaking holds of every step: tokio's fair semaphore hands out slots
\* in the order of arrival, and waiters that give up leave the order of the
\* others as it was.
THEOREM QueueIsFair == Spec => NoOvertaking
<1>1. Init => IInv
  BY InvInit
<1>2. IInv /\ [Next]_vars => IInv'
  BY InvNext
<1>3. IInv /\ [Next]_vars => [NobodyOvertakes]_vars
  BY InvNext
<1>4. [NobodyOvertakes]_vars <=>
        [\A c \in Clients : pc[c] = "queued" /\ pc'[c] = "queued"
                             => Ahead(c, queue') \subseteq Ahead(c, queue)]_vars
  BY DEF NobodyOvertakes
<1>5. QED
  BY <1>1, <1>2, <1>3, <1>4, PTL DEF Spec, NoOvertaking

-----------------------------------------------------------------------------
(* The model catalogue: its lock, its caches and its answers, for any      *)
(* registry, any number of requests and any time to live.                  *)

\* What a cache answers, of any content.
CachedIn(nm, ls, w) ==
  IF w = "list" THEN IF Live(ls) THEN ls.content ELSE Nothing
  ELSE IF Live(nm) THEN nm.content[w] ELSE Nothing

\* Every answer there is.
Answers == Entries \cup Pinned \cup SUBSET (Hashes \X BOOLEAN)

Calls == [pc : {"idle", "queued", "hashes", "models", "done"},
          want : Names \cup Pinned \cup {"list", "none"},
          todo : Seq(Hashes), found : SUBSET (Hashes \X BOOLEAN), read : Nat,
          failed : SUBSET Hashes, answer : Answers]

InLine(r) == r.pc \in {"queued", "hashes", "models"}
Enumerating(r) == r.pc \in {"hashes", "models"}

\* Where an enumeration is: what is left to ask is the end of the part of the
\* registry it read, and what it found or missed is the part before.
Enumerates(reg, r) ==
  LET k == r.read - Len(r.todo) IN
  /\ r.read <= Len(reg) /\ Len(r.todo) <= r.read
  /\ \A j \in 1..Len(r.todo) : r.todo[j] = reg[k + j]
  /\ r.failed \subseteq {reg[i] : i \in 1..k}
  /\ HashesOf(r.found) = Listable(reg, k, r.failed)

\* An answer is real, of any registry.
Real(reg, r) ==
  /\ r.want = "list" => \A h \in Listing(r.answer) :
                           h \in Range(reg) /\ NameOf[h] # ""
  /\ r.want \in Pinned => r.answer = r.want
  /\ r.want \notin Pinned \cup {"list"} =>
       \/ r.answer = "negative"
       \/ r.answer \in Range(reg) /\ NameOf[r.answer] = r.want

CallOK(reg, r) ==
  /\ InLine(r) => r.want \in (Names \cup {"list"}) \ Pinned
  /\ r.pc # "models" => r.todo = <<>> /\ r.found = {} /\ r.failed = {}
  /\ r.pc = "models" => Enumerates(reg, r)
  /\ r.pc = "done" => Real(reg, r)

\* CachesMirrorRegistry, of any registry and caches.
NamesMirror(reg, nm) ==
  \A n \in Names :
    IF Named(reg, nm, n) = {} THEN nm.content[n] \in {"negative", Nothing}
    ELSE nm.content[n] = Latest(reg, Named(reg, nm, n))
ListMirrors(reg, ls) ==
  HashesOf(ls.content) = Listable(reg, ls.read, ls.failed)

RegistryPart ==
  /\ registered \in Seq(Hashes) /\ IsInjective(registered)
  /\ active \subseteq Range(registered)
CachePart ==
  /\ names \in Caches([Names -> Entries])
  /\ list \in Caches(SUBSET (Hashes \X BOOLEAN))
  /\ NamesMirror(registered, names) /\ ListMirrors(registered, list)
CallPart ==
  /\ call \in [Callers -> Calls]
  /\ \A c \in Callers : CallOK(registered, call[c])
LockPart ==
  /\ refreshing \in Seq(Callers) /\ IsInjective(refreshing)
  /\ \A c \in Callers : c \in Range(refreshing) <=> InLine(call[c])
  /\ \A c \in Callers :
       Enumerating(call[c]) =>
         refreshing # <<>> /\ Head(refreshing) = c /\ CachedIn(names, list, call[c].want) = Nothing

\* The inductive invariant.
ModelsInv ==
  RegistryPart /\ CachePart /\ CallPart /\ LockPart /\ faults \in 0..MaxFaults

\* A non-empty set of places of a sequence has a last one, which is the one
\* that Latest takes.
LEMMA LatestIsLast ==
  ASSUME NEW n \in Nat, NEW I \in SUBSET (1..n), I # {}, NEW reg
  PROVE  \E m \in I : (\A j \in I : j <= m) /\ Latest(reg, I) = reg[m]
<1> DEFINE R == {ss \in Nat \X Nat : ss[1] < ss[2]}
           D == {d \in 0..n : n - d \in I}
<1>1. IsWellFoundedOn(R, Nat)
  <2>1. OpToRel(<, Nat) = R
    BY DEF OpToRel
  <2> QED
    BY <2>1, NatLessThanWellFounded
<1>2. D \in SUBSET Nat /\ D # {}
  <2>1. PICK i \in I : TRUE
    OBVIOUS
  <2>2. n - i \in 0..n /\ n - (n - i) = i
    OBVIOUS
  <2>3. n - i \in D
    BY <2>2
  <2>4. \A d \in D : d \in Nat
    OBVIOUS
  <2> HIDE DEF D
  <2> QED
    BY <2>3, <2>4
<1>3. \A k \in Nat, l \in Nat : k < l => <<k, l>> \in R
  OBVIOUS
<1>4. D \subseteq 0..n /\ (\A d \in D : n - d \in I) /\ \A d \in 0..n : n - d \in I => d \in D
  OBVIOUS
<1> HIDE DEF R, D
<1>5. PICK d \in D : \A k \in D : ~ (<<k, d>> \in R)
  BY <1>1, <1>2, WFMin
<1>6. n - d \in I /\ d \in 0..n
  BY <1>4
<1>7. ASSUME NEW j \in I
      PROVE  j <= n - d
  <2>1. n - j \in 0..n /\ n - (n - j) = j
    OBVIOUS
  <2>2. n - j \in D
    BY <1>4, <2>1
  <2>3. ASSUME NEW e \in D
        PROVE  ~(e < d)
    <3>1. e \in Nat /\ d \in Nat
      BY <1>2
    <3>2. ~(<<e, d>> \in R)
      BY <1>5
    <3> QED
      BY <1>3, <3>1, <3>2
  <2> QED
    BY <1>6, <2>1, <2>2, <2>3
<1>8. \E i \in I : \A j \in I : j <= i
  BY <1>6, <1>7
<1>9. PICK m \in I : m = CHOOSE i \in I : \A j \in I : j <= i
  BY <1>8
<1>10. \A j \in I : j <= m
  BY <1>8, <1>9
<1> QED
  BY <1>9, <1>10 DEF Latest

\* A registration leaves every earlier entry where it was.
LEMMA RegistryGrows ==
  ASSUME NEW S, NEW reg \in Seq(S), NEW h \in S
  PROVE  /\ Append(reg, h) \in Seq(S) /\ Len(Append(reg, h)) = Len(reg) + 1
         /\ \A i \in 1..Len(reg) : Append(reg, h)[i] = reg[i]
         /\ Range(Append(reg, h)) = Range(reg) \cup {h}
         /\ h \notin Range(reg) /\ IsInjective(reg)
              => IsInjective(Append(reg, h))
<1> DEFINE t == Append(reg, h)
<1>1. /\ t \in Seq(S) /\ Len(t) = Len(reg) + 1
      /\ \A i \in 1..Len(reg) : t[i] = reg[i]
      /\ t[Len(reg) + 1] = h
  OBVIOUS
<1>2. Len(reg) \in Nat /\ DOMAIN reg = 1..Len(reg) /\ DOMAIN t = 1..(Len(reg) + 1)
  BY <1>1
<1> HIDE DEF t
<1>3. 1..(Len(reg) + 1) = 1..Len(reg) \cup {Len(reg) + 1}
  BY <1>2
<1>4. Range(t) = Range(reg) \cup {h}
  BY <1>1, <1>2, <1>3 DEF Range
<1>5. ASSUME h \notin Range(reg), IsInjective(reg)
      PROVE  IsInjective(t)
  <2>1. \A i \in 1..Len(reg) : reg[i] # h
    BY <1>2, <1>5 DEF Range
  <2>2. \A i, j \in 1..Len(reg) : reg[i] = reg[j] => i = j
    BY <1>2, <1>5 DEF IsInjective
  <2>3. \A i, j \in 1..(Len(reg) + 1) : t[i] = t[j] => i = j
    BY <1>1, <1>3, <2>1, <2>2
  <2> QED
    BY <1>2, <2>3 DEF IsInjective
<1> QED
  BY <1>1, <1>4, <1>5 DEF t

\* What an enumeration saw of the registry is not changed by what is
\* registered later.
LEMMA PrefixStays ==
  ASSUME NEW reg \in Seq(Hashes), NEW h \in Hashes
  PROVE  /\ \A k \in 0..Len(reg) : \A F :
              Listable(Append(reg, h), k, F) = Listable(reg, k, F)
         /\ \A cache, n : cache.read \in 0..Len(reg) =>
              Named(Append(reg, h), cache, n) = Named(reg, cache, n)
         /\ \A I \in SUBSET (1..Len(reg)) : I # {} =>
              Latest(Append(reg, h), I) = Latest(reg, I)
<1> DEFINE t == Append(reg, h)
<1>1. \A i \in 1..Len(reg) : t[i] = reg[i]
  OBVIOUS
<1>2. Len(reg) \in Nat
  OBVIOUS
<1> HIDE DEF t
<1>3. ASSUME NEW k \in 0..Len(reg), NEW F
      PROVE  Listable(t, k, F) = Listable(reg, k, F)
  <2>1. \A i \in 1..k : t[i] = reg[i]
    BY <1>1, <1>2
  <2> QED
    BY <2>1 DEF Listable
<1>4. ASSUME NEW cache, NEW n, cache.read \in 0..Len(reg)
      PROVE  Named(t, cache, n) = Named(reg, cache, n)
  <2>1. \A i \in 1..cache.read : t[i] = reg[i]
    BY <1>1, <1>2, <1>4
  <2> QED
    BY <2>1 DEF Named
<1>5. ASSUME NEW I \in SUBSET (1..Len(reg)), I # {}
      PROVE  Latest(t, I) = Latest(reg, I)
  <2>1. PICK m \in I : Latest(reg, I) = reg[m] /\ \A j \in I : j <= m
    BY <1>2, <1>5, LatestIsLast
  <2>2. PICK l \in I : Latest(t, I) = t[l] /\ \A j \in I : j <= l
    BY <1>2, <1>5, LatestIsLast
  <2>3. m = l
    BY <1>2, <2>1, <2>2
  <2> QED
    BY <1>1, <2>1, <2>2, <2>3
<1> QED
  BY <1>3, <1>4, <1>5 DEF t

\* One more model read, or one more whose getModel failed.
LEMMA OneModelMore ==
  ASSUME NEW reg \in Seq(Hashes), IsInjective(reg), NEW k \in Nat, k + 1 <= Len(reg),
         NEW F, F \subseteq {reg[i] : i \in 1..k}
  PROVE  /\ Listable(reg, k + 1, F) =
              Listable(reg, k, F) \cup (IF NameOf[reg[k + 1]] = "" THEN {} ELSE {reg[k + 1]})
         /\ Listable(reg, k + 1, F \cup {reg[k + 1]}) = Listable(reg, k, F)
<1>1. 1..(k + 1) = 1..k \cup {k + 1}
  OBVIOUS
<1>2. Len(reg) \in Nat /\ DOMAIN reg = 1..Len(reg)
  OBVIOUS
<1>3. ASSUME NEW i \in 1..k
      PROVE  reg[i] # reg[k + 1]
  <2>1. i \in DOMAIN reg /\ k + 1 \in DOMAIN reg /\ i # k + 1
    BY <1>2
  <2> QED
    BY <2>1 DEF IsInjective
<1>4. reg[k + 1] \notin F
  BY <1>3
<1>5. {j \in 1..(k + 1) : reg[j] \notin F /\ NameOf[reg[j]] # ""} =
        {j \in 1..k : reg[j] \notin F /\ NameOf[reg[j]] # ""}
          \cup (IF NameOf[reg[k + 1]] = "" THEN {} ELSE {k + 1})
  BY <1>1, <1>4
<1>6. {j \in 1..(k + 1) : reg[j] \notin F \cup {reg[k + 1]} /\ NameOf[reg[j]] # ""} =
        {j \in 1..k : reg[j] \notin F /\ NameOf[reg[j]] # ""}
  BY <1>1, <1>3
<1> QED
  BY <1>5, <1>6 DEF Listable

\* A registration that Latest takes is in the registry under its name.
LEMMA LatestIsNamed ==
  ASSUME NEW reg \in Seq(Hashes), NEW n, NEW I \in SUBSET (1..Len(reg)), I # {},
         \A i \in I : NameOf[reg[i]] = n
  PROVE  /\ Latest(reg, I) \in Hashes
         /\ Latest(reg, I) \in Range(reg)
         /\ NameOf[Latest(reg, I)] = n
<1>1. Len(reg) \in Nat /\ DOMAIN reg = 1..Len(reg)
  OBVIOUS
<1>2. PICK m \in I : Latest(reg, I) = reg[m]
  BY <1>1, LatestIsLast
<1>3. m \in 1..Len(reg)
  OBVIOUS
<1> QED
  BY <1>1, <1>2, <1>3 DEF Range

\* What an enumeration lists is registered and named.
LEMMA ListingIsNamed ==
  ASSUME NEW reg \in Seq(Hashes), NEW k \in 0..Len(reg), NEW F, NEW found,
         HashesOf(found) = Listable(reg, k, F)
  PROVE  \A h \in Listing(found) : h \in Range(reg) /\ NameOf[h] # ""
<1>1. Len(reg) \in Nat /\ DOMAIN reg = 1..Len(reg) /\ 1..k \subseteq 1..Len(reg)
  OBVIOUS
<1>2. \A h \in Listable(reg, k, F) : h \in Range(reg) /\ NameOf[h] # ""
  BY <1>1 DEF Listable, Range
<1>3. Listing(found) \subseteq HashesOf(found)
  BY DEF Listing, HashesOf
<1> QED
  BY <1>2, <1>3

\* What a live cache answers is real.
LEMMA CacheAnswers ==
  ASSUME CatalogueConstantsOK, RegistryPart, CachePart,
         NEW w \in (Names \cup {"list"}) \ Pinned, CachedIn(names, list, w) # Nothing
  PROVE  /\ CachedIn(names, list, w) \in Answers
         /\ \A r : r.want = w /\ r.answer = CachedIn(names, list, w) => Real(registered, r)
<1> DEFINE a == CachedIn(names, list, w)
<1>1. registered \in Seq(Hashes) /\ Len(registered) \in Nat
  BY DEF RegistryPart
<1>2. CASE w = "list"
  <2>1. a = list.content
    BY <1>2 DEF CachedIn
  <2>2. list.content \in SUBSET (Hashes \X BOOLEAN) /\ list.read \in 0..Len(registered)
    BY DEF CachePart, Caches
  <2>3. HashesOf(list.content) = Listable(registered, list.read, list.failed)
    BY DEF CachePart, ListMirrors
  <2>4. \A h \in Listing(list.content) : h \in Range(registered) /\ NameOf[h] # ""
    BY <1>1, <2>2, <2>3, ListingIsNamed
  <2> QED
    BY <1>2, <2>1, <2>2, <2>4 DEF Answers, Real
<1>3. CASE w # "list"
  <2> DEFINE I == Named(registered, names, w)
  <2>1. w \in Names /\ a = names.content[w] /\ a # Nothing
    BY <1>3 DEF CachedIn
  <2>2. names.read \in 0..Len(registered) /\ a \in Entries
    BY <2>1 DEF CachePart, Caches
  <2>3. a \in Answers
    BY <2>2 DEF Answers
  <2>4. CASE I = {}
    <3>1. a = "negative"
      BY <2>1, <2>4 DEF CachePart, NamesMirror
    <3> QED
      BY <1>3, <2>3, <3>1 DEF Real
  <2>5. CASE I # {}
    <3>1. a = Latest(registered, I)
      BY <2>1, <2>5 DEF CachePart, NamesMirror
    <3>2. 1..names.read \subseteq 1..Len(registered)
      BY <1>1, <2>2
    <3>3. I \in SUBSET (1..Len(registered)) /\ \A i \in I : NameOf[registered[i]] = w
      BY <3>2 DEF Named
    <3> HIDE DEF I
    <3> HIDE DEF a
    <3>4. a \in Range(registered) /\ NameOf[a] = w
      BY <1>1, <2>5, <3>1, <3>3, LatestIsNamed
    <3>5. \A r : r.want = w /\ r.answer = a => Real(registered, r)
      BY <1>3, <3>4 DEF Real
    <3> QED
      BY <2>3, <3>5 DEF a
  <2> QED
    BY <2>4, <2>5
<1> QED
  BY <1>2, <1>3

\* One field of a request changes, field by field.
LEMMA PcField ==
  ASSUME NEW m \in Calls, NEW v \in {"idle", "queued", "hashes", "models", "done"}
  PROVE  LET n == [m EXCEPT !.pc = v] IN
           /\ n \in Calls
           /\ n.pc = v /\ n.want = m.want /\ n.todo = m.todo /\ n.found = m.found
           /\ n.read = m.read /\ n.failed = m.failed /\ n.answer = m.answer
BY DEF Calls

LEMMA WantField ==
  ASSUME NEW m \in Calls, NEW v \in Names \cup Pinned \cup {"list", "none"}
  PROVE  LET n == [m EXCEPT !.want = v] IN
           /\ n \in Calls
           /\ n.pc = m.pc /\ n.want = v /\ n.todo = m.todo /\ n.found = m.found
           /\ n.read = m.read /\ n.failed = m.failed /\ n.answer = m.answer
BY DEF Calls

LEMMA TodoField ==
  ASSUME NEW m \in Calls, NEW v \in Seq(Hashes)
  PROVE  LET n == [m EXCEPT !.todo = v] IN
           /\ n \in Calls
           /\ n.pc = m.pc /\ n.want = m.want /\ n.todo = v /\ n.found = m.found
           /\ n.read = m.read /\ n.failed = m.failed /\ n.answer = m.answer
BY DEF Calls

LEMMA FoundField ==
  ASSUME NEW m \in Calls, NEW v \in SUBSET (Hashes \X BOOLEAN)
  PROVE  LET n == [m EXCEPT !.found = v] IN
           /\ n \in Calls
           /\ n.pc = m.pc /\ n.want = m.want /\ n.todo = m.todo /\ n.found = v
           /\ n.read = m.read /\ n.failed = m.failed /\ n.answer = m.answer
BY DEF Calls

LEMMA ReadField ==
  ASSUME NEW m \in Calls, NEW v \in Nat
  PROVE  LET n == [m EXCEPT !.read = v] IN
           /\ n \in Calls
           /\ n.pc = m.pc /\ n.want = m.want /\ n.todo = m.todo /\ n.found = m.found
           /\ n.read = v /\ n.failed = m.failed /\ n.answer = m.answer
BY DEF Calls

LEMMA FailedField ==
  ASSUME NEW m \in Calls, NEW v \in SUBSET Hashes
  PROVE  LET n == [m EXCEPT !.failed = v] IN
           /\ n \in Calls
           /\ n.pc = m.pc /\ n.want = m.want /\ n.todo = m.todo /\ n.found = m.found
           /\ n.read = m.read /\ n.failed = v /\ n.answer = m.answer
BY DEF Calls

LEMMA AnswerField ==
  ASSUME NEW m \in Calls, NEW v \in Answers
  PROVE  LET n == [m EXCEPT !.answer = v] IN
           /\ n \in Calls
           /\ n.pc = m.pc /\ n.want = m.want /\ n.todo = m.todo /\ n.found = m.found
           /\ n.read = m.read /\ n.failed = m.failed /\ n.answer = v
BY DEF Calls

\* A request that is not there.
LEMMA IdleCall ==
  ASSUME NEW reg
  PROVE  /\ Idle \in Calls /\ CallOK(reg, Idle)
         /\ ~InLine(Idle) /\ ~Enumerating(Idle)
<1>1. Idle \in Calls
  BY DEF Idle, Calls, Answers, Entries
<1> QED
  BY <1>1 DEF CallOK, InLine, Enumerating, Idle

\* A request that has just been answered.
LEMMA AnsweredCall ==
  ASSUME NEW w \in Names \cup Pinned \cup {"list", "none"}, NEW a \in Answers, NEW reg,
         \A r : r.want = w /\ r.answer = a => Real(reg, r)
  PROVE  LET n == [Idle EXCEPT !.pc = "done", !.want = w, !.answer = a] IN
           n \in Calls /\ CallOK(reg, n) /\ ~InLine(n) /\ ~Enumerating(n)
<1> DEFINE m == [Idle EXCEPT !.pc = "done"]
           l == [m EXCEPT !.want = w]
           n == [l EXCEPT !.answer = a]
<1>1. [Idle EXCEPT !.pc = "done", !.want = w, !.answer = a] = n
  OBVIOUS
<1>2. Idle \in Calls /\ Nothing \in Answers
  BY IdleCall DEF Answers, Entries
<1>3. Idle.todo = <<>> /\ Idle.found = {} /\ Idle.failed = {}
  BY DEF Idle
<1>4. m \in Calls /\ m.pc = "done" /\ m.todo = <<>> /\ m.found = {} /\ m.failed = {}
  BY <1>2, <1>3, PcField
<1> HIDE DEF m
<1>5. /\ l \in Calls /\ l.pc = "done" /\ l.want = w
      /\ l.todo = <<>> /\ l.found = {} /\ l.failed = {}
  BY <1>4, WantField
<1> HIDE DEF l
<1>6. /\ n \in Calls /\ n.pc = "done" /\ n.want = w /\ n.answer = a
      /\ n.todo = <<>> /\ n.found = {} /\ n.failed = {}
  BY <1>5, AnswerField
<1> HIDE DEF n
<1>7. CallOK(reg, n) /\ ~InLine(n) /\ ~Enumerating(n)
  BY <1>6 DEF CallOK, InLine, Enumerating
<1> QED
  BY <1>1, <1>6, <1>7

\* A request that has just joined the queue.
LEMMA JoinedCall ==
  ASSUME NEW w \in (Names \cup {"list"}) \ Pinned, NEW reg
  PROVE  LET n == [Idle EXCEPT !.pc = "queued", !.want = w] IN
           n \in Calls /\ CallOK(reg, n) /\ InLine(n) /\ ~Enumerating(n)
<1> DEFINE m == [Idle EXCEPT !.pc = "queued"]
           n == [m EXCEPT !.want = w]
<1>1. [Idle EXCEPT !.pc = "queued", !.want = w] = n
  OBVIOUS
<1>2. Idle \in Calls
  BY IdleCall
<1>3. Idle.todo = <<>> /\ Idle.found = {} /\ Idle.failed = {}
  BY DEF Idle
<1>4. m \in Calls /\ m.pc = "queued" /\ m.todo = <<>> /\ m.found = {} /\ m.failed = {}
  BY <1>2, <1>3, PcField
<1> HIDE DEF m
<1>5. /\ n \in Calls /\ n.pc = "queued" /\ n.want = w
      /\ n.todo = <<>> /\ n.found = {} /\ n.failed = {}
  BY <1>4, WantField
<1> HIDE DEF n
<1>6. CallOK(reg, n) /\ InLine(n) /\ ~Enumerating(n)
  BY <1>5 DEF CallOK, InLine, Enumerating
<1> QED
  BY <1>1, <1>5, <1>6

\* The step of one request: what it must leave to the others.
LEMMA CallStep ==
  ASSUME ModelsInv, NEW c \in Callers, NEW r \in Calls,
         call' = [call EXCEPT ![c] = r], CallOK(registered, r),
         registered' = registered, active' = active, CachePart', faults' \in 0..MaxFaults,
         refreshing' \in Seq(Callers), IsInjective(refreshing'),
         \A d \in Callers \ {c} : d \in Range(refreshing') <=> d \in Range(refreshing),
         c \in Range(refreshing') <=> InLine(r),
         \A d \in Callers \ {c} : Enumerating(call[d]) =>
           refreshing' # <<>> /\ Head(refreshing') = d /\ CachedIn(names', list', call[d].want) = Nothing,
         Enumerating(r) =>
           refreshing' # <<>> /\ Head(refreshing') = c /\ CachedIn(names', list', r.want) = Nothing
  PROVE  ModelsInv'
<1>1. call \in [Callers -> Calls] /\ \A d \in Callers : CallOK(registered, call[d])
  BY DEF ModelsInv, CallPart
<1>2. call' \in [Callers -> Calls] /\ call'[c] = r /\ \A d \in Callers \ {c} : call'[d] = call[d]
  BY <1>1
<1>3. RegistryPart'
  BY DEF ModelsInv, RegistryPart
<1>4. CallPart'
  <2>1. \A d \in Callers : CallOK(registered, call'[d])
    BY <1>1, <1>2
  <2> QED
    BY <1>2, <2>1 DEF CallPart
<1>5. ASSUME NEW d \in Callers
      PROVE  /\ d \in Range(refreshing') <=> InLine(call'[d])
             /\ Enumerating(call'[d]) =>
                  /\ refreshing' # <<>> /\ Head(refreshing') = d
                  /\ CachedIn(names', list', call'[d].want) = Nothing
  <2>1. CASE d = c
    BY <1>2, <2>1
  <2>2. CASE d # c
    <3>1. d \in Range(refreshing) <=> InLine(call[d])
      BY DEF ModelsInv, LockPart
    <3> QED
      BY <1>2, <2>2, <3>1
  <2> QED
    BY <2>1, <2>2
<1>6. LockPart'
  BY <1>5 DEF LockPart
<1> QED
  BY <1>3, <1>4, <1>6 DEF ModelsInv

\* Range and ToSet name the same set.
LEMMA RangeIsToSet == ASSUME NEW q PROVE Range(q) = ToSet(q)
BY DEF Range, ToSet

\* The queue of the refresh lock when somebody joins it, when its holder lets
\* go, and when somebody who is there hangs up.
LEMMA QueueJoined ==
  ASSUME NEW q \in Seq(Callers), IsInjective(q), NEW c \in Callers, c \notin Range(q)
  PROVE  /\ Append(q, c) \in Seq(Callers) /\ IsInjective(Append(q, c))
         /\ Range(Append(q, c)) = Range(q) \cup {c}
         /\ q # <<>> => Append(q, c) # <<>> /\ Head(Append(q, c)) = Head(q)
<1>1. Append(q, c) # <<>>
  BY AppendProperties
<1>2. q # <<>> => Head(Append(q, c)) = Head(q)
  OBVIOUS
<1> QED
  BY <1>1, <1>2, RegistryGrows

LEMMA QueueReleased ==
  ASSUME NEW q \in Seq(Callers), IsInjective(q), q # <<>>
  PROVE  /\ Tail(q) \in Seq(Callers) /\ IsInjective(Tail(q))
         /\ Range(Tail(q)) = Range(q) \ {Head(q)}
<1>1. 1 \in DOMAIN q /\ q[1] = Head(q) /\ Tail(q) = RemoveAt(q, 1)
  BY TailIsRemoveAt
<1>2. 1 \in 1..Len(q)
  BY <1>1
<1>3. /\ Tail(q) \in Seq(Callers) /\ Len(Tail(q)) = Len(q) - 1
      /\ \A j \in 1..(Len(q) - 1) : Tail(q)[j] = IF j < 1 THEN q[j] ELSE q[j + 1]
  BY <1>1, <1>2, RemoveAtProperties
<1>4. IsInjective(q)
  BY RangeIsToSet
<1>5. IsInjective(Tail(q)) /\ ToSet(Tail(q)) = ToSet(q) \ {q[1]}
  BY <1>1, <1>2, <1>4, TakenOut
<1> QED
  BY <1>1, <1>3, <1>5, RangeIsToSet

LEMMA QueueLeft ==
  ASSUME NEW c \in Callers, refreshing \in Seq(Callers), IsInjective(refreshing),
         c \in Range(refreshing)
  PROVE  LET t == LeaveLock(c) IN
         /\ t \in Seq(Callers) /\ IsInjective(t)
         /\ Range(t) = Range(refreshing) \ {c}
         /\ Head(refreshing) # c => t # <<>> /\ Head(t) = Head(refreshing)
<1> DEFINE t == LeaveLock(c)
           i == CHOOSE j \in DOMAIN refreshing : refreshing[j] = c
<1>1. Len(refreshing) \in Nat /\ DOMAIN refreshing = 1..Len(refreshing)
  OBVIOUS
<1>2. \E j \in DOMAIN refreshing : refreshing[j] = c
  BY DEF Range
<1>3. i \in 1..Len(refreshing) /\ refreshing[i] = c
  BY <1>1, <1>2
<1>4. t = RemoveAt(refreshing, i)
  BY RangeIsToSet DEF LeaveLock
<1> HIDE DEF i, t
<1>5. /\ t \in Seq(Callers) /\ Len(t) = Len(refreshing) - 1
      /\ \A j \in 1..(Len(refreshing) - 1) : t[j] = IF j < i THEN refreshing[j] ELSE refreshing[j + 1]
  BY <1>3, <1>4, RemoveAtProperties
<1>6. IsInjective(refreshing)
  BY RangeIsToSet
<1>7. IsInjective(t) /\ ToSet(t) = ToSet(refreshing) \ {refreshing[i]}
  BY <1>3, <1>4, <1>6, TakenOut
<1>8. ASSUME Head(refreshing) # c
      PROVE  t # <<>> /\ Head(t) = Head(refreshing)
  <2>1. Head(refreshing) = refreshing[1] /\ i # 1
    BY <1>1, <1>3, <1>8
  <2>2. 1 < i /\ 1 \in 1..(Len(refreshing) - 1)
    BY <1>1, <1>3, <2>1
  <2>3. t[1] = refreshing[1] /\ Len(t) >= 1
    BY <1>1, <1>5, <2>2
  <2> QED
    BY <1>5, <2>1, <2>3
<1>9. IsInjective(t) /\ Range(t) = Range(refreshing) \ {c}
  BY <1>3, <1>7, RangeIsToSet
<1> QED
  BY <1>5, <1>8, <1>9 DEF t

\* The caches answer as CachedIn says; they stay sound as long as nothing
\* touches them or the registry.
LEMMA CachedIsCachedIn ==
  ASSUME NEW w
  PROVE  Cached(w) = CachedIn(names, list, w)
BY DEF Cached, CachedModelHash, CachedIn

LEMMA QuietCaches ==
  ASSUME CachePart, names' = names, list' = list, registered' = registered
  PROVE  CachePart'
BY DEF CachePart, Caches

\* A request asks.
LEMMA AskStep ==
  ASSUME CatalogueConstantsOK, ModelsInv, NEW c \in Callers,
         NEW w \in Names \cup Pinned \cup {"list"}, Ask(c, w)
  PROVE  ModelsInv'
<1> DEFINE a == IF w \in Pinned THEN w ELSE Cached(w)
           done == [Idle EXCEPT !.pc = "done", !.want = w, !.answer = a]
           queued == [Idle EXCEPT !.pc = "queued", !.want = w]
<1>1. /\ call[c].pc = "idle" /\ registered' = registered /\ active' = active
      /\ names' = names /\ list' = list /\ faults' = faults
  BY DEF Ask
<1>2. /\ a # Nothing => call' = [call EXCEPT ![c] = done] /\ refreshing' = refreshing
      /\ a = Nothing => call' = [call EXCEPT ![c] = queued] /\ refreshing' = Append(refreshing, c)
  BY DEF Ask
<1>3. RegistryPart /\ CachePart /\ CallPart /\ LockPart /\ faults \in 0..MaxFaults
  BY DEF ModelsInv
<1>4. CachePart'
  BY <1>1, <1>3, QuietCaches
<1>5. refreshing \in Seq(Callers) /\ IsInjective(refreshing) /\ c \notin Range(refreshing)
  BY <1>1, <1>3 DEF LockPart, InLine
<1>6. \A d \in Callers \ {c} : Enumerating(call[d]) =>
        refreshing # <<>> /\ Head(refreshing) = d /\ CachedIn(names, list, call[d].want) = Nothing
  BY <1>3 DEF LockPart
<1>7. CASE a # Nothing
  <2>1. /\ a \in Answers
        /\ \A r : r.want = w /\ r.answer = a => Real(registered, r)
    <3>1. CASE w \in Pinned
      <4>1. a = w /\ w # "list"
        BY <3>1 DEF CatalogueConstantsOK
      <4> HIDE DEF a
      <4> QED
        BY <3>1, <4>1 DEF Real, Answers
    <3>2. CASE w \notin Pinned
      <4>1. a = CachedIn(names, list, w) /\ w \in (Names \cup {"list"}) \ Pinned
        BY <3>2, CachedIsCachedIn
      <4> HIDE DEF a
      <4> QED
        BY <1>3, <1>7, <4>1, CacheAnswers
    <3> QED
      BY <3>1, <3>2
  <2> HIDE DEF a
  <2>2. done \in Calls /\ CallOK(registered, done) /\ ~InLine(done) /\ ~Enumerating(done)
    BY <2>1, AnsweredCall
  <2> HIDE DEF done
  <2> QED
    BY <1>1, <1>2, <1>3, <1>4, <1>5, <1>6, <1>7, <2>2, CallStep
<1>8. CASE a = Nothing
  <2>1. w \in (Names \cup {"list"}) \ Pinned
    BY <1>8 DEF CatalogueConstantsOK
  <2> HIDE DEF a
  <2>2. queued \in Calls /\ CallOK(registered, queued) /\ InLine(queued) /\ ~Enumerating(queued)
    BY <2>1, JoinedCall
  <2> HIDE DEF queued
  <2>3. /\ refreshing' \in Seq(Callers) /\ IsInjective(refreshing')
        /\ Range(refreshing') = Range(refreshing) \cup {c}
        /\ refreshing # <<>> => refreshing' # <<>> /\ Head(refreshing') = Head(refreshing)
    BY <1>2, <1>5, <1>8, QueueJoined
  <2> QED
    BY <1>1, <1>2, <1>3, <1>4, <1>6, <1>8, <2>2, <2>3, CallStep
<1> QED
  BY <1>7, <1>8

\* The request at the head of the queue is answered and lets the lock go.
LEMMA AnswerStep ==
  ASSUME ModelsInv, NEW c \in Callers, Enumerating(call[c]) \/ call[c].pc = "queued",
         refreshing # <<>>, Head(refreshing) = c, NEW a \in Answers,
         \A r : r.want = call[c].want /\ r.answer = a => Real(registered, r),
         call' = Finished(c, a), refreshing' = Tail(refreshing),
         registered' = registered, active' = active, CachePart', faults' \in 0..MaxFaults
  PROVE  ModelsInv'
<1> DEFINE w == call[c].want
           done == [Idle EXCEPT !.pc = "done", !.want = w, !.answer = a]
<1>1. call' = [call EXCEPT ![c] = done]
  BY DEF Finished
<1>2. w \in Names \cup Pinned \cup {"list", "none"}
  BY DEF ModelsInv, CallPart, Calls
<1>3. \A r : r.want = w /\ r.answer = a => Real(registered, r)
  OBVIOUS
<1> HIDE DEF w
<1>4. done \in Calls /\ CallOK(registered, done) /\ ~InLine(done) /\ ~Enumerating(done)
  BY <1>2, <1>3, AnsweredCall
<1> HIDE DEF done
<1>5. /\ refreshing \in Seq(Callers) /\ IsInjective(refreshing)
      /\ \A d \in Callers \ {c} : ~Enumerating(call[d])
  BY DEF ModelsInv, LockPart
<1>6. /\ refreshing' \in Seq(Callers) /\ IsInjective(refreshing')
      /\ Range(refreshing') = Range(refreshing) \ {c}
  BY <1>5, QueueReleased
<1> QED
  BY <1>1, <1>4, <1>5, <1>6, CallStep

\* The request that holds the lock goes on.
LEMMA HolderStep ==
  ASSUME ModelsInv, NEW c \in Callers, InLine(call[c]), refreshing # <<>>, Head(refreshing) = c,
         NEW r \in Calls, call' = [call EXCEPT ![c] = r], CallOK(registered, r),
         Enumerating(r), CachedIn(names, list, r.want) = Nothing,
         UNCHANGED <<registered, active, names, list, refreshing>>, faults' \in 0..MaxFaults
  PROVE  ModelsInv'
<1>1. RegistryPart /\ CachePart /\ CallPart /\ LockPart
  BY DEF ModelsInv
<1>2. CachePart'
  BY <1>1, QuietCaches
<1>3. /\ refreshing \in Seq(Callers) /\ IsInjective(refreshing) /\ c \in Range(refreshing)
      /\ \A d \in Callers \ {c} : ~Enumerating(call[d])
  BY <1>1 DEF LockPart
<1>4. InLine(r)
  BY DEF InLine, Enumerating
<1> QED
  BY <1>2, <1>3, <1>4, CallStep

\* The lock is ours: an answer is there by now, or the enumeration begins.
LEMMA RecheckStep ==
  ASSUME CatalogueConstantsOK, ModelsInv, NEW c \in Callers, Recheck(c)
  PROVE  ModelsInv'
<1> DEFINE w == call[c].want
           a == Rechecked(w)
           r == [call[c] EXCEPT !.pc = "hashes"]
<1>1. /\ call[c].pc = "queued" /\ refreshing # <<>> /\ Head(refreshing) = c
      /\ UNCHANGED <<registered, active, names, list, faults>>
      /\ a # Nothing => call' = Finished(c, a) /\ refreshing' = Tail(refreshing)
      /\ a = Nothing => call' = [call EXCEPT ![c].pc = "hashes"] /\ refreshing' = refreshing
  BY DEF Recheck
<1>2. RegistryPart /\ CachePart /\ CallPart /\ faults \in 0..MaxFaults
  BY DEF ModelsInv
<1>3. w \in (Names \cup {"list"}) \ Pinned
  BY <1>1, <1>2 DEF CallPart, CallOK, InLine
<1>4. a = CachedIn(names, list, w)
  BY CachedIsCachedIn DEF Rechecked
<1> HIDE DEF a
<1>5. CASE a # Nothing
  <2>1. a \in Answers /\ \A q : q.want = w /\ q.answer = a => Real(registered, q)
    BY <1>2, <1>3, <1>4, <1>5, CacheAnswers
  <2>2. CachePart'
    BY <1>1, <1>2, QuietCaches
  <2>3. faults' \in 0..MaxFaults
    BY <1>1, <1>2
  <2> QED
    BY <1>1, <1>5, <2>1, <2>2, <2>3, AnswerStep
<1>6. CASE a = Nothing
  <2>1. call[c] \in Calls /\ CallOK(registered, call[c])
    BY <1>2 DEF CallPart
  <2>2. /\ r \in Calls /\ r.pc = "hashes" /\ r.want = w
        /\ r.todo = call[c].todo /\ r.found = call[c].found /\ r.failed = call[c].failed
    BY <2>1, PcField
  <2>3. call' = [call EXCEPT ![c] = r]
    BY <1>1, <1>6
  <2> HIDE DEF r, w
  <2>4. CallOK(registered, r) /\ Enumerating(r) /\ InLine(call[c])
    BY <1>1, <1>3, <2>1, <2>2 DEF CallOK, InLine, Enumerating
  <2>5. CachedIn(names, list, r.want) = Nothing
    BY <1>4, <1>6, <2>2
  <2>6. refreshing' = refreshing /\ faults' \in 0..MaxFaults
    BY <1>1, <1>2, <1>6
  <2> QED
    BY <1>1, <2>2, <2>3, <2>4, <2>5, <2>6, HolderStep
<1> QED
  BY <1>5, <1>6

\* What the holder of the lock can rely on.
LEMMA HolderFacts ==
  ASSUME ModelsInv, NEW c \in Callers, Enumerating(call[c])
  PROVE  /\ refreshing # <<>> /\ Head(refreshing) = c /\ InLine(call[c])
         /\ CachedIn(names, list, call[c].want) = Nothing
         /\ call[c].want \in (Names \cup {"list"}) \ Pinned
         /\ call[c] \in Calls /\ CallOK(registered, call[c])
         /\ call[c].pc = "models" => Enumerates(registered, call[c])
<1>1. InLine(call[c])
  BY DEF InLine, Enumerating
<1>2. call[c] \in Calls /\ CallOK(registered, call[c])
  BY DEF ModelsInv, CallPart
<1>3. /\ refreshing # <<>> /\ Head(refreshing) = c
      /\ CachedIn(names, list, call[c].want) = Nothing
  BY DEF ModelsInv, LockPart
<1> QED
  BY <1>1, <1>2, <1>3 DEF CallOK

\* An enumeration begins at the front of the registry as it is now.
LEMMA GetAllModelHashesStep ==
  ASSUME CatalogueConstantsOK, ModelsInv, NEW c \in Callers, GetAllModelHashes(c)
  PROVE  ModelsInv'
<1> DEFINE m == call[c]
           n1 == [m EXCEPT !.pc = "models"]
           n2 == [n1 EXCEPT !.todo = registered]
           n3 == [n2 EXCEPT !.read = Len(registered)]
<1>1. /\ m.pc = "hashes" /\ UNCHANGED <<registered, active, names, list, refreshing, faults>>
      /\ call' = [call EXCEPT ![c] = n3]
  BY DEF GetAllModelHashes
<1>2. Enumerating(m)
  BY <1>1 DEF Enumerating
<1>3. /\ refreshing # <<>> /\ Head(refreshing) = c /\ InLine(m)
      /\ CachedIn(names, list, m.want) = Nothing
      /\ m.want \in (Names \cup {"list"}) \ Pinned
      /\ m \in Calls /\ CallOK(registered, m)
  BY <1>2, HolderFacts
<1>4. registered \in Seq(Hashes) /\ Len(registered) \in Nat /\ faults \in 0..MaxFaults
  BY DEF ModelsInv, RegistryPart
<1>5. m.found = {} /\ m.failed = {}
  BY <1>1, <1>3 DEF CallOK
<1> HIDE DEF m
<1>6. /\ n1 \in Calls /\ n1.pc = "models" /\ n1.want = m.want
      /\ n1.found = m.found /\ n1.failed = m.failed
  BY <1>3, PcField
<1> HIDE DEF n1
<1>7. /\ n2 \in Calls /\ n2.pc = "models" /\ n2.want = m.want /\ n2.todo = registered
      /\ n2.found = m.found /\ n2.failed = m.failed
  BY <1>4, <1>6, TodoField
<1> HIDE DEF n2
<1>8. /\ n3 \in Calls /\ n3.pc = "models" /\ n3.want = m.want /\ n3.todo = registered
      /\ n3.read = Len(registered) /\ n3.found = m.found /\ n3.failed = m.failed
  BY <1>4, <1>7, ReadField
<1> HIDE DEF n3
<1>9. Enumerates(registered, n3)
  <2>1. n3.read - Len(n3.todo) = 0 /\ 1..0 = {}
    BY <1>4, <1>8
  <2>2. HashesOf({}) = {} /\ Listable(registered, 0, {}) = {}
    BY <2>1 DEF HashesOf, Listable
  <2>3. \A j \in 1..Len(n3.todo) : n3.todo[j] = registered[0 + j]
    BY <1>4, <1>8
  <2> QED
    <3>1. n3.failed = {} /\ n3.found = {}
      BY <1>5, <1>8
    <3>2. Len(registered) <= Len(registered) /\ Len(n3.todo) <= n3.read /\ n3.read <= Len(registered)
      BY <1>4, <1>8
    <3>3. n3.failed \subseteq {registered[i] : i \in 1..0}
      BY <3>1
    <3>4. HashesOf(n3.found) = Listable(registered, 0, n3.failed)
      BY <2>2, <3>1
    <3> HIDE DEF n3
    <3> QED
      BY <2>1, <2>3, <3>2, <3>3, <3>4 DEF Enumerates
<1>10. CallOK(registered, n3) /\ Enumerating(n3)
  BY <1>3, <1>8, <1>9 DEF CallOK, Enumerating
<1>11. InLine(call[c])
  BY <1>3 DEF m
<1> QED
  BY <1>1, <1>3, <1>4, <1>8, <1>10, <1>11, HolderStep

LEMMA OneMorePlace == \A k \in Nat : 1..(k + 1) = 1..k \cup {k + 1}
  OBVIOUS

LEMMA HeadAndTail ==
  ASSUME NEW S, NEW q \in Seq(S), q # <<>>
  PROVE  /\ Len(q) \in Nat /\ 1 <= Len(q) /\ Head(q) = q[1]
         /\ Tail(q) \in Seq(S) /\ Len(Tail(q)) = Len(q) - 1
         /\ \A j \in 1..(Len(q) - 1) : Tail(q)[j] = q[j + 1]
<1>1. Len(q) \in Nat /\ 1 <= Len(q) /\ Head(q) = q[1]
  OBVIOUS
<1>2. /\ Tail(q) \in Seq(S) /\ Len(Tail(q)) = Len(q) - 1
      /\ \A j \in 1..(Len(q) - 1) : Tail(q)[j] = q[j + 1]
  OBVIOUS
<1> QED
  BY <1>1, <1>2

\* The next hash to ask about is the next one of the registry.
LEMMA EnumerationAdvances ==
  ASSUME NEW reg \in Seq(Hashes), NEW m \in Calls, Enumerates(reg, m), m.todo # <<>>,
         NEW n \in Calls, n.todo = Tail(m.todo), n.read = m.read
  PROVE  LET k == m.read - Len(m.todo) IN
         /\ k \in Nat /\ k + 1 <= Len(reg) /\ Head(m.todo) = reg[k + 1]
         /\ n.read - Len(n.todo) = k + 1 /\ n.read <= Len(reg) /\ Len(n.todo) <= n.read
         /\ \A j \in 1..Len(n.todo) : n.todo[j] = reg[(k + 1) + j]
<1> DEFINE l == Len(m.todo)
           k == m.read - l
<1>1. m.todo \in Seq(Hashes) /\ m.read \in Nat
  BY DEF Calls
<1>2. /\ l \in Nat /\ 1 <= l /\ Head(m.todo) = m.todo[1]
      /\ Len(n.todo) = l - 1
      /\ \A j \in 1..(l - 1) : n.todo[j] = m.todo[j + 1]
  BY <1>1, HeadAndTail
<1>3. /\ m.read <= Len(reg) /\ l <= m.read
      /\ \A j \in 1..l : m.todo[j] = reg[k + j]
  BY DEF Enumerates
<1>4. Len(reg) \in Nat
  OBVIOUS
<1> HIDE DEF l
<1>5. k \in Nat /\ k + 1 <= Len(reg) /\ m.read - (l - 1) = k + 1 /\ l - 1 <= m.read
  BY <1>1, <1>2, <1>3, <1>4
<1> HIDE DEF k
<1>6. \A j \in 1..(l - 1) : j + 1 \in 1..l /\ k + (j + 1) = (k + 1) + j
  BY <1>1, <1>2, <1>5
<1>7. Head(m.todo) = reg[k + 1]
  BY <1>2, <1>3
<1>8. n.read - Len(n.todo) = k + 1 /\ n.read <= Len(reg) /\ Len(n.todo) <= n.read
  BY <1>2, <1>3, <1>5
<1>9. \A j \in 1..Len(n.todo) : n.todo[j] = reg[(k + 1) + j]
  BY <1>2, <1>3, <1>6
<1> QED
  BY <1>5, <1>7, <1>8, <1>9 DEF k, l

\* One more model is read, or skipped.
LEMMA EnumerationGoesOn ==
  ASSUME NEW reg \in Seq(Hashes), IsInjective(reg), NEW m \in Calls, NEW n \in Calls,
         Enumerates(reg, m), m.todo # <<>>, n.todo = Tail(m.todo), n.read = m.read,
         \/ /\ n.failed = m.failed
            /\ HashesOf(n.found) = HashesOf(m.found) \cup
                 (IF NameOf[Head(m.todo)] = "" THEN {} ELSE {Head(m.todo)})
         \/ n.found = m.found /\ n.failed = m.failed \cup {Head(m.todo)}
  PROVE  Enumerates(reg, n)
<1> DEFINE k == m.read - Len(m.todo)
<1>1. /\ k \in Nat /\ k + 1 <= Len(reg) /\ Head(m.todo) = reg[k + 1]
      /\ n.read - Len(n.todo) = k + 1 /\ n.read <= Len(reg) /\ Len(n.todo) <= n.read
      /\ \A j \in 1..Len(n.todo) : n.todo[j] = reg[(k + 1) + j]
  BY EnumerationAdvances
<1>2. /\ m.failed \subseteq {reg[i] : i \in 1..k}
      /\ HashesOf(m.found) = Listable(reg, k, m.failed)
  BY DEF Enumerates
<1> HIDE DEF k
<1>3. 1..(k + 1) = 1..k \cup {k + 1}
  BY <1>1, OneMorePlace
<1>4. {reg[i] : i \in 1..(k + 1)} = {reg[i] : i \in 1..k} \cup {reg[k + 1]}
  BY <1>3
<1>5. n.failed \subseteq {reg[i] : i \in 1..(k + 1)}
  BY <1>1, <1>2, <1>4
<1>6. HashesOf(n.found) = Listable(reg, k + 1, n.failed)
  <2>1. /\ Listable(reg, k + 1, m.failed) =
             Listable(reg, k, m.failed) \cup
               (IF NameOf[reg[k + 1]] = "" THEN {} ELSE {reg[k + 1]})
        /\ Listable(reg, k + 1, m.failed \cup {reg[k + 1]}) = Listable(reg, k, m.failed)
    BY <1>1, <1>2, OneModelMore
  <2> QED
    BY <1>1, <1>2, <2>1
<1> QED
  BY <1>1, <1>5, <1>6 DEF Enumerates

\* The registry cannot be listed: the request fails, nothing is cached.
LEMMA GetAllModelHashesFailsStep ==
  ASSUME CatalogueConstantsOK, ModelsInv, NEW c \in Callers, GetAllModelHashesFails(c)
  PROVE  ModelsInv'
<1> DEFINE w == call[c].want
           a == IF w = "list" THEN Nothing ELSE "negative"
<1>1. /\ call[c].pc = "hashes" /\ faults < MaxFaults /\ faults' = faults + 1
      /\ call' = Finished(c, a) /\ refreshing' = Tail(refreshing)
      /\ UNCHANGED <<registered, active, names, list>>
  BY DEF GetAllModelHashesFails
<1>2. Enumerating(call[c])
  BY <1>1 DEF Enumerating
<1>3. refreshing # <<>> /\ Head(refreshing) = c /\ w \in (Names \cup {"list"}) \ Pinned
  BY <1>2, HolderFacts
<1>4. a \in Answers /\ \A q : q.want = w /\ q.answer = a => Real(registered, q)
  <2>1. Listing(Nothing) = {}
    BY DEF Listing
  <2>2. a \in Answers
    BY DEF Answers, Entries
  <2> QED
    BY <1>3, <2>1, <2>2 DEF Real
<1>5. CachePart /\ faults \in 0..MaxFaults /\ MaxFaults \in Nat
  BY DEF ModelsInv, CatalogueConstantsOK
<1>6. CachePart'
  BY <1>1, <1>5, QuietCaches
<1>7. faults' \in 0..MaxFaults
  BY <1>1, <1>5
<1> HIDE DEF a
<1> QED
  BY <1>1, <1>2, <1>3, <1>4, <1>6, <1>7, AnswerStep

\* The holder asks for the next model.
LEMMA GetModelStep ==
  ASSUME CatalogueConstantsOK, ModelsInv, NEW c \in Callers, GetModel(c)
  PROVE  ModelsInv'
<1> DEFINE m == call[c]
           h == Head(m.todo)
           new == IF NameOf[h] = "" THEN {} ELSE {<<h, h \in active>>}
           n1 == [m EXCEPT !.todo = Tail(m.todo)]
           n2 == [n1 EXCEPT !.found = m.found \cup new]
<1>1. /\ m.pc = "models" /\ m.todo # <<>>
      /\ UNCHANGED <<registered, active, names, list, refreshing, faults>>
      /\ call' = [call EXCEPT ![c] = n2]
  BY DEF GetModel
<1>2. Enumerating(m)
  BY <1>1 DEF Enumerating
<1>3. /\ refreshing # <<>> /\ Head(refreshing) = c /\ InLine(m)
      /\ CachedIn(names, list, m.want) = Nothing
      /\ m.want \in (Names \cup {"list"}) \ Pinned
      /\ m \in Calls /\ Enumerates(registered, m)
  BY <1>1, <1>2, HolderFacts
<1>4. /\ registered \in Seq(Hashes) /\ IsInjective(registered) /\ faults' \in 0..MaxFaults
  BY <1>1 DEF ModelsInv, RegistryPart
<1> HIDE DEF m
<1>5. m.todo \in Seq(Hashes) /\ m.found \in SUBSET (Hashes \X BOOLEAN)
  BY <1>3 DEF Calls
<1>6. h \in Hashes /\ Tail(m.todo) \in Seq(Hashes)
  BY <1>1, <1>5
<1>7. m.found \cup new \in SUBSET (Hashes \X BOOLEAN)
  <2>1. (h \in active) \in BOOLEAN
    OBVIOUS
  <2> HIDE DEF h
  <2>2. <<h, h \in active>> \in Hashes \X BOOLEAN
    BY <1>6, <2>1
  <2>3. new \in SUBSET (Hashes \X BOOLEAN)
    BY <2>2
  <2> QED
    BY <1>5, <2>3
<1>8. HashesOf(m.found \cup new) =
        HashesOf(m.found) \cup (IF NameOf[h] = "" THEN {} ELSE {h})
  <2>1. <<h, h \in active>>[1] = h
    OBVIOUS
  <2> HIDE DEF h
  <2> QED
    BY <2>1 DEF HashesOf
<1> HIDE DEF new
<1>9. /\ n1 \in Calls /\ n1.pc = m.pc /\ n1.want = m.want /\ n1.todo = Tail(m.todo)
      /\ n1.read = m.read /\ n1.failed = m.failed
  BY <1>3, <1>6, TodoField
<1> HIDE DEF n1
<1>10. /\ n2 \in Calls /\ n2.pc = m.pc /\ n2.want = m.want /\ n2.todo = Tail(m.todo)
       /\ n2.read = m.read /\ n2.failed = m.failed /\ n2.found = m.found \cup new
  BY <1>7, <1>9, FoundField
<1> HIDE DEF n2
<1>11. Enumerates(registered, n2)
  BY <1>1, <1>3, <1>4, <1>8, <1>10, EnumerationGoesOn
<1>12. CallOK(registered, n2) /\ Enumerating(n2)
  BY <1>1, <1>3, <1>10, <1>11 DEF CallOK, Enumerating
<1>13. InLine(call[c])
  BY <1>3 DEF m
<1> QED
  BY <1>1, <1>3, <1>4, <1>10, <1>12, <1>13, HolderStep

\* The next model cannot be read and is skipped.
LEMMA GetModelFailsStep ==
  ASSUME CatalogueConstantsOK, ModelsInv, NEW c \in Callers, GetModelFails(c)
  PROVE  ModelsInv'
<1> DEFINE m == call[c]
           h == Head(m.todo)
           n1 == [m EXCEPT !.todo = Tail(m.todo)]
           n2 == [n1 EXCEPT !.failed = m.failed \cup {h}]
<1>1. /\ m.pc = "models" /\ m.todo # <<>> /\ faults < MaxFaults /\ faults' = faults + 1
      /\ UNCHANGED <<registered, active, names, list, refreshing>>
      /\ call' = [call EXCEPT ![c] = n2]
  BY DEF GetModelFails
<1>2. Enumerating(m)
  BY <1>1 DEF Enumerating
<1>3. /\ refreshing # <<>> /\ Head(refreshing) = c /\ InLine(m)
      /\ CachedIn(names, list, m.want) = Nothing
      /\ m.want \in (Names \cup {"list"}) \ Pinned
      /\ m \in Calls /\ Enumerates(registered, m)
  BY <1>1, <1>2, HolderFacts
<1>4. registered \in Seq(Hashes) /\ IsInjective(registered) /\ faults' \in 0..MaxFaults
  <2>1. faults \in 0..MaxFaults /\ MaxFaults \in Nat
    BY DEF ModelsInv, CatalogueConstantsOK
  <2> QED
    BY <1>1, <2>1 DEF ModelsInv, RegistryPart
<1> HIDE DEF m
<1>5. m.todo \in Seq(Hashes) /\ m.failed \in SUBSET Hashes
  BY <1>3 DEF Calls
<1>6. h \in Hashes /\ Tail(m.todo) \in Seq(Hashes)
  BY <1>1, <1>5
<1>7. m.failed \cup {h} \in SUBSET Hashes
  BY <1>5, <1>6
<1>8. /\ n1 \in Calls /\ n1.pc = m.pc /\ n1.want = m.want /\ n1.todo = Tail(m.todo)
      /\ n1.read = m.read /\ n1.found = m.found
  BY <1>3, <1>6, TodoField
<1> HIDE DEF n1
<1>9. /\ n2 \in Calls /\ n2.pc = m.pc /\ n2.want = m.want /\ n2.todo = Tail(m.todo)
      /\ n2.read = m.read /\ n2.failed = m.failed \cup {h} /\ n2.found = m.found
  BY <1>7, <1>8, FailedField
<1> HIDE DEF n2
<1>10. Enumerates(registered, n2)
  BY <1>1, <1>3, <1>4, <1>9, EnumerationGoesOn
<1>11. CallOK(registered, n2) /\ Enumerating(n2)
  BY <1>1, <1>3, <1>9, <1>10 DEF CallOK, Enumerating
<1>12. InLine(call[c])
  BY <1>3 DEF m
<1> QED
  BY <1>1, <1>3, <1>4, <1>9, <1>11, <1>12, HolderStep

\* A name map of what an enumeration found mirrors the registry.
LEMMA MapMirrors ==
  ASSUME CatalogueConstantsOK, registered \in Seq(Hashes), IsInjective(registered),
         NEW found, NEW w, NEW nm, nm.read \in 0..Len(registered),
         HashesOf(found) = Listable(registered, nm.read, nm.failed),
         nm.content = NameMap(HashesOf(found), w)
  PROVE  /\ NamesMirror(registered, nm)
         /\ nm.content \in [Names -> Entries]
         /\ w \in Names /\ Named(registered, nm, w) = {} => nm.content[w] = "negative"
<1> DEFINE H == HashesOf(found)
           I(n) == {i \in DOMAIN registered : registered[i] \in H /\ NameOf[registered[i]] = n}
<1>1. Len(registered) \in Nat /\ DOMAIN registered = 1..Len(registered)
  OBVIOUS
<1>2. 1..nm.read \subseteq 1..Len(registered)
  BY <1>1
<1>3. H = {registered[i] : i \in
             {j \in 1..nm.read : registered[j] \notin nm.failed /\ NameOf[registered[j]] # ""}}
  BY DEF Listable
<1>4. \A i, j \in 1..Len(registered) : registered[i] = registered[j] => i = j
  BY <1>1 DEF IsInjective
<1>5. \A n \in Names : n # ""
  BY DEF CatalogueConstantsOK
<1>6. nm.content = [x \in Names |-> IF I(x) = {} THEN IF x = w THEN "negative" ELSE Nothing
                               ELSE Latest(registered, I(x))]
  BY DEF NameMap
<1> HIDE DEF H
<1>7. ASSUME NEW n \in Names
      PROVE  I(n) = Named(registered, nm, n)
  <2>1. ASSUME NEW i \in I(n)
        PROVE  i \in Named(registered, nm, n)
    <3>1. i \in 1..Len(registered) /\ registered[i] \in H /\ NameOf[registered[i]] = n
      BY <1>1
    <3>2. PICK j \in 1..nm.read : registered[j] \notin nm.failed /\ registered[i] = registered[j]
      BY <1>3, <3>1
    <3>3. i = j
      BY <1>2, <1>4, <3>1, <3>2
    <3> QED
      BY <3>1, <3>2, <3>3 DEF Named
  <2>2. ASSUME NEW i \in Named(registered, nm, n)
        PROVE  i \in I(n)
    <3>1. i \in 1..nm.read /\ registered[i] \notin nm.failed /\ NameOf[registered[i]] = n
      BY DEF Named
    <3>2. registered[i] \in H
      BY <1>3, <1>5, <3>1
    <3> QED
      BY <1>1, <1>2, <3>1, <3>2
  <2> QED
    BY <2>1, <2>2
<1>8. ASSUME NEW n \in Names
      PROVE  /\ I(n) \in SUBSET (1..Len(registered)) /\ \A i \in I(n) : NameOf[registered[i]] = n
             /\ I(n) # {} => Latest(registered, I(n)) \in Hashes
  <2>1. I(n) \in SUBSET (1..Len(registered)) /\ \A i \in I(n) : NameOf[registered[i]] = n
    BY <1>1
  <2> HIDE DEF I
  <2> QED
    BY <2>1, LatestIsNamed
<1> HIDE DEF I
<1>9. NamesMirror(registered, nm)
  BY <1>6, <1>7 DEF NamesMirror
<1>10. nm.content \in [Names -> Entries]
  BY <1>6, <1>8 DEF Entries
<1>11. w \in Names /\ Named(registered, nm, w) = {} => nm.content[w] = "negative"
  BY <1>6, <1>7
<1> QED
  BY <1>9, <1>10, <1>11

\* The enumeration is over: the cache is replaced, the lock let go, the
\* request answered.
LEMMA RefreshStep ==
  ASSUME CatalogueConstantsOK, ModelsInv, NEW c \in Callers, RefreshModelCache(c)
  PROVE  ModelsInv'
<1> DEFINE m == call[c]
           w == m.want
           map == NameMap(HashesOf(m.found), w)
           filled(content) == [age |-> 0, content |-> content, read |-> m.read, failed |-> m.failed]
<1>1. /\ m.pc = "models" /\ m.todo = <<>> /\ refreshing' = Tail(refreshing)
      /\ UNCHANGED <<registered, active, faults>>
  BY DEF RefreshModelCache
<1>2. /\ w = "list" => list' = filled(m.found) /\ call' = Finished(c, m.found) /\ names' = names
      /\ w # "list" => names' = filled(map) /\ call' = Finished(c, map[w]) /\ list' = list
  BY DEF RefreshModelCache
<1>3. Enumerating(m)
  BY <1>1 DEF Enumerating
<1>4. /\ refreshing # <<>> /\ Head(refreshing) = c /\ w \in (Names \cup {"list"}) \ Pinned
      /\ m \in Calls /\ Enumerates(registered, m)
  BY <1>1, <1>3, HolderFacts
<1>5. /\ registered \in Seq(Hashes) /\ IsInjective(registered) /\ faults' \in 0..MaxFaults
      /\ CachePart
  BY <1>1 DEF ModelsInv, RegistryPart
<1>6. Len(registered) \in Nat /\ 0 \in 0..TTL /\ TTL \in Nat
  <2>1. TTL \in Nat
    BY DEF CatalogueConstantsOK
  <2>2. Len(registered) \in Nat
    BY <1>5
  <2> QED
    BY <2>1, <2>2
<1>7. /\ m.read \in 0..Len(registered) /\ m.failed \in SUBSET Hashes
      /\ m.found \in SUBSET (Hashes \X BOOLEAN)
      /\ HashesOf(m.found) = Listable(registered, m.read, m.failed)
  <2>1. Len(m.todo) = 0
    BY <1>1
  <2>2. m.read \in Nat /\ m.failed \in SUBSET Hashes /\ m.found \in SUBSET (Hashes \X BOOLEAN)
    BY <1>4 DEF Calls
  <2>3. m.read - 0 = m.read
    BY <2>2
  <2> QED
    BY <1>4, <1>6, <2>1, <2>2, <2>3 DEF Enumerates
<1> HIDE DEF m
<1>8. CASE w = "list"
  <2>1. m.found \in Answers
    BY <1>7 DEF Answers
  <2>2. \A h \in Listing(m.found) : h \in Range(registered) /\ NameOf[h] # ""
    BY <1>5, <1>7, ListingIsNamed
  <2>3. \A q : q.want = w /\ q.answer = m.found => Real(registered, q)
    BY <1>4, <1>8, <2>2 DEF Real
  <2>4. CachePart'
    <3>1. /\ list'.read = m.read /\ list'.failed = m.failed /\ list'.content = m.found
          /\ list' \in [age : 0..TTL, content : SUBSET (Hashes \X BOOLEAN),
                       read : 0..Len(registered), failed : SUBSET Hashes]
      BY <1>2, <1>6, <1>7, <1>8
    <3>2. ListMirrors(registered, list')
      BY <1>7, <3>1 DEF ListMirrors
    <3> QED
      BY <1>1, <1>2, <1>5, <1>8, <3>1, <3>2 DEF CachePart, Caches
  <2>5. call' = Finished(c, m.found)
    BY <1>2, <1>8
  <2> QED
    BY <1>1, <1>3, <1>4, <1>5, <2>1, <2>3, <2>4, <2>5, AnswerStep DEF m
<1>9. CASE w # "list"
  <2>1. names' = filled(map) /\ call' = Finished(c, map[w]) /\ list' = list /\ w \in Names
    BY <1>2, <1>4, <1>9
  <2> DEFINE nm == filled(map)
  <2>2. nm.read = m.read /\ nm.failed = m.failed /\ nm.content = map /\ nm.age = 0
    OBVIOUS
  <2>3. nm \in [age : {0}, content : {map}, read : {m.read}, failed : {m.failed}]
    OBVIOUS
  <2> HIDE DEF nm
  <2>4. /\ NamesMirror(registered, nm) /\ map \in [Names -> Entries]
        /\ Named(registered, nm, w) = {} => map[w] = "negative"
    <3>1. /\ nm.read \in 0..Len(registered)
          /\ HashesOf(m.found) = Listable(registered, nm.read, nm.failed)
          /\ nm.content = NameMap(HashesOf(m.found), w)
      BY <1>7, <2>2
    <3> HIDE DEF map, w
    <3>2. /\ NamesMirror(registered, nm) /\ nm.content \in [Names -> Entries]
          /\ w \in Names /\ Named(registered, nm, w) = {} => nm.content[w] = "negative"
      BY <1>5, <3>1, MapMirrors
    <3> QED
      BY <2>1, <2>2, <3>2
  <2> HIDE DEF map
  <2>5. CachePart'
    <3>1. nm \in [age : 0..TTL, content : [Names -> Entries],
                  read : 0..Len(registered), failed : SUBSET Hashes]
      BY <1>6, <1>7, <2>3, <2>4
    <3>2. names' = nm
      BY <2>1 DEF nm
    <3> QED
      BY <1>1, <1>5, <2>1, <2>4, <3>1, <3>2 DEF CachePart, Caches
  <2>6. map[w] \in Answers /\ \A q : q.want = w /\ q.answer = map[w] => Real(registered, q)
    <3> DEFINE I == Named(registered, nm, w)
    <3>1. map[w] \in Answers
      BY <2>1, <2>4 DEF Answers
    <3>2. CASE I = {}
      BY <1>4, <1>9, <2>4, <3>1, <3>2 DEF Real
    <3>3. CASE I # {}
      <4>1. map[w] = Latest(registered, I)
        BY <2>1, <2>2, <2>4, <3>3 DEF NamesMirror
      <4>2. I \in SUBSET (1..Len(registered)) /\ \A i \in I : NameOf[registered[i]] = w
        BY <1>6, <1>7, <2>2 DEF Named
      <4> HIDE DEF I
      <4>3. /\ Latest(registered, I) \in Range(registered)
            /\ NameOf[Latest(registered, I)] = w
        <5> HIDE DEF w
        <5> QED
          BY <1>5, <3>3, <4>2, LatestIsNamed
      <4> QED
        BY <1>4, <1>9, <3>1, <4>1, <4>3 DEF Real
    <3> QED
      BY <3>2, <3>3
  <2> QED
    BY <1>1, <1>3, <1>4, <1>5, <2>1, <2>5, <2>6, AnswerStep DEF m
<1> QED
  BY <1>8, <1>9

\* The response is out.
LEMMA ReturnStep ==
  ASSUME ModelsInv, NEW c \in Callers, Return(c)
  PROVE  ModelsInv'
<1>1. /\ call[c].pc = "done" /\ call' = [call EXCEPT ![c] = Idle]
      /\ UNCHANGED <<registered, active, names, list, refreshing, faults>>
  BY DEF Return
<1>2. RegistryPart /\ CachePart /\ LockPart /\ faults \in 0..MaxFaults
  BY DEF ModelsInv
<1>3. CachePart'
  BY <1>1, <1>2, QuietCaches
<1>4. /\ refreshing \in Seq(Callers) /\ IsInjective(refreshing) /\ c \notin Range(refreshing)
      /\ \A d \in Callers \ {c} : Enumerating(call[d]) =>
           refreshing # <<>> /\ Head(refreshing) = d /\ CachedIn(names, list, call[d].want) = Nothing
  BY <1>1, <1>2 DEF LockPart, InLine
<1> QED
  BY <1>1, <1>2, <1>3, <1>4, IdleCall, CallStep

\* A client hangs up: its place at the lock goes, whoever has it keeps it.
LEMMA HangUpStep ==
  ASSUME ModelsInv, NEW c \in Callers, HangUp(c)
  PROVE  ModelsInv'
<1>1. /\ InLine(call[c]) /\ call' = [call EXCEPT ![c] = Idle]
      /\ refreshing' = LeaveLock(c)
      /\ UNCHANGED <<registered, active, names, list, faults>>
  BY DEF HangUp, InLine
<1>2. RegistryPart /\ CachePart /\ LockPart /\ faults \in 0..MaxFaults
  BY DEF ModelsInv
<1>3. CachePart'
  BY <1>1, <1>2, QuietCaches
<1>4. /\ refreshing \in Seq(Callers) /\ IsInjective(refreshing) /\ c \in Range(refreshing)
      /\ \A d \in Callers \ {c} : Enumerating(call[d]) =>
           refreshing # <<>> /\ Head(refreshing) = d /\ CachedIn(names, list, call[d].want) = Nothing
  BY <1>1, <1>2 DEF LockPart
<1>5. /\ refreshing' \in Seq(Callers) /\ IsInjective(refreshing')
      /\ Range(refreshing') = Range(refreshing) \ {c}
      /\ Head(refreshing) # c => refreshing' # <<>> /\ Head(refreshing') = Head(refreshing)
  BY <1>1, <1>4, QueueLeft
<1> QED
  BY <1>1, <1>2, <1>3, <1>4, <1>5, IdleCall, CallStep

\* A registration under an enumeration, and under an answer.
LEMMA RegistryGrowsUnderCall ==
  ASSUME NEW reg \in Seq(Hashes), NEW h \in Hashes, NEW r \in Calls, CallOK(reg, r)
  PROVE  CallOK(Append(reg, h), r)
<1> DEFINE t == Append(reg, h)
<1>1. /\ t \in Seq(Hashes) /\ Len(t) = Len(reg) + 1 /\ Len(reg) \in Nat
      /\ \A i \in 1..Len(reg) : t[i] = reg[i]
      /\ Range(t) = Range(reg) \cup {h}
  <2>1. Len(reg) \in Nat
    OBVIOUS
  <2> QED
    BY <2>1, RegistryGrows
<1>2. \A k \in 0..Len(reg) : \A F : Listable(t, k, F) = Listable(reg, k, F)
  BY PrefixStays
<1> HIDE DEF t
<1>3. ASSUME Enumerates(reg, r)
      PROVE  Enumerates(t, r)
    <2> DEFINE l == Len(r.todo)
               k == r.read - l
    <2>1. /\ r.read <= Len(reg) /\ l <= r.read
          /\ \A j \in 1..l : r.todo[j] = reg[k + j]
          /\ r.failed \subseteq {reg[i] : i \in 1..k}
          /\ HashesOf(r.found) = Listable(reg, k, r.failed)
      BY <1>3 DEF Enumerates
    <2>2. r.todo \in Seq(Hashes) /\ r.read \in Nat
      BY DEF Calls
    <2>3. l \in Nat
      BY <2>2
    <2> HIDE DEF l
    <2>4. /\ k \in 0..Len(reg) /\ r.read <= Len(t)
          /\ \A j \in 1..l : k + j \in 1..Len(reg)
          /\ \A i \in 1..k : i \in 1..Len(reg)
      BY <1>1, <2>1, <2>2, <2>3
    <2> HIDE DEF k
    <2>5. \A j \in 1..l : r.todo[j] = t[k + j]
      BY <1>1, <2>1, <2>4
    <2>6. {t[i] : i \in 1..k} = {reg[i] : i \in 1..k}
      BY <1>1, <2>4
    <2> QED
      BY <1>2, <2>1, <2>4, <2>5, <2>6 DEF Enumerates, k, l
<1>4. Real(reg, r) => Real(t, r)
  BY <1>1 DEF Real
<1> QED
  BY <1>3, <1>4 DEF CallOK, t

\* A model is registered.
LEMMA RegisterStep ==
  ASSUME ModelsInv, NEW h \in Hashes, Register(h)
  PROVE  ModelsInv'
<1>1. /\ h \notin Range(registered) /\ registered' = Append(registered, h)
      /\ active' = active \cup {h} /\ UNCHANGED <<names, list, refreshing, call, faults>>
  BY DEF Register
<1>2. RegistryPart /\ CachePart /\ CallPart /\ LockPart /\ faults \in 0..MaxFaults
  BY DEF ModelsInv
<1>3. registered \in Seq(Hashes) /\ IsInjective(registered) /\ Len(registered) \in Nat
  BY <1>2 DEF RegistryPart
<1>4. /\ registered' \in Seq(Hashes) /\ Len(registered') = Len(registered) + 1
      /\ IsInjective(registered') /\ Range(registered') = Range(registered) \cup {h}
  BY <1>1, <1>3, RegistryGrows
<1>5. RegistryPart'
  BY <1>1, <1>2, <1>4 DEF RegistryPart
<1>6. /\ names.read \in 0..Len(registered) /\ list.read \in 0..Len(registered)
      /\ NamesMirror(registered, names) /\ ListMirrors(registered, list)
  BY <1>2 DEF CachePart, Caches
<1>7. CachePart'
  <2>1. names' \in Caches([Names -> Entries])'
    <3>1. \A i \in 0..Len(registered) : i \in 0..(Len(registered) + 1)
      BY <1>3
    <3> QED
      BY <1>1, <1>2, <1>4, <3>1 DEF CachePart, Caches, Entries
  <2>2. list' \in Caches(SUBSET (Hashes \X BOOLEAN))'
    <3>1. \A i \in 0..Len(registered) : i \in 0..(Len(registered) + 1)
      BY <1>3
    <3> QED
      BY <1>1, <1>2, <1>4, <3>1 DEF CachePart, Caches
  <2>3. ListMirrors(registered', list)
    BY <1>1, <1>3, <1>6, PrefixStays DEF ListMirrors
  <2>4. NamesMirror(registered', names)
    <3> SUFFICES ASSUME NEW n \in Names
                 PROVE  IF Named(registered', names, n) = {}
                        THEN names.content[n] \in {"negative", Nothing}
                        ELSE names.content[n] =
                               Latest(registered', Named(registered', names, n))
      BY DEF NamesMirror
    <3> DEFINE I == Named(registered, names, n)
    <3>1. Named(registered', names, n) = I
      BY <1>1, <1>3, <1>6, PrefixStays
    <3>2. 1..names.read \subseteq 1..Len(registered)
      BY <1>3, <1>6
    <3>3. I \in SUBSET (1..Len(registered))
      BY <3>2 DEF Named
    <3>4. IF I = {} THEN names.content[n] \in {"negative", Nothing}
          ELSE names.content[n] = Latest(registered, I)
      BY <1>6 DEF NamesMirror
    <3> HIDE DEF I
    <3>5. I # {} => Latest(registered', I) = Latest(registered, I)
      BY <1>1, <1>3, <3>3, PrefixStays
    <3> QED
      BY <3>1, <3>4, <3>5
  <2> QED
    BY <1>1, <2>1, <2>2, <2>3, <2>4 DEF CachePart
<1>8. CallPart'
  <2>1. call \in [Callers -> Calls] /\ \A c \in Callers : CallOK(registered, call[c])
    BY <1>2 DEF CallPart
  <2>2. \A c \in Callers : CallOK(registered', call[c])
    BY <1>1, <1>3, <2>1, RegistryGrowsUnderCall
  <2> QED
    BY <1>1, <2>1, <2>2 DEF CallPart
<1>9. LockPart' /\ faults' \in 0..MaxFaults
  BY <1>1, <1>2 DEF LockPart
<1> QED
  BY <1>5, <1>7, <1>8, <1>9 DEF ModelsInv

\* A model is switched on or off.
LEMMA UpdateModelStatusStep ==
  ASSUME ModelsInv, NEW h, UpdateModelStatus(h)
  PROVE  ModelsInv'
<1>1. /\ h \in Range(registered)
      /\ active' \subseteq active \cup {h}
      /\ UNCHANGED <<registered, names, list, refreshing, call, faults>>
  BY DEF UpdateModelStatus
<1>2. RegistryPart /\ CachePart /\ CallPart /\ LockPart /\ faults \in 0..MaxFaults
  BY DEF ModelsInv
<1>3. RegistryPart'
  BY <1>1, <1>2 DEF RegistryPart
<1>4. CachePart'
  BY <1>1, <1>2, QuietCaches
<1>5. CallPart' /\ LockPart' /\ faults' \in 0..MaxFaults
  BY <1>1, <1>2 DEF CallPart, LockPart
<1> QED
  BY <1>3, <1>4, <1>5 DEF ModelsInv

\* An empty cache mirrors any registry and answers nothing.
LEMMA UnfilledMirrors ==
  ASSUME NEW reg, NEW content, TTL \in Nat,
         NEW cache, cache = Unfilled(content)
  PROVE  /\ cache.age = TTL /\ cache.content = content /\ cache.read = 0 /\ ~Live(cache)
         /\ cache \in [age : {TTL}, content : {content}, read : {0}, failed : {{}}]
         /\ content = NoNames => NamesMirror(reg, cache)
         /\ content = {} => ListMirrors(reg, cache)
<1>1. cache = [age |-> TTL, content |-> content, read |-> 0, failed |-> {}]
  BY DEF Unfilled
<1>2. /\ cache.age = TTL /\ cache.content = content /\ cache.read = 0 /\ cache.failed = {}
      /\ cache \in [age : {TTL}, content : {content}, read : {0}, failed : {{}}]
  BY <1>1
<1>3. ~Live(cache)
  BY <1>2 DEF Live
<1>4. 1..0 = {}
  OBVIOUS
<1>5. content = NoNames => NamesMirror(reg, cache)
  <2>1. \A n : Named(reg, cache, n) = {}
    BY <1>2, <1>4 DEF Named
  <2> QED
    BY <1>2, <2>1 DEF NamesMirror, NoNames
<1>6. content = {} => ListMirrors(reg, cache)
  <2>1. Listable(reg, 0, {}) = {}
    BY <1>4 DEF Listable
  <2>2. HashesOf({}) = {}
    BY DEF HashesOf
  <2> QED
    BY <1>2, <2>1, <2>2 DEF ListMirrors
<1> QED
  BY <1>2, <1>3, <1>5, <1>6

\* A cache that is still live is older, one that is not is empty.
LEMMA TickStep ==
  ASSUME CatalogueConstantsOK, ModelsInv, Tick
  PROVE  ModelsInv'
<1>1. /\ names' = Older(names, NoNames) /\ list' = Older(list, {})
      /\ UNCHANGED <<registered, active, refreshing, call, faults>>
  BY DEF Tick
<1>2. RegistryPart /\ CachePart /\ CallPart /\ LockPart /\ faults \in 0..MaxFaults
  BY DEF ModelsInv
<1>3. TTL \in Nat /\ registered \in Seq(Hashes)
  BY <1>2 DEF CatalogueConstantsOK, RegistryPart
<1>4. /\ names \in [age : 0..TTL, content : [Names -> Entries],
                    read : 0..Len(registered), failed : SUBSET Hashes]
      /\ list \in [age : 0..TTL, content : SUBSET (Hashes \X BOOLEAN),
                   read : 0..Len(registered), failed : SUBSET Hashes]
      /\ NamesMirror(registered, names) /\ ListMirrors(registered, list)
  BY <1>2 DEF CachePart, Caches
<1>5. NoNames \in [Names -> Entries]
  BY DEF NoNames, Entries
<1>6. 0 \in 0..Len(registered)
  BY <1>3
<1>7. /\ names' \in [age : 0..TTL, content : [Names -> Entries],
                     read : 0..Len(registered), failed : SUBSET Hashes]
      /\ NamesMirror(registered, names')
      /\ Live(names') => names'.content = names.content /\ Live(names)
  <2>1. CASE names.age + 1 < TTL
    <3>1. names' = [names EXCEPT !.age = names.age + 1]
      BY <1>1, <2>1 DEF Older
    <3>2. /\ names'.content = names.content /\ names'.read = names.read
          /\ names'.failed = names.failed /\ Live(names)
          /\ names' \in [age : 0..TTL, content : [Names -> Entries],
                         read : 0..Len(registered), failed : SUBSET Hashes]
      BY <1>3, <1>4, <2>1, <3>1 DEF Live
    <3>3. \A n : Named(registered, names', n) = Named(registered, names, n)
      BY <3>2 DEF Named
    <3> QED
      BY <1>4, <3>2, <3>3 DEF NamesMirror
  <2>2. CASE ~(names.age + 1 < TTL)
    <3>1. names' = Unfilled(NoNames)
      BY <1>1, <2>2 DEF Older
    <3>2. /\ NamesMirror(registered, names') /\ ~Live(names')
          /\ names' \in [age : {TTL}, content : {NoNames}, read : {0}, failed : {{}}]
      BY <1>3, <3>1, UnfilledMirrors
    <3> QED
      BY <1>3, <1>5, <1>6, <3>2
  <2> QED
    BY <2>1, <2>2
<1>8. /\ list' \in [age : 0..TTL, content : SUBSET (Hashes \X BOOLEAN),
                    read : 0..Len(registered), failed : SUBSET Hashes]
      /\ ListMirrors(registered, list')
      /\ Live(list') => list'.content = list.content /\ Live(list)
  <2>1. CASE list.age + 1 < TTL
    <3>1. list' = [list EXCEPT !.age = list.age + 1]
      BY <1>1, <2>1 DEF Older
    <3>2. /\ list'.content = list.content /\ list'.read = list.read
          /\ list'.failed = list.failed /\ Live(list)
          /\ list' \in [age : 0..TTL, content : SUBSET (Hashes \X BOOLEAN),
                        read : 0..Len(registered), failed : SUBSET Hashes]
      BY <1>3, <1>4, <2>1, <3>1 DEF Live
    <3> QED
      BY <1>4, <3>2 DEF ListMirrors
  <2>2. CASE ~(list.age + 1 < TTL)
    <3>1. list' = Unfilled({})
      BY <1>1, <2>2 DEF Older
    <3>2. /\ ListMirrors(registered, list') /\ ~Live(list')
          /\ list' \in [age : {TTL}, content : {{}}, read : {0}, failed : {{}}]
      BY <1>3, <3>1, UnfilledMirrors
    <3> QED
      BY <1>3, <1>6, <3>2
  <2> QED
    BY <2>1, <2>2
<1>9. CachePart'
  BY <1>1, <1>7, <1>8 DEF CachePart, Caches, Entries
<1>10. RegistryPart' /\ CallPart' /\ faults' \in 0..MaxFaults
  BY <1>1, <1>2 DEF RegistryPart, CallPart
<1>11. \A w : CachedIn(names, list, w) = Nothing => CachedIn(names', list', w) = Nothing
  BY <1>7, <1>8 DEF CachedIn
<1>12. LockPart'
  BY <1>1, <1>2, <1>11 DEF LockPart
<1> QED
  BY <1>9, <1>10, <1>12 DEF ModelsInv

\* Nobody has asked yet and the caches are empty.
LEMMA ModelsInit ==
  ASSUME CatalogueConstantsOK, CatalogueInit
  PROVE  ModelsInv
<1>1. /\ registered = Deleted /\ active = {} /\ refreshing = <<>> /\ faults = 0
      /\ names = Unfilled(NoNames) /\ list = Unfilled({})
      /\ call = [c \in Callers |-> Idle]
  BY DEF CatalogueInit
<1>2. TTL \in Nat /\ MaxFaults \in Nat /\ Deleted \in Seq(Hashes) /\ IsInjective(Deleted)
  BY DEF CatalogueConstantsOK
<1>3. RegistryPart
  BY <1>1, <1>2 DEF RegistryPart
<1>4. CachePart
  <2>1. /\ NamesMirror(registered, names)
        /\ names \in [age : {TTL}, content : {NoNames}, read : {0}, failed : {{}}]
    BY <1>1, <1>2, UnfilledMirrors
  <2>2. /\ ListMirrors(registered, list)
        /\ list \in [age : {TTL}, content : {{}}, read : {0}, failed : {{}}]
    BY <1>1, <1>2, UnfilledMirrors
  <2>3. 0 \in 0..Len(registered) /\ TTL \in 0..TTL
    BY <1>1, <1>2
  <2>4. NoNames \in [Names -> Entries]
    BY DEF NoNames, Entries
  <2> QED
    BY <2>1, <2>2, <2>3, <2>4 DEF CachePart, Caches
<1>5. CallPart /\ \A c \in Callers : call[c] = Idle
  BY <1>1, IdleCall DEF CallPart
<1>6. LockPart
  <2>1. refreshing \in Seq(Callers) /\ DOMAIN refreshing = {}
    BY <1>1
  <2>2. IsInjective(refreshing) /\ Range(refreshing) = {}
    BY <2>1 DEF IsInjective, Range
  <2> QED
    BY <1>5, <2>1, <2>2, IdleCall DEF LockPart
<1>7. faults \in 0..MaxFaults
  BY <1>1, <1>2
<1> QED
  BY <1>3, <1>4, <1>5, <1>6, <1>7 DEF ModelsInv

LEMMA ModelsNext ==
  ASSUME CatalogueConstantsOK, ModelsInv, [CatalogueNext]_catalogueVars
  PROVE  ModelsInv'
<1>1. CASE UNCHANGED catalogueVars
  <2>1. UNCHANGED <<registered, active, names, list, refreshing, call, faults>>
    BY <1>1 DEF catalogueVars
  <2>2. CachePart'
    BY <2>1, QuietCaches DEF ModelsInv
  <2> QED
    BY <2>1, <2>2 DEF ModelsInv, RegistryPart, CallPart, LockPart
<1>2. ASSUME NEW c \in Callers, NEW w \in Names \cup Pinned \cup {"list"}, Ask(c, w)
      PROVE  ModelsInv'
  BY <1>2, AskStep
<1>3. ASSUME NEW c \in Callers, Step(c)
      PROVE  ModelsInv'
  BY <1>3, RecheckStep, GetAllModelHashesStep, GetAllModelHashesFailsStep, GetModelStep,
     GetModelFailsStep, RefreshStep DEF Step
<1>4. ASSUME NEW c \in Callers, Return(c) \/ HangUp(c)
      PROVE  ModelsInv'
  BY <1>4, ReturnStep, HangUpStep
<1>5. ASSUME NEW h \in Hashes, Register(h)
      PROVE  ModelsInv'
  BY <1>5, RegisterStep
<1>6. ASSUME NEW h \in Switched, UpdateModelStatus(h)
      PROVE  ModelsInv'
  BY <1>6, UpdateModelStatusStep
<1>7. CASE Tick
  BY <1>7, TickStep
<1> QED
  BY <1>1, <1>2, <1>3, <1>4, <1>5, <1>6, <1>7 DEF CatalogueNext

LEMMA ModelsImplies ==
  ASSUME ModelsInv
  PROVE  CatalogueInv
<1>1. RegistryPart /\ CachePart /\ CallPart /\ LockPart /\ faults \in 0..MaxFaults
  BY DEF ModelsInv
<1>2. \A c \in Callers : call[c] \in Calls /\ CallOK(registered, call[c])
  BY <1>1 DEF CallPart
<1>3. CatalogueTypeOK
  <2>1. registered \in Seq(Hashes) /\ Len(registered) \in Nat /\ DOMAIN registered = 1..Len(registered)
    BY <1>1 DEF RegistryPart
  <2>2. ASSUME NEW c \in Callers
        PROVE  Range(call[c].todo) \subseteq Range(registered)
    <3> DEFINE m == call[c]
    <3>1. CASE m.pc = "models"
      <4> DEFINE l == Len(m.todo)
                 k == m.read - l
      <4>1. /\ m.read <= Len(registered) /\ l <= m.read
            /\ \A j \in 1..l : m.todo[j] = registered[k + j]
        BY <1>2, <3>1 DEF CallOK, Enumerates
      <4>2. m.todo \in Seq(Hashes) /\ m.read \in Nat
        BY <1>2 DEF Calls
      <4> HIDE DEF m
      <4>3. l \in Nat /\ DOMAIN m.todo = 1..l
        BY <4>2
      <4> HIDE DEF l
      <4>4. \A j \in 1..l : k + j \in 1..Len(registered)
        BY <2>1, <4>1, <4>2, <4>3
      <4> HIDE DEF k
      <4>5. Range(m.todo) \subseteq Range(registered)
        BY <2>1, <4>1, <4>3, <4>4 DEF Range
      <4> QED
        BY <4>5 DEF m
    <3>2. CASE m.pc # "models"
      <4>1. m.todo = <<>>
        BY <1>2, <3>2 DEF CallOK
      <4>2. Range(<<>>) = {}
        BY DEF Range
      <4> QED
        BY <4>1, <4>2
    <3> QED
      BY <3>1, <3>2
  <2>3. \A c \in Callers : /\ call[c].pc \in {"idle", "queued", "hashes", "models", "done"}
                           /\ call[c].want \in Names \cup Pinned \cup {"list", "none"}
    BY <1>2 DEF Calls
  <2> QED
    BY <1>1, <2>2, <2>3 DEF CatalogueTypeOK, RegistryPart, CachePart, LockPart
<1>4. EnumerationsAreNeeded
  <2>1. \A c \in Callers : Cached(call[c].want) = CachedIn(names, list, call[c].want)
    BY CachedIsCachedIn
  <2> QED
    BY <1>1, <2>1 DEF EnumerationsAreNeeded, LockPart, Enumerating
<1>5. QueueIsManned
  BY <1>1 DEF QueueIsManned, LockPart, InLine
<1>6. CachesMirrorRegistry
  BY <1>1 DEF CachesMirrorRegistry, CachePart, NamesMirror, ListMirrors
<1>7. AnswersAreReal
  <2> SUFFICES ASSUME NEW c \in Callers, call[c].pc = "done"
               PROVE  CASE call[c].want = "list" ->
                             \A h \in Listing(call[c].answer) :
                               h \in Range(registered) /\ NameOf[h] # ""
                        [] call[c].want \in Pinned -> call[c].answer = call[c].want
                        [] OTHER -> \/ call[c].answer = "negative"
                                    \/ /\ call[c].answer \in Range(registered)
                                       /\ NameOf[call[c].answer] = call[c].want
    BY DEF AnswersAreReal
  <2>1. Real(registered, call[c])
    BY <1>2 DEF CallOK
  <2>2. CASE call[c].want = "list"
    BY <2>1, <2>2 DEF Real
  <2>3. CASE call[c].want # "list" /\ call[c].want \in Pinned
    BY <2>1, <2>3 DEF Real
  <2>4. CASE call[c].want # "list" /\ call[c].want \notin Pinned
    BY <2>1, <2>4 DEF Real
  <2> QED
    BY <2>2, <2>3, <2>4
<1> QED
  BY <1>3, <1>4, <1>5, <1>6, <1>7 DEF CatalogueInv

-----------------------------------------------------------------------------
\* CatalogueInv: for any registry and any number of requests, the registry is
\* enumerated by one request at a time and only when the cache has no answer,
\* a request that hangs up leaves no place behind at the refresh lock, the
\* caches say what the registry said when they were filled, and no request is
\* answered with a hash that was not registered under its name.
THEOREM CatalogueAlwaysSound ==
  CatalogueSpec => []CatalogueInv
<1> USE CatalogueAssumption
<1>1. CatalogueInit => ModelsInv
  BY ModelsInit
<1>2. ModelsInv /\ [CatalogueNext]_catalogueVars => ModelsInv'
  BY ModelsNext
<1>3. ModelsInv => CatalogueInv
  BY ModelsImplies
<1> QED
  BY <1>1, <1>2, <1>3, PTL DEF CatalogueSpec
=============================================================================
