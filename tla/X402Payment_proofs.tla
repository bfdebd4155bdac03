------------------------- MODULE X402Payment_proofs -------------------------
(***************************************************************************)
(* Proofs about the x402 payment layer and its nonce ledger, for any       *)
(* number of requests, any capacity of the ledger, any prices, offers and  *)
(* time to live; and at the end about the operator's wallet.               *)
(***************************************************************************)
EXTENDS X402Payment, OperatorWallet, FiniteSetTheorems, Totals_proofs

-----------------------------------------------------------------------------
(* The two indexes of the ledger.                                          *)

\* es and ord describe the same challenges.
Agree(es, ord) ==
  /\ \A n \in DOMAIN es : es[n].seq \in DOMAIN ord /\ ord[es[n].seq] = n
  /\ \A s \in DOMAIN ord : ord[s] \in DOMAIN es /\ es[ord[s]].seq = s

\* What Without leaves.
LEMMA WithoutProperties ==
  ASSUME NEW f, NEW S
  PROVE  /\ DOMAIN Without(f, S) = DOMAIN f \ S
         /\ \A x \in DOMAIN f \ S : Without(f, S)[x] = f[x]
BY DEF Without, Restrict

\* Challenges taken out of both indexes leave them in agreement.
LEMMA AgreeWithout ==
  ASSUME NEW es, NEW ord, Agree(es, ord), NEW S, S \subseteq DOMAIN es
  PROVE  Agree(Without(es, S), Without(ord, SequencesOf(es, S)))
<1> DEFINE T == SequencesOf(es, S)
<1>1. \A n \in DOMAIN es : es[n].seq \in T <=> n \in S
  BY DEF Agree, SequencesOf
<1>2. \A s \in DOMAIN ord : s \in T <=> ord[s] \in S
  BY <1>1 DEF Agree
<1>3. /\ DOMAIN Without(es, S) = DOMAIN es \ S
      /\ \A n \in DOMAIN es \ S : Without(es, S)[n] = es[n]
      /\ DOMAIN Without(ord, T) = DOMAIN ord \ T
      /\ \A s \in DOMAIN ord \ T : Without(ord, T)[s] = ord[s]
  BY WithoutProperties
<1> HIDE DEF T
<1>4. QED
  BY <1>1, <1>2, <1>3 DEF Agree, T

\* The same when the sequences are given.
LEMMA AgreeEvict ==
  ASSUME NEW es, NEW ord, Agree(es, ord), NEW L, L \subseteq DOMAIN ord
  PROVE  /\ {ord[s] : s \in L} \subseteq DOMAIN es
         /\ Agree(Without(es, {ord[s] : s \in L}), Without(ord, L))
<1> DEFINE S == {ord[s] : s \in L}
<1>1. S \subseteq DOMAIN es
  BY DEF Agree
<1>2. SequencesOf(es, S) = L
  <2>1. \A s \in L : es[ord[s]].seq = s /\ ord[s] \in S
    BY DEF Agree
  <2>2. \A n \in S : es[n].seq \in L
    BY <2>1
  <2>3. \A x \in SequencesOf(es, S) : x \in L
    BY <2>2 DEF SequencesOf
  <2>4. \A s \in L : s \in SequencesOf(es, S)
    <3> HIDE DEF S
    <3> QED
      BY <2>1 DEF SequencesOf
  <2>5. QED
    BY <2>3, <2>4
<1>3. QED
  BY <1>1, <1>2, AgreeWithout

\* A set of naturals below a bound has a greatest element.
LEMMA GreatestElement ==
  ASSUME NEW b \in Nat, NEW T, T \subseteq Nat, T # {}, \A s \in T : s < b
  PROVE  \E m \in T : \A s \in T : s <= m
<1> DEFINE U == {u \in 0..b : b - u \in T}
<1>1. U \in SUBSET Nat
  OBVIOUS
<1>2. U # {}
  <2>1. PICK s \in T : TRUE
    OBVIOUS
  <2>2. b - s \in 0..b /\ b - (b - s) = s
    BY <2>1
  <2>3. QED
    BY <2>1, <2>2
<1>3. PICK u \in U : \A k \in U : u <= k
  <2> HIDE DEF U
  <2> QED
    BY <1>1, <1>2, LeastElement
<1>4. b - u \in T
  OBVIOUS
<1>5. ASSUME NEW s \in T PROVE s <= b - u
  <2>1. s \in Nat /\ s < b /\ b - s \in 0..b /\ b - (b - s) = s
    OBVIOUS
  <2>2. b - s \in U
    BY <2>1
  <2>3. u <= b - s /\ u \in Nat
    BY <1>3, <2>2
  <2>4. QED
    BY <2>1, <2>3
<1>6. QED
  BY <1>4, <1>5

\* The eviction loop takes nothing from a ledger with room, and exactly the
\* newest challenge from a full one.
LEMMA EvictedIsNewest ==
  ASSUME NEW es, NEW ord, Agree(es, ord), MaxOutstanding \in Nat \ {0},
         IsFiniteSet(DOMAIN es), Cardinality(DOMAIN es) <= MaxOutstanding,
         NEW b \in Nat, DOMAIN ord \subseteq Nat, \A s \in DOMAIN ord : s < b
  PROVE  \/ /\ Cardinality(DOMAIN es) < MaxOutstanding
            /\ Evicted(es, ord) = {}
         \/ /\ Cardinality(DOMAIN es) = MaxOutstanding
            /\ \E m \in DOMAIN ord : /\ Evicted(es, ord) = {m}
                                     /\ \A s \in DOMAIN ord : s <= m
<1> DEFINE D == DOMAIN ord
           C == Cardinality(DOMAIN es)
           Newer(s) == {t \in D : t > s}
<1>1. C \in Nat
  BY FS_CardinalityType
<1>2. IsFiniteSet(D)
  <2>1. \A s \in D : s <= b
    OBVIOUS
  <2>2. QED
    BY <2>1, FS_BoundedSetOfNaturals
<1>3. \A s \in D : IsFiniteSet(Newer(s)) /\ Cardinality(Newer(s)) \in Nat
  <2>1. \A s \in D : Newer(s) \subseteq D
    OBVIOUS
  <2>2. QED
    BY <1>2, <2>1, FS_Subset, FS_CardinalityType
<1>4. Evicted(es, ord) = {s \in D : Cardinality(Newer(s)) + MaxOutstanding <= C}
  BY DEF Evicted
<1>5. \A s \in D : Cardinality(Newer(s)) = 0 <=> Newer(s) = {}
  BY <1>3, FS_EmptySet
<1> HIDE DEF C
<1>6. CASE C < MaxOutstanding
  <2> HIDE DEF Newer
  <2>1. \A s \in D : ~(Cardinality(Newer(s)) + MaxOutstanding <= C)
    BY <1>1, <1>3, <1>6
  <2>2. QED
    BY <1>4, <1>6, <2>1 DEF C
<1>7. CASE C = MaxOutstanding
  <2>1. D # {}
    <3>1. DOMAIN es # {}
      BY <1>7, FS_EmptySet DEF C
    <3>2. QED
      BY <3>1 DEF Agree
  <2>2. PICK m \in D : \A s \in D : s <= m
    BY <2>1, GreatestElement
  <2>3. \A s \in D : Newer(s) = {} <=> s = m
    <3> SUFFICES ASSUME NEW s \in D PROVE Newer(s) = {} <=> s = m
      OBVIOUS
    <3>1. s \in Nat /\ m \in Nat
      OBVIOUS
    <3>2. s = m => Newer(s) = {}
      BY <2>2, <3>1
    <3>3. s # m => m \in Newer(s)
      BY <2>2, <3>1
    <3>4. QED
      BY <3>2, <3>3
  <2> HIDE DEF Newer, D
  <2>4. \A s \in D : Cardinality(Newer(s)) + MaxOutstanding <= C <=> Cardinality(Newer(s)) = 0
    BY <1>3, <1>7
  <2>5. Evicted(es, ord) = {m}
    BY <1>4, <1>5, <2>2, <2>3, <2>4
  <2>6. QED
    BY <1>7, <2>2, <2>5 DEF C, D
<1>8. QED
  BY <1>1, <1>6, <1>7 DEF C

-----------------------------------------------------------------------------
(* The operations of the ledger.                                           *)

Entry == [expires : Nat, seq : Nat, commitment : Commitments]

LedgerPart ==
  /\ DOMAIN entries \subseteq Nonces \ {0}
  /\ \A n \in DOMAIN entries : entries[n] \in Entry
  /\ DOMAIN order \subseteq Nat
  /\ nextSeq \in Nat
  /\ IndexesAgree

\* There are finitely many nonces.
LEMMA NoncesFinite == IsFiniteSet(Nonces) /\ \A S : S \subseteq Nonces => IsFiniteSet(S)
<1>1. IsFiniteSet(Nonces)
  BY FS_Interval, ConstantsAssumption DEF Nonces
<1>2. QED
  BY <1>1, FS_Subset

\* Remove: one challenge goes, the others stay as they are.
LEMMA RemoveStep ==
  ASSUME LedgerPart, NEW n \in DOMAIN entries, Remove(n)
  PROVE  /\ LedgerPart'
         /\ DOMAIN entries' = DOMAIN entries \ {n}
         /\ \A m \in DOMAIN entries' : entries'[m] = entries[m]
<1>1. /\ entries' = Without(entries, {n})
      /\ order' = Without(order, SequencesOf(entries, {n})) /\ nextSeq' = nextSeq
  BY DEF Remove, SequencesOf
<1>2. /\ DOMAIN entries' = DOMAIN entries \ {n}
      /\ \A m \in DOMAIN entries' : entries'[m] = entries[m]
      /\ DOMAIN order' \subseteq DOMAIN order
  <2>1. /\ DOMAIN Without(entries, {n}) = DOMAIN entries \ {n}
        /\ \A m \in DOMAIN entries \ {n} : Without(entries, {n})[m] = entries[m]
    BY WithoutProperties
  <2>2. DOMAIN Without(order, SequencesOf(entries, {n})) = DOMAIN order \ SequencesOf(entries, {n})
    BY WithoutProperties
  <2>3. QED
    BY <1>1, <2>1, <2>2
<1>3. Agree(entries, order)
  BY DEF LedgerPart, IndexesAgree, Agree
<1>4. Agree(entries', order')
  BY <1>1, <1>3, AgreeWithout
<1>5. Cardinality(DOMAIN entries') <= MaxOutstanding
  <2>1. IsFiniteSet(DOMAIN entries) /\ DOMAIN entries' \subseteq DOMAIN entries
    BY <1>2, NoncesFinite DEF LedgerPart
  <2>2. /\ Cardinality(DOMAIN entries') <= Cardinality(DOMAIN entries)
        /\ Cardinality(DOMAIN entries) \in Nat /\ Cardinality(DOMAIN entries') \in Nat
    BY <2>1, FS_Subset, FS_CardinalityType
  <2>3. Cardinality(DOMAIN entries) <= MaxOutstanding
    BY DEF LedgerPart, IndexesAgree
  <2>4. QED
    BY <2>2, <2>3, ConstantsAssumption
<1>6. IndexesAgree'
  BY <1>1, <1>2, <1>4, <1>5 DEF LedgerPart, IndexesAgree, Agree
<1>7. QED
  BY <1>1, <1>2, <1>6 DEF LedgerPart

\* record_bound: room is made by dropping what has expired, else the newest
\* challenge of a full ledger; the rest stays, and the new one is added.
LEMMA RecordStep ==
  ASSUME LedgerPart, NEW n \in Nonces \ {0}, n \notin DOMAIN entries,
         NEW c \in Commitments, NEW x \in Nat, NEW t \in Nat, RecordBound(n, c, x, t)
  PROVE  /\ LedgerPart'
         /\ \A m \in DOMAIN entries' :
              \/ m = n /\ entries'[m].commitment = c
              \/ m \in DOMAIN entries /\ entries'[m] = entries[m]
         /\ \A m \in DOMAIN entries \ DOMAIN entries' :
              \/ entries[m].expires <= t
              \/ Older(m) = MaxOutstanding - 1
<1>1. CASE MaxOutstanding = 0
  <2>1. UNCHANGED <<entries, order, nextSeq>>
    BY <1>1 DEF RecordBound, ledgerVars
  <2>2. QED
    BY <2>1 DEF LedgerPart, IndexesAgree
<1>2. CASE MaxOutstanding # 0
  <2> DEFINE stale == DOMAIN entries \cap {n}
             es1   == Without(entries, stale)
             ord1  == Without(order, SequencesOf(entries, stale))
             gone  == Pruned(es1, t)
             es2   == Without(es1, gone)
             ord2  == Without(ord1, SequencesOf(es1, gone))
             last  == Evicted(es2, ord2)
             out   == {ord2[s] : s \in last}
             es3   == Without(es2, out)
             ord3  == Without(ord2, last)
             new   == NewEntry(c, x)
  <2>1. /\ entries' = [m \in DOMAIN es3 \cup {n} |-> IF m = n THEN new ELSE es3[m]]
        /\ order' = [s \in DOMAIN ord3 \cup {nextSeq} |-> IF s = nextSeq THEN n ELSE ord3[s]]
        /\ nextSeq' = nextSeq + 1
    BY <1>2 DEF RecordBound
  <2>2. stale = {} /\ SequencesOf(entries, stale) = {}
    BY DEF SequencesOf
  <2> HIDE DEF stale
  <2>3. /\ DOMAIN es1 = DOMAIN entries /\ \A m \in DOMAIN entries : es1[m] = entries[m]
        /\ DOMAIN ord1 = DOMAIN order /\ \A s \in DOMAIN order : ord1[s] = order[s]
    <3>1. DOMAIN es1 = DOMAIN entries \ stale /\ \A m \in DOMAIN entries \ stale : es1[m] = entries[m]
      BY WithoutProperties
    <3>2. /\ DOMAIN ord1 = DOMAIN order \ SequencesOf(entries, stale)
          /\ \A s \in DOMAIN order \ SequencesOf(entries, stale) : ord1[s] = order[s]
      BY WithoutProperties
    <3> HIDE DEF es1, ord1
    <3>3. QED
      BY <2>2, <3>1, <3>2
  <2>4. Agree(es1, ord1)
    <3>1. Agree(entries, order) /\ stale \subseteq DOMAIN entries
      BY DEF LedgerPart, IndexesAgree, Agree, stale
    <3>2. QED
      BY <3>1, AgreeWithout
  <2> HIDE DEF es1, ord1
  <2>5. gone \subseteq DOMAIN es1 /\ \A m \in gone : entries[m].expires <= t
    BY <2>3 DEF Pruned, Expired
  <2> HIDE DEF gone
  <2>6. /\ DOMAIN es2 = DOMAIN entries \ gone /\ \A m \in DOMAIN es2 : es2[m] = entries[m]
        /\ DOMAIN ord2 \subseteq DOMAIN order
        /\ Agree(es2, ord2)
    <3>1. DOMAIN es2 = DOMAIN es1 \ gone /\ \A m \in DOMAIN es1 \ gone : es2[m] = es1[m]
      BY WithoutProperties
    <3>2. DOMAIN ord2 = DOMAIN ord1 \ SequencesOf(es1, gone)
      BY WithoutProperties
    <3>3. Agree(es2, ord2)
      BY <2>4, <2>5, AgreeWithout
    <3> HIDE DEF es2, ord2
    <3>4. QED
      BY <2>3, <2>5, <3>1, <3>2, <3>3
  <2> HIDE DEF es2, ord2
  <2>7. /\ IsFiniteSet(DOMAIN entries) /\ Cardinality(DOMAIN entries) \in Nat
        /\ Cardinality(DOMAIN entries) <= MaxOutstanding
    BY NoncesFinite, FS_CardinalityType DEF LedgerPart, IndexesAgree
  <2>8. /\ IsFiniteSet(DOMAIN es2) /\ Cardinality(DOMAIN es2) \in Nat
        /\ Cardinality(DOMAIN es2) <= Cardinality(DOMAIN entries)
        /\ Cardinality(DOMAIN es2) = Cardinality(DOMAIN entries) => DOMAIN es2 = DOMAIN entries
    BY <2>6, <2>7, FS_Subset, FS_CardinalityType
  <2>9. MaxOutstanding \in Nat \ {0} /\ Cardinality(DOMAIN es2) <= MaxOutstanding
    BY <1>2, <2>7, <2>8, ConstantsAssumption
  <2>10. nextSeq \in Nat /\ DOMAIN ord2 \subseteq Nat /\ \A s \in DOMAIN ord2 : s < nextSeq
    BY <2>6 DEF LedgerPart, IndexesAgree
  <2>11. \/ Cardinality(DOMAIN es2) < MaxOutstanding /\ last = {}
         \/ /\ Cardinality(DOMAIN es2) = MaxOutstanding
            /\ \E k \in DOMAIN ord2 : last = {k} /\ \A s \in DOMAIN ord2 : s <= k
    BY <2>6, <2>8, <2>9, <2>10, EvictedIsNewest
  <2>12. last \subseteq DOMAIN ord2
    BY DEF Evicted
  <2> HIDE DEF last
  <2>13. /\ out \subseteq DOMAIN es2 /\ Agree(es3, ord3)
         /\ DOMAIN es3 = DOMAIN es2 \ out /\ \A m \in DOMAIN es3 : es3[m] = es2[m]
         /\ DOMAIN ord3 \subseteq DOMAIN ord2
    <3>1. out \subseteq DOMAIN es2 /\ Agree(es3, ord3)
      BY <2>6, <2>12, AgreeEvict
    <3>2. DOMAIN es3 = DOMAIN es2 \ out /\ \A m \in DOMAIN es2 \ out : es3[m] = es2[m]
      <4> HIDE DEF out
      <4> QED
        BY WithoutProperties
    <3>3. DOMAIN ord3 = DOMAIN ord2 \ last
      BY WithoutProperties
    <3> HIDE DEF es3, ord3, out
    <3>4. QED
      BY <3>1, <3>2, <3>3
  <2>14. \A m \in out : \E s \in last : m = ord2[s]
    OBVIOUS
  <2>15. last = {} => out = {}
    OBVIOUS
  <2>16. \A k : last = {k} => out = {ord2[k]}
    OBVIOUS
  <2> HIDE DEF es3, ord3, out
  <2>17. IsFiniteSet(DOMAIN es3) /\ Cardinality(DOMAIN es3) + 1 <= MaxOutstanding
    <3>1. CASE Cardinality(DOMAIN es2) < MaxOutstanding /\ last = {}
      <4>1. DOMAIN es3 = DOMAIN es2
        BY <2>13, <2>15, <3>1
      <4>2. QED
        BY <2>8, <2>9, <3>1, <4>1
    <3>2. CASE /\ Cardinality(DOMAIN es2) = MaxOutstanding
               /\ \E k \in DOMAIN ord2 : last = {k} /\ \A s \in DOMAIN ord2 : s <= k
      <4>1. PICK k \in DOMAIN ord2 : last = {k}
        BY <3>2
      <4>2. out = {ord2[k]} /\ ord2[k] \in DOMAIN es2
        BY <2>13, <2>16, <4>1
      <4>3. DOMAIN es3 = DOMAIN es2 \ {ord2[k]}
        BY <2>13, <4>2
      <4>4. IsFiniteSet(DOMAIN es3) /\ Cardinality(DOMAIN es3) = Cardinality(DOMAIN es2) - 1
        BY <2>8, <4>2, <4>3, FS_RemoveElement
      <4>5. QED
        BY <2>8, <2>9, <3>2, <4>4
    <3>3. QED
      BY <2>11, <3>1, <3>2
  <2>18. /\ new \in Entry /\ new.seq = nextSeq /\ new.commitment = c
    BY <2>10 DEF NewEntry, Entry
  <2> HIDE DEF new
  <2>19. /\ DOMAIN entries' = DOMAIN es3 \cup {n} /\ n \notin DOMAIN es3
         /\ entries'[n] = new /\ \A m \in DOMAIN es3 : entries'[m] = es3[m]
         /\ DOMAIN order' = DOMAIN ord3 \cup {nextSeq} /\ nextSeq \notin DOMAIN ord3
         /\ order'[nextSeq] = n /\ \A s \in DOMAIN ord3 : order'[s] = ord3[s]
    <3>1. n \notin DOMAIN es3
      BY <2>6, <2>13
    <3>2. nextSeq \notin DOMAIN ord3
      BY <2>10, <2>13
    <3>3. QED
      BY <2>1, <3>1, <3>2
  <2>20. \A m \in DOMAIN es3 : m \in DOMAIN entries /\ es3[m] = entries[m]
    BY <2>6, <2>13
  <2>21. IndexesAgree'
    <3>1. \A m \in DOMAIN entries' : entries'[m].seq \in DOMAIN order' /\ order'[entries'[m].seq] = m
      BY <2>13, <2>18, <2>19 DEF Agree
    <3>2. \A s \in DOMAIN order' : order'[s] \in DOMAIN entries' /\ entries'[order'[s]].seq = s
      BY <2>13, <2>18, <2>19 DEF Agree
    <3>3. \A s \in DOMAIN order' : s < nextSeq'
      <4>1. nextSeq' = nextSeq + 1 /\ \A s \in DOMAIN ord3 : s \in Nat /\ s < nextSeq
        BY <2>1, <2>10, <2>13
      <4>2. QED
        BY <2>10, <2>19, <4>1
    <3>4. Cardinality(DOMAIN entries') <= MaxOutstanding
      <4>1. Cardinality(DOMAIN entries') = Cardinality(DOMAIN es3) + 1
        BY <2>17, <2>19, FS_AddElement
      <4>2. QED
        BY <2>17, <4>1
    <3>5. QED
      BY <3>1, <3>2, <3>3, <3>4 DEF IndexesAgree
  <2>22. LedgerPart'
    <3>1. DOMAIN entries' \subseteq Nonces \ {0}
      BY <2>19, <2>20 DEF LedgerPart
    <3>2. \A m \in DOMAIN entries' : entries'[m] \in Entry
      BY <2>18, <2>19, <2>20 DEF LedgerPart
    <3>3. DOMAIN order' \subseteq Nat /\ nextSeq' \in Nat
      BY <2>1, <2>10, <2>13, <2>19
    <3>4. QED
      BY <2>21, <3>1, <3>2, <3>3 DEF LedgerPart
  <2>23. ASSUME NEW m \in DOMAIN entries \ DOMAIN entries'
         PROVE  entries[m].expires <= t \/ Older(m) = MaxOutstanding - 1
    <3>1. CASE m \in gone
      BY <2>5, <3>1
    <3>2. CASE m \notin gone
      <4>1. m \in DOMAIN es2 /\ m \in out
        BY <2>6, <2>13, <2>19, <2>23, <3>2
      <4>2. last # {}
        BY <2>15, <4>1
      <4>3. Cardinality(DOMAIN es2) = MaxOutstanding
        BY <2>11, <4>2
      <4>4. PICK k \in DOMAIN ord2 : last = {k} /\ \A s \in DOMAIN ord2 : s <= k
        BY <2>11, <4>2
      <4>5. DOMAIN es2 = DOMAIN entries
        BY <2>7, <2>8, <2>9, <4>3
      <4>6. m = ord2[k] /\ entries[m].seq = k
        BY <2>6, <2>16, <4>1, <4>4 DEF Agree
      <4>7. \A j \in DOMAIN entries : /\ entries[j].seq \in DOMAIN ord2 /\ ord2[entries[j].seq] = j
                                      /\ entries[j].seq \in Nat
        BY <2>6, <2>10, <4>5 DEF Agree
      <4>8. \A j \in DOMAIN entries : entries[j].seq < entries[m].seq <=> j # m
        <5> SUFFICES ASSUME NEW j \in DOMAIN entries
                     PROVE  entries[j].seq < entries[m].seq <=> j # m
          OBVIOUS
        <5>1. entries[j].seq <= k /\ entries[j].seq \in Nat /\ k \in Nat
          BY <4>4, <4>6, <4>7
        <5>2. entries[j].seq = k => j = m
          BY <4>6, <4>7
        <5>3. QED
          BY <4>6, <5>1, <5>2
      <4>9. {j \in DOMAIN entries : entries[j].seq < entries[m].seq} = DOMAIN entries \ {m}
        BY <4>8
      <4>10. Cardinality(DOMAIN entries \ {m}) = Cardinality(DOMAIN entries) - 1
        BY <2>7, <2>23, FS_RemoveElement
      <4>11. QED
        BY <4>3, <4>5, <4>9, <4>10 DEF Older
    <3>3. QED
      BY <3>1, <3>2
  <2>24. QED
    BY <2>18, <2>19, <2>20, <2>22, <2>23
<1>3. QED
  BY <1>1, <1>2

-----------------------------------------------------------------------------
(* The inductive invariant of the payment layer.                           *)

Live == {"unpaid", "paying", "verifying"} \cup Admitted
Holding == {"verifying"} \cup Admitted
Settling == {"settling", "signing", "waiting"}
Sent == {"waiting", "settled", "lost"}

\* A request mints at most once, and is over when it has.
MintPart ==
  /\ \A r \in DOMAIN minted : pc[r] = "refused"
  /\ \A r \in Requests : pc[r] \in Live => commit[r] \in Commitments
  /\ \A n \in DOMAIN entries :
       n \in DOMAIN minted /\ entries[n].commitment = minted[n] /\ granted[n] = 0

\* A nonce that has left the ledger is held by one request or by none.
HolderPart ==
  /\ \A r \in Requests : pc[r] \in Holding =>
       /\ pay[r].nonce \in DOMAIN minted \ DOMAIN entries
       /\ minted[pay[r].nonce] = commit[r]
       /\ pay[r].value >= price[r]
       /\ granted[pay[r].nonce] = IF pc[r] = "verifying" THEN 0 ELSE 1
       /\ pay[r].nonce \in answered <=> pc[r] \in Settling
  /\ \A r, q \in Requests :
       pc[r] \in Holding /\ pc[q] \in Holding /\ pay[r].nonce = pay[q].nonce => r = q

\* What the history says of a nonce.
NoncePart ==
  /\ \A n \in Nonces : granted[n] \in {0, 1}
  /\ \A n \in Nonces : n \notin DOMAIN minted => granted[n] = 0
  /\ \A n \in answered : granted[n] = 1
  /\ executed \subseteq answered

\* Settlements on chain, waiting and mined, are of requests that were served.
ChainPart ==
  /\ \A tx \in pool :
       /\ tx.nonce \in answered
       /\ pc[tx.request] \in Sent
       /\ pc[tx.request] = "waiting" => tx.nonce = pay[tx.request].nonce
  /\ \A r \in Requests : receipt[r] # "none" => pc[r] \in Sent
  /\ \A r \in Requests :
       pc[r] = "waiting" /\ receipt[r] = "success" => pay[r].nonce \in executed

\* A reported nonce was executed, and nobody holds it any more.
ReportPart ==
  /\ ReportsAreReal
  /\ \A e \in reported, r \in Requests : pc[r] \in Holding => pay[r].nonce # e.nonce

IInv ==
  /\ TypeOK /\ LedgerPart
  /\ MintPart /\ HolderPart /\ NoncePart /\ ChainPart /\ ReportPart

\* What the constants are.
LEMMA Constants ==
  /\ Requests = Nonces \ {0} /\ 0 \in Nonces /\ Nonces \subseteq Nat
  /\ Prices \subseteq Nat /\ Ttl \in Nat /\ NoPayment \in Payloads
  /\ \A o \in Offers : o.value \in Nat /\ o.after \in Nat /\ o.before \in Nat
<1>1. Requests = Nonces \ {0} /\ 0 \in Nonces /\ Nonces \subseteq Nat
  BY ConstantsAssumption DEF Requests, Nonces
<1>2. QED
  BY <1>1, ConstantsAssumption DEF NoPayment, Payloads

\* The initial state satisfies the invariant.
LEMMA InvInit == Init => IInv
<1> SUFFICES ASSUME Init PROVE IInv
  OBVIOUS
<1>1. entries = <<>> /\ order = <<>> /\ nextSeq = 0 /\ minted = <<>>
  BY DEF Init, LedgerInit
<1>2. DOMAIN entries = {} /\ DOMAIN order = {} /\ DOMAIN minted = {}
  BY <1>1
<1>3. LedgerPart
  BY <1>1, <1>2, FS_EmptySet, ConstantsAssumption DEF LedgerPart, IndexesAgree
<1>4. minted \in [DOMAIN minted -> Commitments]
  BY <1>1
<1>5. TypeOK
  <2>1. now \in 0..MaxTime /\ restarts \in 0..MaxRestarts /\ account \in Nat
    BY ConstantsAssumption DEF Init
  <2>2. /\ pc \in [Requests -> RequestPc] /\ commit \in [Requests -> Commitments \cup {"none"}]
        /\ price \in [Requests -> Nat] /\ opNonce \in [Requests -> Nat]
        /\ receipt \in [Requests -> {"none", "success", "reverted"}]
        /\ granted \in [Nonces -> Nat]
    BY DEF Init, RequestPc
  <2>3. pay \in [Requests -> Payloads]
    BY Constants DEF Init
  <2>4. pool = {} /\ executed = {} /\ answered = {} /\ reported = {}
    BY DEF Init
  <2>5. QED
    BY <1>2, <1>3, <1>4, <2>1, <2>2, <2>3, <2>4 DEF TypeOK, LedgerPart
<1>6. \A r \in Requests : pc[r] = "new" /\ receipt[r] = "none"
  BY DEF Init
<1>7. "new" \notin Live /\ "new" \notin Holding
  BY DEF Live, Holding, Admitted
<1>8. MintPart
  BY <1>2, <1>6, <1>7 DEF MintPart
<1>9. HolderPart
  BY <1>6, <1>7 DEF HolderPart
<1>10. NoncePart
  BY DEF Init, NoncePart
<1>11. ChainPart
  BY <1>6 DEF Init, ChainPart
<1>12. ReportPart
  BY <1>6, <1>7 DEF Init, ReportPart, ReportsAreReal
<1>13. QED
  BY <1>3, <1>5, <1>8, <1>9, <1>10, <1>11, <1>12 DEF IInv

\* A step after which every holder was one before, with the same payment.
LEMMA KeepStep ==
  ASSUME IInv, TypeOK', LedgerPart',
         \A q \in Requests : pc'[q] \in Holding =>
           /\ pc'[q] = pc[q] /\ pay'[q] = pay[q]
           /\ price'[q] = price[q] /\ commit'[q] = commit[q],
         \A q \in Requests : pc[q] \in Sent => pc'[q] \in Sent,
         \A q \in Requests : pc'[q] \in Live => commit'[q] \in Commitments,
         \A q \in DOMAIN minted' : pc'[q] = "refused",
         \A n \in DOMAIN minted : n \in DOMAIN minted' /\ minted'[n] = minted[n],
         \A n \in DOMAIN entries' :
           \/ n \in DOMAIN entries /\ entries'[n] = entries[n]
           \/ n \in DOMAIN minted' \ DOMAIN minted /\ entries'[n].commitment = minted'[n],
         UNCHANGED <<granted, answered, executed, pool, receipt, reported>>
  PROVE  IInv'
<1>0. TypeOK /\ LedgerPart /\ MintPart /\ HolderPart /\ NoncePart /\ ChainPart /\ ReportPart
  BY DEF IInv
<1>1. MintPart'
  <2>1. \A n \in DOMAIN entries' : n \in DOMAIN minted' /\ entries'[n].commitment = minted'[n]
    BY <1>0 DEF MintPart
  <2>2. \A n \in DOMAIN entries' : granted'[n] = 0
    BY <1>0 DEF MintPart, NoncePart, LedgerPart
  <2>3. QED
    BY <2>1, <2>2 DEF MintPart
<1>2. HolderPart'
  <2>1. ASSUME NEW r \in Requests, pc'[r] \in Holding
        PROVE  /\ pay'[r].nonce \in DOMAIN minted' \ DOMAIN entries'
               /\ minted'[pay'[r].nonce] = commit'[r]
               /\ pay'[r].value >= price'[r]
               /\ granted'[pay'[r].nonce] = IF pc'[r] = "verifying" THEN 0 ELSE 1
               /\ pay'[r].nonce \in answered' <=> pc'[r] \in Settling
    BY <1>0, <2>1 DEF HolderPart
  <2>2. \A r, q \in Requests :
          pc'[r] \in Holding /\ pc'[q] \in Holding /\ pay'[r].nonce = pay'[q].nonce => r = q
    BY <1>0 DEF HolderPart
  <2>3. QED
    BY <2>1, <2>2 DEF HolderPart
<1>3. NoncePart'
  BY <1>0 DEF NoncePart
<1>4. "waiting" \in Holding
  BY DEF Holding, Admitted
<1>5. ChainPart'
  BY <1>0, <1>4 DEF ChainPart, TypeOK
<1>6. ReportPart'
  BY <1>0 DEF ReportPart, ReportsAreReal
<1>7. QED
  BY <1>1, <1>2, <1>3, <1>5, <1>6 DEF IInv

-----------------------------------------------------------------------------
(* The steps of the requests, of the process and of the chain.             *)

\* The types that requests have.
RequestTypes ==
  /\ pc \in [Requests -> RequestPc]
  /\ commit \in [Requests -> Commitments \cup {"none"}]
  /\ price \in [Requests -> Nat]
  /\ pay \in [Requests -> Payloads]
  /\ opNonce \in [Requests -> Nat]

\* What Leave does to the request and does not do to the others.
LEMMA LeaveShape ==
  ASSUME RequestTypes, NEW r \in Requests, NEW from, NEW to \in RequestPc, Leave(r, from, to)
  PROVE  /\ RequestTypes' /\ pc[r] = from
         /\ \A q \in Requests : pc'[q] = IF q = r THEN to ELSE pc[q]
         /\ \A q \in Requests : q # r =>
              pay'[q] = pay[q] /\ price'[q] = price[q] /\ commit'[q] = commit[q]
<1>1. /\ pc[r] = from /\ pc' = [pc EXCEPT ![r] = to]
      /\ commit' = [commit EXCEPT ![r] = "none"] /\ price' = [price EXCEPT ![r] = 0]
      /\ pay' = [pay EXCEPT ![r] = NoPayment] /\ opNonce' = [opNonce EXCEPT ![r] = 0]
  BY DEF Leave, Goto
<1>2. RequestTypes'
  <2>1. pay' \in [Requests -> Payloads]
    BY <1>1, Constants DEF RequestTypes
  <2>2. QED
    BY <1>1, <2>1 DEF RequestTypes
<1>3. QED
  BY <1>1, <1>2 DEF RequestTypes

\* The same for a request that moves on.
LEMMA GotoShape ==
  ASSUME RequestTypes, NEW r \in Requests, NEW from, NEW to \in RequestPc, Goto(r, from, to)
  PROVE  /\ pc' \in [Requests -> RequestPc] /\ pc[r] = from
         /\ \A q \in Requests : pc'[q] = IF q = r THEN to ELSE pc[q]
BY DEF Goto, RequestTypes

\* A request that is dropped, at any point of its way.
LEMMA DropStep ==
  ASSUME IInv, NEW r \in Requests, NEW from, Leave(r, from, "lost"),
         from \notin {"new", "refused"},
         UNCHANGED <<ledgerVars, now, restarts, minted, chainVars, historyVars>>
  PROVE  IInv'
<1> USE DEF ledgerVars, chainVars, historyVars
<1>0. TypeOK /\ LedgerPart /\ MintPart /\ RequestTypes
  BY DEF IInv, TypeOK, RequestTypes
<1>1. "lost" \in RequestPc /\ "lost" \in Sent /\ "lost" \notin Live /\ "lost" \notin Holding
  BY DEF RequestPc, Sent, Live, Holding, Admitted
<1>2. /\ RequestTypes' /\ pc[r] = from
      /\ \A q \in Requests : pc'[q] = IF q = r THEN "lost" ELSE pc[q]
      /\ \A q \in Requests : q # r =>
           pay'[q] = pay[q] /\ price'[q] = price[q] /\ commit'[q] = commit[q]
  BY <1>0, <1>1, LeaveShape
<1>3. TypeOK'
  BY <1>0, <1>2 DEF TypeOK, RequestTypes
<1>4. LedgerPart'
  BY <1>0 DEF LedgerPart, IndexesAgree
<1>5. \A q \in DOMAIN minted : q \in Requests /\ q # r
  BY <1>0, <1>2, Constants DEF MintPart, TypeOK
<1>6. QED
  BY <1>0, <1>1, <1>2, <1>3, <1>4, <1>5, KeepStep DEF MintPart

\* Arrive.
LEMMA ArriveStep ==
  ASSUME IInv, NEW r \in Requests, NEW c \in Commitments, NEW p \in Prices, Arrive(r, c, p)
  PROVE  IInv'
<1> USE DEF ledgerVars, chainVars, historyVars
<1>0. TypeOK /\ LedgerPart /\ MintPart /\ RequestTypes
  BY DEF IInv, TypeOK, RequestTypes
<1>1. /\ commit' = [commit EXCEPT ![r] = c] /\ price' = [price EXCEPT ![r] = p]
      /\ UNCHANGED <<ledgerVars, now, restarts, minted, opNonce, chainVars, historyVars>>
  BY DEF Arrive
<1>2. PICK s \in {"unpaid", "paying"} : Goto(r, "new", s)
  BY DEF Arrive
<1>3. \E v \in Payloads : pay' = [pay EXCEPT ![r] = v]
  <2>1. CASE UNCHANGED pay
    <3>1. pay[r] \in Payloads /\ pay' = [pay EXCEPT ![r] = pay[r]]
      BY <1>0, <2>1 DEF TypeOK
    <3>2. QED
      BY <3>1
  <2>2. CASE \E n \in DOMAIN minted \cup {0}, o \in Offers :
               pay' = [pay EXCEPT ![r] = Payload(n, o)]
    <3>1. PICK n \in DOMAIN minted \cup {0}, o \in Offers :
               pay' = [pay EXCEPT ![r] = Payload(n, o)]
      BY <2>2
    <3>2. Payload(n, o) \in Payloads
      BY <1>0, Constants DEF TypeOK, Payload, Payloads
    <3>3. QED
      BY <3>1, <3>2
  <2>3. QED
    BY <2>1, <2>2 DEF Arrive
<1>4. /\ s \in RequestPc /\ s \notin Holding /\ "new" \notin Sent
      /\ "new" # "refused"
  BY DEF RequestPc, Holding, Admitted, Sent
<1>5. /\ pc' \in [Requests -> RequestPc] /\ pc[r] = "new"
      /\ \A q \in Requests : pc'[q] = IF q = r THEN s ELSE pc[q]
  BY <1>0, <1>2, <1>4, GotoShape
<1>6. /\ commit' \in [Requests -> Commitments \cup {"none"}] /\ price' \in [Requests -> Nat]
      /\ commit'[r] = c
      /\ \A q \in Requests : q # r =>
           pay'[q] = pay[q] /\ price'[q] = price[q] /\ commit'[q] = commit[q]
  BY <1>0, <1>1, <1>3, Constants DEF TypeOK
<1>7. pay' \in [Requests -> Payloads]
  BY <1>0, <1>3 DEF TypeOK
<1>8. TypeOK'
  BY <1>0, <1>1, <1>5, <1>6, <1>7 DEF TypeOK
<1>9. LedgerPart'
  BY <1>0, <1>1 DEF LedgerPart, IndexesAgree
<1>10. \A q \in DOMAIN minted : q \in Requests /\ q # r
  BY <1>0, <1>5, Constants DEF MintPart, TypeOK
<1>11. QED
  BY <1>0, <1>1, <1>4, <1>5, <1>6, <1>8, <1>9, <1>10, KeepStep DEF MintPart

\* Challenge: the nonce is new, because the request has minted none yet.
LEMMA ChallengeStep ==
  ASSUME IInv, NEW r \in Requests, Challenge(r)
  PROVE  /\ IInv'
         /\ \A m \in DOMAIN entries \ DOMAIN entries' :
              entries[m].expires <= now \/ Older(m) = MaxOutstanding - 1
<1> USE DEF chainVars, historyVars
<1>0. TypeOK /\ LedgerPart /\ MintPart /\ RequestTypes
  BY DEF IInv, TypeOK, RequestTypes
<1>1. /\ Leave(r, "unpaid", "refused")
      /\ UNCHANGED <<now, restarts, chainVars, historyVars>>
  BY DEF Challenge
<1>2. /\ "refused" \in RequestPc /\ "refused" \notin Sent /\ "refused" \notin Live
      /\ "refused" \notin Holding /\ "unpaid" \notin Sent /\ "unpaid" \in Live
  BY DEF RequestPc, Sent, Live, Holding, Admitted
<1>3. /\ RequestTypes' /\ pc[r] = "unpaid"
      /\ \A q \in Requests : pc'[q] = IF q = r THEN "refused" ELSE pc[q]
      /\ \A q \in Requests : q # r =>
           pay'[q] = pay[q] /\ price'[q] = price[q] /\ commit'[q] = commit[q]
  BY <1>0, <1>1, <1>2, LeaveShape
<1>4. \A q \in DOMAIN minted : q \in Requests /\ q # r
  BY <1>0, <1>3, Constants DEF MintPart, TypeOK
<1>5. r \notin DOMAIN minted /\ r \notin DOMAIN entries /\ r \in Nonces \ {0}
  BY <1>0, <1>4, Constants DEF MintPart
<1>6. CASE UNCHANGED <<minted, ledgerVars>>
  <2>1. TypeOK'
    BY <1>0, <1>1, <1>3, <1>6 DEF TypeOK, RequestTypes, ledgerVars
  <2>2. LedgerPart'
    BY <1>0, <1>6 DEF LedgerPart, IndexesAgree, ledgerVars
  <2>3. IInv'
    BY <1>0, <1>1, <1>2, <1>3, <1>4, <1>6, <2>1, <2>2, KeepStep DEF MintPart, ledgerVars
  <2>4. QED
    BY <1>6, <2>3 DEF ledgerVars
<1>7. CASE /\ minted' = [n \in DOMAIN minted \cup {r} |-> IF n = r THEN commit[r] ELSE minted[n]]
           /\ RecordBound(r, commit[r], now + Ttl, now)
  <2>1. PICK c \in Commitments : c = commit[r]
    BY <1>0, <1>2, <1>3 DEF MintPart
  <2>2. PICK t \in Nat : t = now
    BY <1>0, ConstantsAssumption DEF TypeOK
  <2>3. PICK x \in Nat : x = now + Ttl
    BY <2>2, Constants
  <2>4. RecordBound(r, c, x, t)
    BY <1>7, <2>1, <2>2, <2>3
  <2>5. /\ LedgerPart'
        /\ \A m \in DOMAIN entries' :
             \/ m = r /\ entries'[m].commitment = c
             \/ m \in DOMAIN entries /\ entries'[m] = entries[m]
        /\ \A m \in DOMAIN entries \ DOMAIN entries' :
             \/ entries[m].expires <= t
             \/ Older(m) = MaxOutstanding - 1
    BY <1>0, <1>5, <2>4, RecordStep
  <2>6. /\ DOMAIN minted' = DOMAIN minted \cup {r} /\ minted'[r] = c
        /\ \A n \in DOMAIN minted : minted'[n] = minted[n]
        /\ minted' \in [DOMAIN minted' -> Commitments]
    BY <1>0, <1>5, <1>7, <2>1 DEF TypeOK
  <2>7. TypeOK'
    <3>1. DOMAIN minted' \subseteq Nonces \ {0}
      BY <1>0, <1>5, <2>6 DEF TypeOK
    <3>2. QED
      BY <1>0, <1>1, <1>3, <2>5, <2>6, <3>1 DEF TypeOK, RequestTypes, LedgerPart, Entry
  <2>8. IInv'
    BY <1>0, <1>1, <1>2, <1>3, <1>4, <1>5, <2>5, <2>6, <2>7, KeepStep DEF MintPart
  <2>9. QED
    BY <2>2, <2>5, <2>8
<1>8. QED
  BY <1>6, <1>7 DEF Challenge

\* Validate: a nonce that is accepted leaves the ledger with the request
\* that presented it; a refused one stays or goes, and is held by nobody.
LEMMA ValidateStep ==
  ASSUME IInv, NEW r \in Requests, Validate(r)
  PROVE  /\ IInv'
         /\ \A m \in DOMAIN entries \ DOMAIN entries' :
              entries[m].expires <= now \/ (Presents(r, m) /\ pc'[r] # "paying")
<1> USE DEF chainVars, historyVars
<1>0. TypeOK /\ LedgerPart /\ MintPart /\ HolderPart /\ NoncePart /\ ChainPart /\ ReportPart
      /\ RequestTypes
  BY DEF IInv, TypeOK, RequestTypes
<1> DEFINE n == pay[r].nonce
<1>1. UNCHANGED <<now, restarts, minted, commit, price, pay, opNonce, chainVars, historyVars>>
  BY DEF Validate
<1>2. /\ "unpaid" \in RequestPc /\ "unpaid" \in Live /\ "unpaid" \notin Holding
      /\ "verifying" \in RequestPc /\ "verifying" \in Live /\ "verifying" \in Holding
      /\ "verifying" \notin Sent /\ "verifying" \notin Settling /\ "paying" \notin Holding
      /\ "paying" \in Live /\ "paying" \notin Sent
  BY DEF RequestPc, Live, Holding, Admitted, Sent, Settling
<1>3. PICK s \in {"unpaid", "verifying"} : Goto(r, "paying", s)
  BY DEF Validate
<1>4. /\ pc' \in [Requests -> RequestPc] /\ pc[r] = "paying"
      /\ \A q \in Requests : pc'[q] = IF q = r THEN s ELSE pc[q]
  BY <1>0, <1>2, <1>3, GotoShape
<1>5. \A q \in DOMAIN minted : q \in Requests /\ q # r
  BY <1>0, <1>4, Constants DEF MintPart, TypeOK
<1>6. \/ UNCHANGED <<entries, order, nextSeq>>
      \/ n \in DOMAIN entries /\ Remove(n)
  BY DEF Validate, ConsumeRefused, ConsumeBound, ledgerVars
<1>7. /\ LedgerPart'
      /\ \A m \in DOMAIN entries' : m \in DOMAIN entries /\ entries'[m] = entries[m]
      /\ \A m \in DOMAIN entries \ DOMAIN entries' : m = n
      /\ n \in DOMAIN entries /\ Remove(n) => n \notin DOMAIN entries'
  <2>1. CASE UNCHANGED <<entries, order, nextSeq>> /\ ~(n \in DOMAIN entries /\ Remove(n))
    BY <1>0, <2>1 DEF LedgerPart, IndexesAgree
  <2>2. CASE n \in DOMAIN entries /\ Remove(n)
    <3>1. PICK m \in DOMAIN entries : m = n
      BY <2>2
    <3>2. Remove(m)
      BY <2>2, <3>1
    <3>3. /\ LedgerPart'
          /\ DOMAIN entries' = DOMAIN entries \ {m}
          /\ \A k \in DOMAIN entries' : entries'[k] = entries[k]
      BY <1>0, <3>2, RemoveStep
    <3>4. QED
      BY <3>1, <3>3
  <2>3. QED
    BY <1>6, <2>1, <2>2
<1>a. \/ UNCHANGED <<entries, order, nextSeq>>
      \/ entries[n].expires <= now
      \/ entries[n].commitment = commit[r] /\ InWindow(pay[r], now)
  BY DEF Validate, ConsumeRefused, ConsumeBound, ledgerVars
<1>b. \A m \in DOMAIN entries \ DOMAIN entries' :
        entries[m].expires <= now \/ (Presents(r, m) /\ pc'[r] # "paying")
  BY <1>2, <1>4, <1>7, <1>a DEF Presents
<1>8. TypeOK'
  BY <1>0, <1>1, <1>4, <1>7 DEF TypeOK, LedgerPart, Entry
<1>9. CASE s = "unpaid"
  <2>1. IInv'
    BY <1>0, <1>1, <1>2, <1>4, <1>5, <1>7, <1>8, <1>9, KeepStep DEF MintPart
  <2>2. QED
    BY <1>b, <2>1
<1>10. CASE s = "verifying"
  <2>1. /\ n \in DOMAIN entries /\ entries[n].commitment = commit[r] /\ Remove(n)
        /\ ~(pay[r].value < price[r])
    <3>1. pc'[r] = "verifying"
      BY <1>4, <1>10
    <3>2. pc' # [pc EXCEPT ![r] = "unpaid"]
      BY <1>0, <3>1 DEF TypeOK
    <3>3. QED
      BY <3>2 DEF Validate, ConsumeBound, Goto
  <2>2. /\ n \in DOMAIN minted /\ minted[n] = commit[r] /\ granted[n] = 0
        /\ n \in Nonces /\ n \notin DOMAIN entries' /\ n \notin answered
    BY <1>0, <1>7, <2>1 DEF MintPart, NoncePart, LedgerPart
  <2>3. pay[r].value >= price[r]
    <3>1. pay[r].value \in Nat /\ price[r] \in Nat
      BY <1>0 DEF Payloads, TypeOK
    <3>2. QED
      BY <2>1, <3>1
  <2>4. \A q \in Requests : pc[q] \in Holding => pay[q].nonce # n
    BY <1>0, <2>1 DEF HolderPart
  <2>5. MintPart'
    BY <1>0, <1>1, <1>2, <1>4, <1>5, <1>7 DEF MintPart
  <2>6. HolderPart'
    <3>1. ASSUME NEW q \in Requests, pc'[q] \in Holding
          PROVE  /\ pay'[q].nonce \in DOMAIN minted' \ DOMAIN entries'
                 /\ minted'[pay'[q].nonce] = commit'[q]
                 /\ pay'[q].value >= price'[q]
                 /\ granted'[pay'[q].nonce] = IF pc'[q] = "verifying" THEN 0 ELSE 1
                 /\ pay'[q].nonce \in answered' <=> pc'[q] \in Settling
      <4>1. CASE q = r
        BY <1>1, <1>2, <1>4, <1>10, <2>2, <2>3, <4>1
      <4>2. CASE q # r
        <5>1. pc'[q] = pc[q] /\ pc[q] \in Holding
          BY <1>4, <3>1, <4>2
        <5>2. QED
          BY <1>0, <1>1, <1>7, <5>1 DEF HolderPart
      <4>3. QED
        BY <4>1, <4>2
    <3>2. \A p, q \in Requests :
            pc'[p] \in Holding /\ pc'[q] \in Holding /\ pay'[p].nonce = pay'[q].nonce => p = q
      BY <1>0, <1>1, <1>4, <2>4 DEF HolderPart
    <3>3. QED
      BY <3>1, <3>2 DEF HolderPart
  <2>7. NoncePart'
    BY <1>0, <1>1 DEF NoncePart
  <2>8. ChainPart'
    <3>1. \A q \in Requests : pc[q] \in Sent => pc'[q] = pc[q]
      BY <1>2, <1>4
    <3>2. \A q \in Requests : pc'[q] = "waiting" => pc[q] = "waiting"
      BY <1>4
    <3>3. QED
      BY <1>0, <1>1, <3>1, <3>2 DEF ChainPart, TypeOK
  <2>9. ReportPart'
    <3>1. \A e \in reported : e.nonce # n
      BY <1>0, <2>2 DEF ReportPart, ReportsAreReal, NoncePart
    <3>2. QED
      BY <1>0, <1>1, <1>4, <3>1 DEF ReportPart, ReportsAreReal
  <2>10. IInv'
    BY <1>7, <1>8, <2>5, <2>6, <2>7, <2>8, <2>9 DEF IInv
  <2>11. QED
    BY <1>b, <2>10
<1>11. QED
  BY <1>9, <1>10

\* A holder that moves on among the holders: what is left to show are the
\* parts about the history and the chain.
LEMMA HolderMoves ==
  ASSUME IInv, NEW r \in Requests, NEW from \in Holding, NEW to \in Holding, Goto(r, from, to),
         UNCHANGED <<ledgerVars, minted, commit, price, pay>>, granted' \in [Nonces -> Nat],
         \A n \in Nonces : n # pay[r].nonce => granted'[n] = granted[n],
         granted'[pay[r].nonce] = IF to = "verifying" THEN 0 ELSE 1,
         answered' = IF to \in Settling THEN answered \cup {pay[r].nonce} ELSE answered,
         to \notin Settling => from \notin Settling,
         UNCHANGED <<executed, reported>>,
         from \in Settling => to \in Settling
  PROVE  /\ LedgerPart' /\ MintPart' /\ HolderPart' /\ NoncePart' /\ ReportPart'
         /\ pc' \in [Requests -> RequestPc] /\ pc[r] = from
         /\ \A q \in Requests : pc'[q] = IF q = r THEN to ELSE pc[q]
<1> USE DEF ledgerVars
<1>0. TypeOK /\ LedgerPart /\ MintPart /\ HolderPart /\ NoncePart /\ ReportPart /\ RequestTypes
  BY DEF IInv, TypeOK, RequestTypes
<1>1. \A s \in Holding : s \in RequestPc /\ s \in Live /\ s # "refused"
  BY DEF Holding, Live, Admitted, RequestPc
<1>2. "verifying" \notin Settling
  BY DEF Settling
<1>3. /\ pc' \in [Requests -> RequestPc] /\ pc[r] = from
      /\ \A q \in Requests : pc'[q] = IF q = r THEN to ELSE pc[q]
  BY <1>0, <1>1, GotoShape
<1> DEFINE n == pay[r].nonce
<1>4. /\ n \in DOMAIN minted \ DOMAIN entries /\ n \in Nonces
      /\ minted[n] = commit[r] /\ pay[r].value >= price[r]
      /\ n \in answered <=> from \in Settling
  BY <1>0, <1>3 DEF HolderPart, TypeOK
<1>5. \A q \in Requests : q # r /\ pc[q] \in Holding => pay[q].nonce # n
  BY <1>0, <1>3 DEF HolderPart
<1>6. LedgerPart'
  BY <1>0 DEF LedgerPart, IndexesAgree
<1>7. MintPart'
  <2>1. \A q \in DOMAIN minted : q \in Requests /\ q # r
    BY <1>0, <1>1, <1>3, Constants DEF MintPart, TypeOK
  <2>2. \A m \in DOMAIN entries : granted'[m] = 0
    BY <1>0, <1>4 DEF MintPart, LedgerPart
  <2>3. \A q \in Requests : pc'[q] \in Live => pc[q] \in Live
    BY <1>1, <1>3
  <2>4. QED
    BY <1>0, <1>3, <2>1, <2>2, <2>3 DEF MintPart
<1>8. HolderPart'
  <2>1. ASSUME NEW q \in Requests, pc'[q] \in Holding
        PROVE  /\ pay'[q].nonce \in DOMAIN minted' \ DOMAIN entries'
               /\ minted'[pay'[q].nonce] = commit'[q]
               /\ pay'[q].value >= price'[q]
               /\ granted'[pay'[q].nonce] = IF pc'[q] = "verifying" THEN 0 ELSE 1
               /\ pay'[q].nonce \in answered' <=> pc'[q] \in Settling
    <3>1. CASE q = r
      <4>1. n \in answered' <=> to \in Settling
        BY <1>4
      <4>2. QED
        BY <1>3, <1>4, <3>1, <4>1
    <3>2. CASE q # r
      <4>1. pc'[q] = pc[q] /\ pc[q] \in Holding
        BY <1>3, <2>1, <3>2
      <4>2. pay[q].nonce # n /\ pay[q].nonce \in Nonces
        BY <1>0, <1>5, <3>2, <4>1 DEF Payloads, TypeOK
      <4>3. pay[q].nonce \in answered' <=> pay[q].nonce \in answered
        BY <4>2
      <4>4. QED
        BY <1>0, <4>1, <4>2, <4>3 DEF HolderPart
    <3>3. QED
      BY <3>1, <3>2
  <2>2. \A p, q \in Requests :
          pc'[p] \in Holding /\ pc'[q] \in Holding /\ pay'[p].nonce = pay'[q].nonce => p = q
    BY <1>0, <1>3, <1>5 DEF HolderPart
  <2>3. QED
    BY <2>1, <2>2 DEF HolderPart
<1>9. NoncePart'
  <2>1. \A m \in Nonces : granted'[m] \in {0, 1}
    BY <1>0 DEF NoncePart
  <2>2. \A m \in Nonces : m \notin DOMAIN minted' => granted'[m] = 0
    BY <1>0, <1>4 DEF NoncePart
  <2>3. \A m \in answered' : granted'[m] = 1
    <3>1. \A m \in answered : m \in Nonces
      BY <1>0 DEF TypeOK
    <3>2. \A m \in answered' : m # n => m \in answered
      OBVIOUS
    <3>3. n \in answered' => to # "verifying"
      BY <1>2, <1>4
    <3>4. QED
      BY <1>0, <3>1, <3>2, <3>3 DEF NoncePart
  <2>4. executed' \subseteq answered'
    BY <1>0 DEF NoncePart
  <2>5. QED
    BY <2>1, <2>2, <2>3, <2>4 DEF NoncePart
<1>10. ReportPart'
  BY <1>0, <1>3 DEF ReportPart, ReportsAreReal
<1>11. QED
  BY <1>3, <1>6, <1>7, <1>8, <1>9, <1>10

\* A step of the refinement: what it does to the abstract variables.
Refined == Payment!Next \/ UNCHANGED <<granted, answered, executed>>

\* VerifySignature: the authorization admits its request, for the first time.
LEMMA VerifyStep ==
  ASSUME IInv, NEW r \in Requests, VerifySignature(r)
  PROVE  IInv' /\ Refined
<1> USE DEF ledgerVars, chainVars
<1>0. TypeOK /\ LedgerPart /\ MintPart /\ HolderPart /\ ChainPart /\ RequestTypes
  BY DEF IInv, TypeOK, RequestTypes
<1>1. UNCHANGED <<ledgerVars, now, restarts, minted, commit, price, pay, opNonce, chainVars,
                  answered, reported>>
  BY DEF VerifySignature
<1>2. /\ "serving" \in RequestPc /\ "serving" \in Holding /\ "verifying" \in Holding
      /\ "serving" \notin Settling /\ "verifying" \notin Settling /\ "verifying" \notin Sent
      /\ "unpaid" \in RequestPc /\ "unpaid" \notin Holding /\ "verifying" \in Live
      /\ "serving" # "waiting"
  BY DEF RequestPc, Holding, Admitted, Settling, Sent, Live
<1>3. CASE Goto(r, "verifying", "unpaid") /\ UNCHANGED granted
  <2>1. /\ pc' \in [Requests -> RequestPc] /\ pc[r] = "verifying"
        /\ \A q \in Requests : pc'[q] = IF q = r THEN "unpaid" ELSE pc[q]
    BY <1>0, <1>2, <1>3, GotoShape
  <2>2. TypeOK'
    BY <1>0, <1>1, <1>3, <2>1 DEF TypeOK
  <2>3. LedgerPart'
    BY <1>0, <1>1 DEF LedgerPart, IndexesAgree
  <2>4. \A q \in DOMAIN minted : q \in Requests /\ q # r
    BY <1>0, <2>1, Constants DEF MintPart, TypeOK
  <2>5. IInv'
    BY <1>0, <1>1, <1>2, <1>3, <2>1, <2>2, <2>3, <2>4, KeepStep DEF MintPart
  <2>6. QED
    BY <1>1, <1>3, <2>5 DEF Refined
<1>4. CASE Goto(r, "verifying", "serving") /\ granted' = [granted EXCEPT ![pay[r].nonce] = @ + 1]
  <2>1. PICK n \in Nonces : n = pay[r].nonce
    BY <1>0 DEF Payloads, TypeOK
  <2>2. pc[r] = "verifying" /\ granted[n] = 0
    BY <1>0, <1>2, <1>4, <2>1 DEF Goto, HolderPart
  <2>3. granted' = [granted EXCEPT ![n] = 1]
    BY <1>0, <1>4, <2>1, <2>2 DEF TypeOK
  <2>4. /\ granted' \in [Nonces -> Nat] /\ granted'[n] = 1
        /\ \A m \in Nonces : m # n => granted'[m] = granted[m]
    BY <1>0, <2>1, <2>3 DEF TypeOK
  <2>5. /\ LedgerPart' /\ MintPart' /\ HolderPart' /\ NoncePart' /\ ReportPart'
        /\ pc' \in [Requests -> RequestPc] /\ pc[r] = "verifying"
        /\ \A q \in Requests : pc'[q] = IF q = r THEN "serving" ELSE pc[q]
    BY <1>1, <1>2, <1>4, <2>1, <2>4, HolderMoves
  <2>6. TypeOK'
    BY <1>0, <1>1, <2>4, <2>5 DEF TypeOK
  <2>7. ChainPart'
    <3>1. \A q \in Requests : pc[q] \in Sent => pc'[q] = pc[q]
      BY <1>2, <2>5
    <3>2. \A q \in Requests : pc'[q] = "waiting" => pc[q] = "waiting"
      BY <1>2, <2>5
    <3>3. QED
      BY <1>0, <1>1, <3>1, <3>2 DEF ChainPart, TypeOK
  <2>8. Payment!Admit(n)
    BY <1>1, <2>2, <2>3 DEF Payment!Admit
  <2>9. QED
    BY <2>5, <2>6, <2>7, <2>8 DEF IInv, Refined, Payment!Next
<1>5. QED
  BY <1>3, <1>4 DEF VerifySignature

\* Serve: the 2xx is the first one for this authorization.
LEMMA ServeStep ==
  ASSUME IInv, NEW r \in Requests, Serve(r)
  PROVE  IInv' /\ Refined
<1> USE DEF ledgerVars, chainVars
<1>0. TypeOK /\ LedgerPart /\ MintPart /\ HolderPart /\ ChainPart
  BY DEF IInv
<1>1. /\ Goto(r, "serving", "settling") /\ answered' = answered \cup {pay[r].nonce}
      /\ UNCHANGED <<ledgerVars, now, restarts, minted, commit, price, pay, opNonce, chainVars,
                     granted, reported>>
  BY DEF Serve
<1>2. /\ "serving" \in Holding /\ "settling" \in Holding /\ "settling" \in Settling
      /\ "serving" \notin Settling /\ "serving" \notin Sent /\ "serving" # "verifying"
      /\ "settling" # "verifying" /\ "settling" # "waiting"
  BY DEF Holding, Admitted, Settling, Sent
<1>3. PICK n \in Nonces : n = pay[r].nonce
  BY <1>0 DEF Payloads, TypeOK
<1>4. pc[r] = "serving" /\ granted[n] = 1 /\ n \notin answered
  BY <1>0, <1>1, <1>2, <1>3 DEF Goto, HolderPart
<1>5. granted' \in [Nonces -> Nat]
  BY <1>0, <1>1 DEF TypeOK
<1>6. /\ LedgerPart' /\ MintPart' /\ HolderPart' /\ NoncePart' /\ ReportPart'
      /\ pc' \in [Requests -> RequestPc] /\ pc[r] = "serving"
      /\ \A q \in Requests : pc'[q] = IF q = r THEN "settling" ELSE pc[q]
  BY <1>1, <1>2, <1>3, <1>4, <1>5, HolderMoves
<1>7. TypeOK'
  BY <1>0, <1>1, <1>3, <1>6 DEF TypeOK
<1>8. ChainPart'
  <2>1. \A q \in Requests : pc[q] \in Sent => pc'[q] = pc[q]
    BY <1>2, <1>6
  <2>2. \A q \in Requests : pc'[q] = "waiting" => pc[q] = "waiting"
    BY <1>2, <1>6
  <2>3. QED
    BY <1>0, <1>1, <2>1, <2>2 DEF ChainPart, TypeOK
<1>9. Payment!Answer(n)
  BY <1>1, <1>3, <1>4 DEF Payment!Answer
<1>10. QED
  BY <1>6, <1>7, <1>8, <1>9 DEF IInv, Refined, Payment!Next

\* ReadNonce.
LEMMA ReadNonceStep ==
  ASSUME IInv, NEW r \in Requests, ReadNonce(r)
  PROVE  IInv' /\ Refined
<1> USE DEF ledgerVars, chainVars, historyVars
<1>0. TypeOK /\ LedgerPart /\ MintPart /\ HolderPart /\ ChainPart
  BY DEF IInv
<1>1. /\ Goto(r, "settling", "signing") /\ opNonce' = [opNonce EXCEPT ![r] = account]
      /\ UNCHANGED <<ledgerVars, now, restarts, minted, commit, price, pay, chainVars, historyVars>>
  BY DEF ReadNonce
<1>2. /\ "signing" \in Holding /\ "settling" \in Holding /\ "settling" \in Settling
      /\ "signing" \in Settling /\ "settling" \notin Sent /\ "signing" # "verifying"
      /\ "settling" # "verifying" /\ "signing" # "waiting"
  BY DEF Holding, Admitted, Settling, Sent
<1>3. pc[r] = "settling" /\ granted[pay[r].nonce] = 1 /\ pay[r].nonce \in answered
  BY <1>0, <1>1, <1>2 DEF Goto, HolderPart
<1>4. granted' \in [Nonces -> Nat] /\ answered' = answered \cup {pay[r].nonce}
  BY <1>0, <1>1, <1>3 DEF TypeOK
<1>5. /\ LedgerPart' /\ MintPart' /\ HolderPart' /\ NoncePart' /\ ReportPart'
      /\ pc' \in [Requests -> RequestPc] /\ pc[r] = "settling"
      /\ \A q \in Requests : pc'[q] = IF q = r THEN "signing" ELSE pc[q]
  BY <1>1, <1>2, <1>3, <1>4, HolderMoves
<1>6. TypeOK'
  BY <1>0, <1>1, <1>5 DEF TypeOK
<1>7. ChainPart'
  <2>1. \A q \in Requests : pc[q] \in Sent => pc'[q] = pc[q]
    BY <1>2, <1>5
  <2>2. \A q \in Requests : pc'[q] = "waiting" => pc[q] = "waiting"
    BY <1>2, <1>5
  <2>3. QED
    BY <1>0, <1>1, <2>1, <2>2 DEF ChainPart, TypeOK
<1>8. QED
  BY <1>1, <1>5, <1>6, <1>7 DEF IInv, Refined

\* Submit: the settlement of an authorization whose request was served.
LEMMA SubmitStep ==
  ASSUME IInv, NEW r \in Requests, Submit(r)
  PROVE  IInv' /\ Refined
<1> USE DEF ledgerVars, historyVars
<1>0. TypeOK /\ LedgerPart /\ MintPart /\ HolderPart /\ ChainPart
  BY DEF IInv
<1> DEFINE tx == [request |-> r, nonce |-> pay[r].nonce, before |-> pay[r].before]
<1>1. /\ Goto(r, "signing", "waiting") /\ account' = account + 1 /\ pool' = pool \cup {tx}
      /\ UNCHANGED <<ledgerVars, now, restarts, minted, commit, price, pay, opNonce, receipt,
                     executed, historyVars>>
  BY DEF Submit
<1>2. /\ "signing" \in Holding /\ "waiting" \in Holding /\ "waiting" \in Settling
      /\ "signing" \in Settling /\ "signing" \notin Sent /\ "signing" # "verifying"
      /\ "waiting" # "verifying" /\ "waiting" \in Sent
  BY DEF Holding, Admitted, Settling, Sent
<1>3. pc[r] = "signing" /\ granted[pay[r].nonce] = 1 /\ pay[r].nonce \in answered
  BY <1>0, <1>1, <1>2 DEF Goto, HolderPart
<1>4. granted' \in [Nonces -> Nat] /\ answered' = answered \cup {pay[r].nonce}
  BY <1>0, <1>1, <1>3 DEF TypeOK
<1>5. /\ LedgerPart' /\ MintPart' /\ HolderPart' /\ NoncePart' /\ ReportPart'
      /\ pc' \in [Requests -> RequestPc] /\ pc[r] = "signing"
      /\ \A q \in Requests : pc'[q] = IF q = r THEN "waiting" ELSE pc[q]
  BY <1>1, <1>2, <1>3, <1>4, HolderMoves
<1>6. /\ tx \in [request : Requests, nonce : Nonces, before : Nat]
      /\ tx.request = r /\ tx.nonce = pay[r].nonce
  BY <1>0 DEF Payloads, TypeOK
<1> HIDE DEF tx
<1>7. TypeOK'
  BY <1>0, <1>1, <1>5, <1>6 DEF TypeOK
<1>8. ChainPart'
  <2>1. receipt[r] = "none" /\ \A u \in pool : u.request # r /\ u.request \in Requests
    BY <1>0, <1>2, <1>3 DEF ChainPart, TypeOK
  <2>2. ASSUME NEW u \in pool'
        PROVE  /\ u.nonce \in answered'
               /\ pc'[u.request] \in Sent
               /\ pc'[u.request] = "waiting" => u.nonce = pay'[u.request].nonce
    <3>1. CASE u = tx
      BY <1>1, <1>2, <1>3, <1>5, <1>6, <3>1
    <3>2. CASE u \in pool
      BY <1>0, <1>1, <1>5, <2>1, <3>2 DEF ChainPart
    <3>3. QED
      BY <1>1, <2>2, <3>1, <3>2
  <2>3. \A q \in Requests : receipt'[q] # "none" => pc'[q] \in Sent
    BY <1>0, <1>1, <1>5, <2>1 DEF ChainPart
  <2>4. \A q \in Requests :
          pc'[q] = "waiting" /\ receipt'[q] = "success" => pay'[q].nonce \in executed'
    BY <1>0, <1>1, <1>5, <2>1 DEF ChainPart
  <2>5. QED
    BY <2>2, <2>3, <2>4 DEF ChainPart
<1>9. QED
  BY <1>1, <1>5, <1>7, <1>8 DEF IInv, Refined

\* AwaitReceipt: the last holder of the nonce reports it, and is over.
LEMMA AwaitStep ==
  ASSUME IInv, NEW r \in Requests, AwaitReceipt(r)
  PROVE  IInv' /\ Refined
<1> USE DEF ledgerVars, chainVars
<1>0. TypeOK /\ LedgerPart /\ MintPart /\ HolderPart /\ NoncePart /\ ChainPart /\ ReportPart
      /\ RequestTypes
  BY DEF IInv, TypeOK, RequestTypes
<1> DEFINE e == [request |-> r, nonce |-> pay[r].nonce]
<1>1. /\ receipt[r] = "success" /\ Leave(r, "waiting", "settled") /\ reported' = reported \cup {e}
      /\ UNCHANGED <<ledgerVars, now, restarts, minted, chainVars, granted, answered>>
  BY DEF AwaitReceipt, SettlementReceipt, Report
<1>2. /\ "settled" \in RequestPc /\ "settled" \in Sent /\ "settled" \notin Live
      /\ "settled" \notin Holding /\ "waiting" \in Holding /\ "settled" # "refused"
      /\ "waiting" # "refused" /\ "settled" # "waiting"
  BY DEF RequestPc, Sent, Live, Holding, Admitted
<1>3. /\ RequestTypes' /\ pc[r] = "waiting"
      /\ \A q \in Requests : pc'[q] = IF q = r THEN "settled" ELSE pc[q]
      /\ \A q \in Requests : q # r =>
           pay'[q] = pay[q] /\ price'[q] = price[q] /\ commit'[q] = commit[q]
  BY <1>0, <1>1, <1>2, LeaveShape
<1>4. /\ e \in [request : Requests, nonce : Nonces] /\ e.request = r /\ e.nonce = pay[r].nonce
  BY <1>0 DEF Payloads, TypeOK
<1>5. e.nonce \in executed
  BY <1>0, <1>1, <1>3, <1>4 DEF ChainPart
<1> HIDE DEF e
<1>6. TypeOK'
  BY <1>0, <1>1, <1>3, <1>4 DEF TypeOK, RequestTypes
<1>7. LedgerPart'
  BY <1>0, <1>1 DEF LedgerPart, IndexesAgree
<1>8. MintPart'
  <2>1. \A q \in DOMAIN minted : q \in Requests /\ q # r
    BY <1>0, <1>2, <1>3, Constants DEF MintPart, TypeOK
  <2>2. QED
    BY <1>0, <1>1, <1>2, <1>3, <2>1 DEF MintPart
<1>9. \A q \in Requests : pc'[q] \in Holding => q # r /\ pc'[q] = pc[q]
  BY <1>2, <1>3
<1>10. HolderPart'
  BY <1>0, <1>1, <1>3, <1>9 DEF HolderPart
<1>11. NoncePart'
  BY <1>0, <1>1 DEF NoncePart
<1>12. ChainPart'
  <2>1. \A q \in Requests : pc[q] \in Sent => pc'[q] \in Sent
    BY <1>2, <1>3
  <2>2. \A q \in Requests : pc'[q] = "waiting" => pc[q] = "waiting" /\ pay'[q] = pay[q]
    BY <1>2, <1>3
  <2>3. QED
    BY <1>0, <1>1, <2>1, <2>2 DEF ChainPart, TypeOK
<1>13. ReportPart'
  <2>1. \A f \in reported : f.nonce # e.nonce
    BY <1>0, <1>2, <1>3, <1>4 DEF ReportPart
  <2>2. \A q \in Requests : pc'[q] \in Holding => pay'[q].nonce # e.nonce
    BY <1>0, <1>2, <1>3, <1>4, <1>9 DEF HolderPart
  <2>3. ReportsAreReal'
    BY <1>0, <1>1, <1>5, <2>1 DEF ReportPart, ReportsAreReal
  <2>4. QED
    BY <1>0, <1>1, <1>3, <1>9, <2>2, <2>3 DEF ReportPart
<1>14. QED
  BY <1>1, <1>6, <1>7, <1>8, <1>10, <1>11, <1>12, <1>13 DEF IInv, Refined

\* Mine: an authorization is charged at most once, and after its 2xx.
LEMMA MineStep ==
  ASSUME IInv, NEW tx \in pool, Mine(tx)
  PROVE  IInv' /\ Refined
<1> USE DEF ledgerVars, requestVars, historyVars
<1>0. TypeOK /\ LedgerPart /\ MintPart /\ HolderPart /\ NoncePart /\ ChainPart /\ ReportPart
  BY DEF IInv
<1>1. /\ pool' = pool \ {tx}
      /\ UNCHANGED <<ledgerVars, now, restarts, minted, requestVars, account, historyVars>>
  BY DEF Mine
<1>2. /\ tx.request \in Requests /\ tx.nonce \in Nonces /\ tx.nonce \in answered
      /\ pc[tx.request] \in Sent
      /\ pc[tx.request] = "waiting" => tx.nonce = pay[tx.request].nonce
  BY <1>0 DEF TypeOK, ChainPart
<1>3. PICK v \in {"success", "reverted"} :
        /\ receipt' = [receipt EXCEPT ![tx.request] = v]
        /\ v = "success" => tx.nonce \notin executed /\ executed' = executed \cup {tx.nonce}
        /\ v = "reverted" => executed' = executed
  BY DEF Mine
<1>4. /\ executed \subseteq executed' /\ executed' \subseteq executed \cup {tx.nonce}
      /\ v = "success" => tx.nonce \in executed'
  BY <1>3
<1>5. /\ receipt' \in [Requests -> {"none", "success", "reverted"}]
      /\ \A q \in Requests : receipt'[q] = IF q = tx.request THEN v ELSE receipt[q]
  BY <1>0, <1>2, <1>3 DEF TypeOK
<1>6. TypeOK'
  BY <1>0, <1>1, <1>2, <1>4, <1>5 DEF TypeOK
<1>7. LedgerPart' /\ MintPart'
  BY <1>0, <1>1 DEF LedgerPart, IndexesAgree, MintPart
<1>8. HolderPart'
  BY <1>0, <1>1 DEF HolderPart
<1>9. NoncePart'
  BY <1>0, <1>1, <1>2, <1>4 DEF NoncePart
<1>10. ChainPart'
  <2>1. \A u \in pool' : /\ u.nonce \in answered'
                         /\ pc'[u.request] \in Sent
                         /\ pc'[u.request] = "waiting" => u.nonce = pay'[u.request].nonce
    BY <1>0, <1>1 DEF ChainPart
  <2>2. \A q \in Requests : receipt'[q] # "none" => pc'[q] \in Sent
    BY <1>0, <1>1, <1>2, <1>5 DEF ChainPart
  <2>3. ASSUME NEW q \in Requests, pc'[q] = "waiting", receipt'[q] = "success"
        PROVE  pay'[q].nonce \in executed'
    <3>1. CASE q = tx.request
      BY <1>1, <1>2, <1>4, <1>5, <2>3, <3>1
    <3>2. CASE q # tx.request
      BY <1>0, <1>1, <1>4, <1>5, <2>3, <3>2 DEF ChainPart
    <3>3. QED
      BY <3>1, <3>2
  <2>4. QED
    BY <2>1, <2>2, <2>3 DEF ChainPart
<1>11. ReportPart'
  BY <1>0, <1>1, <1>4 DEF ReportPart, ReportsAreReal
<1>12. Refined
  <2>1. CASE v = "success"
    <3>1. PICK n \in Nonces : n = tx.nonce
      BY <1>2
    <3>2. Payment!Charge(n)
      BY <1>1, <1>2, <1>3, <2>1, <3>1 DEF Payment!Charge
    <3>3. QED
      BY <3>2 DEF Refined, Payment!Next
  <2>2. CASE v = "reverted"
    BY <1>1, <1>3, <2>2 DEF Refined
  <2>3. QED
    BY <2>1, <2>2
<1>13. QED
  BY <1>6, <1>7, <1>8, <1>9, <1>10, <1>11, <1>12 DEF IInv

\* Restart: the ledger is empty, and no request holds anything.
LEMMA RestartStep ==
  ASSUME IInv, Restart
  PROVE  IInv'
<1> USE DEF chainVars, historyVars
<1>0. TypeOK /\ LedgerPart /\ MintPart
  BY DEF IInv
<1>1. /\ restarts < MaxRestarts /\ restarts' = restarts + 1
      /\ entries' = <<>> /\ order' = <<>> /\ nextSeq' = 0
      /\ \A q \in Requests :
           pc'[q] = IF pc[q] \in {"new", "refused", "settled"} THEN pc[q] ELSE "lost"
      /\ commit' = [r \in Requests |-> "none"] /\ price' = [r \in Requests |-> 0]
      /\ pay' = [r \in Requests |-> NoPayment] /\ opNonce' = [r \in Requests |-> 0]
      /\ UNCHANGED <<now, minted, chainVars, historyVars>>
  BY DEF Restart
<1>2. DOMAIN entries' = {} /\ DOMAIN order' = {}
  BY <1>1
<1>3. LedgerPart'
  BY <1>1, <1>2, FS_EmptySet, ConstantsAssumption DEF LedgerPart, IndexesAgree
<1>4. pc' \in [Requests -> RequestPc]
  <2>1. pc' = [r \in Requests |->
                 IF pc[r] \in {"new", "refused", "settled"} THEN pc[r] ELSE "lost"]
    BY DEF Restart
  <2>2. \A r \in Requests : pc[r] \in RequestPc
    BY <1>0 DEF TypeOK
  <2>3. "lost" \in RequestPc
    BY DEF RequestPc
  <2>4. QED
    BY <2>1, <2>2, <2>3
<1>5. TypeOK'
  <2>1. restarts' \in 0..MaxRestarts
    BY <1>0, <1>1, ConstantsAssumption DEF TypeOK
  <2>2. pay' \in [Requests -> Payloads]
    BY <1>1, Constants
  <2>3. QED
    BY <1>0, <1>1, <1>2, <1>3, <1>4, <2>1, <2>2 DEF TypeOK, LedgerPart
<1>6. \A q \in Requests : pc'[q] \notin Holding /\ pc'[q] \notin Live
  BY <1>1 DEF Holding, Live, Admitted
<1>7. \A q \in Requests : pc[q] \in Sent => pc'[q] \in Sent
  BY <1>1 DEF Sent
<1>8. \A q \in DOMAIN minted' : pc'[q] = "refused"
  BY <1>0, <1>1, Constants DEF MintPart, TypeOK
<1>9. QED
  BY <1>1, <1>2, <1>3, <1>5, <1>6, <1>7, <1>8, KeepStep

\* Tick, and steps of the environment that change nothing here.
LEMMA IdleStep ==
  ASSUME IInv, now' \in 0..MaxTime,
         UNCHANGED <<ledgerVars, restarts, minted, requestVars, chainVars, historyVars>>
  PROVE  IInv'
<1> USE DEF ledgerVars, requestVars, chainVars, historyVars
<1>0. TypeOK /\ LedgerPart /\ MintPart
  BY DEF IInv
<1>1. TypeOK'
  BY <1>0 DEF TypeOK
<1>2. LedgerPart'
  BY <1>0 DEF LedgerPart, IndexesAgree
<1>3. QED
  BY <1>0, <1>1, <1>2, KeepStep DEF MintPart

\* What a step may do to the challenges of the ledger.
Survives ==
  \A n \in DOMAIN entries :
    restarts' = restarts /\ n \notin DOMAIN entries' =>
      \/ entries[n].expires <= now
      \/ Older(n) = MaxOutstanding - 1
      \/ \E r \in Requests : Presents(r, n) /\ pc'[r] # "paying"

\* Every step keeps the invariant, is a step of PayPerUse or none, and drops
\* no challenge that it should keep.
LEMMA InvNext == IInv /\ [Next]_vars => IInv' /\ Refined /\ Survives
<1> SUFFICES ASSUME IInv, [Next]_vars PROVE IInv' /\ Refined /\ Survives
  OBVIOUS
<1>a. ASSUME UNCHANGED <<granted, answered, executed>> PROVE Refined
  BY <1>a DEF Refined
<1>b. ASSUME UNCHANGED entries PROVE Survives
  BY <1>b DEF Survives
<1> USE DEF ledgerVars, chainVars, historyVars, requestVars
<1>1. ASSUME NEW r \in Requests, RequestStep(r) PROVE IInv' /\ Refined /\ Survives
  <2>1. ASSUME NEW c \in Commitments, NEW p \in Prices, Arrive(r, c, p)
        PROVE  IInv' /\ Refined /\ Survives
    BY <1>a, <1>b, <2>1, ArriveStep DEF Arrive
  <2>2. CASE Challenge(r)
    <3>1. Survives
      BY <2>2, ChallengeStep DEF Survives
    <3>2. QED
      BY <1>a, <2>2, <3>1, ChallengeStep DEF Challenge
  <2>3. CASE Validate(r)
    <3>1. Survives
      BY <2>3, ValidateStep DEF Survives
    <3>2. QED
      BY <1>a, <2>3, <3>1, ValidateStep DEF Validate
  <2>4. CASE VerifySignature(r)
    BY <1>b, <2>4, VerifyStep DEF VerifySignature
  <2>5. CASE Serve(r)
    BY <1>b, <2>5, ServeStep DEF Serve
  <2>6. CASE ReadNonce(r)
    BY <1>b, <2>6, ReadNonceStep DEF ReadNonce
  <2>7. CASE Submit(r)
    BY <1>b, <2>7, SubmitStep DEF Submit
  <2>8. CASE SubmitRefused(r)
    BY <1>a, <1>b, <2>8, DropStep DEF SubmitRefused
  <2>9. CASE AwaitReceipt(r)
    BY <1>b, <2>9, AwaitStep DEF AwaitReceipt
  <2>10. CASE Abandon(r)
    <3>1. PICK s : s = pc[r]
      OBVIOUS
    <3>2. /\ Leave(r, s, "lost") /\ s \notin {"new", "refused"}
          /\ UNCHANGED <<ledgerVars, now, restarts, minted, chainVars, historyVars>>
      BY <2>10, <3>1 DEF Abandon
    <3>3. QED
      BY <1>a, <1>b, <3>2, DropStep
  <2>11. QED
    BY <1>1, <2>1, <2>2, <2>3, <2>4, <2>5, <2>6, <2>7, <2>8, <2>9, <2>10 DEF RequestStep
<1>2. ASSUME NEW tx \in pool, Mine(tx) PROVE IInv' /\ Refined /\ Survives
  BY <1>2, <1>b, MineStep DEF Mine
<1>3. CASE Tick
  <2>1. now' \in 0..MaxTime
    BY <1>3, ConstantsAssumption DEF Tick, IInv, TypeOK
  <2>2. QED
    BY <1>3, <1>a, <1>b, <2>1, IdleStep DEF Tick
<1>4. CASE Restart
  <2>1. restarts' # restarts
    BY <1>4 DEF Restart, IInv, TypeOK
  <2>2. QED
    BY <1>4, <1>a, <2>1, RestartStep DEF Restart, Survives
<1>5. CASE UNCHANGED vars
  <2>1. now' \in 0..MaxTime
    BY <1>5 DEF vars, IInv, TypeOK
  <2>2. QED
    BY <1>5, <1>a, <1>b, <2>1, IdleStep DEF vars
<1>6. QED
  BY <1>1, <1>2, <1>3, <1>4, <1>5 DEF Next

\* The invariant gives what the run checks.
LEMMA InvImplies == IInv => PaymentInv /\ OnlyPaidRequestsServed
<1> SUFFICES ASSUME IInv PROVE PaymentInv /\ OnlyPaidRequestsServed
  OBVIOUS
<1>1. \A s \in Admitted : s \in Holding
  BY DEF Holding
<1>2. OnlyPaidRequestsServed
  BY <1>1 DEF IInv, HolderPart, OnlyPaidRequestsServed
<1>3. LedgerSound
  BY DEF IInv, LedgerPart, MintPart, LedgerSound
<1>4. QED
  BY <1>2, <1>3 DEF IInv, ReportPart, PaymentInv

\* The inductive invariant holds in every state.
LEMMA InvAlways == Spec => []IInv
<1>1. IInv /\ [Next]_vars => IInv'
  BY InvNext
<1>2. QED
  BY InvInit, <1>1, PTL DEF Spec

\* PaymentInv holds in every state: the two indexes of the ledger agree and
\* fit its capacity, a nonce in the ledger was never used, and every report
\* to on_settled is of an executed authorization of its own.
THEOREM LedgerAlwaysSound == Spec => []PaymentInv
BY InvAlways, InvImplies, PTL

\* OnlyPaidRequestsServed in every state: whatever nonces clients replay or
\* share, the handler works on requests with a sufficient authorization over
\* a nonce that was minted for exactly this request.
THEOREM ServedRequestsArePaid == Spec => []OnlyPaidRequestsServed
BY InvAlways, InvImplies, PTL

\* The payment layer implements PayPerUse: an authorization admits one
\* request, and is charged once and only after a 2xx.
THEOREM PaymentRefinement == Spec => ImplementsPayPerUse
<1>1. Init => Payment!Init
  BY DEF Init, Payment!Init
<1>2. IInv /\ [Next]_vars => [Payment!Next]_<<granted, answered, executed>>
  BY InvNext DEF Refined
<1>3. <<granted, answered, executed>> = Payment!vars
  BY DEF Payment!vars
<1>4. IInv /\ [Next]_vars => [Payment!Next]_(Payment!vars)
  BY <1>2, <1>3 DEF Payment!vars
<1>5. QED
  BY InvAlways, <1>1, <1>4, PTL DEF Spec, ImplementsPayPerUse, Payment!Spec

\* OldChallengesSurvive holds of every step: a flood of unpaid challenges
\* evicts only expired challenges and the newest one of a full ledger.
THEOREM ChallengesSurvive == Spec => OldChallengesSurvive
<1>1. IInv /\ [Next]_vars => [Survives]_vars
  BY InvNext
<1>2. [Survives]_vars <=>
       [\A n \in DOMAIN entries :
          restarts' = restarts /\ n \notin DOMAIN entries' =>
            \/ entries[n].expires <= now
            \/ Older(n) = MaxOutstanding - 1
            \/ \E r \in Requests : Presents(r, n) /\ pc'[r] # "paying"]_vars
  BY DEF Survives
<1>3. QED
  BY InvAlways, <1>1, <1>2, PTL DEF Spec, OldChallengesSurvive

-----------------------------------------------------------------------------
(***************************************************************************)
(* The operator's wallet, the other sender of transactions: the proofs     *)
(* about OperatorWallet, for any number of calls, payments, ceiling and    *)
(* epoch length.                                                           *)
(***************************************************************************)

\* The epoch that a call computes is one of the behaviour's epochs.
LEMMA EpochInRange ==
  ASSUME WalletConstantsOK, NEW b \in Heights
  PROVE  b \div BlocksPerEpoch \in Epochs
<1> USE DEF WalletConstantsOK
<1>1. b \in Nat /\ b <= MaxHeight /\ MaxHeight \in Nat /\ BlocksPerEpoch \in Nat \ {0}
  BY DEF Heights
<1>2. b \div BlocksPerEpoch <= MaxHeight \div BlocksPerEpoch
  BY <1>1, QuotientMonotone
<1>3. b \div BlocksPerEpoch \in Nat /\ MaxHeight \div BlocksPerEpoch \in Nat
  BY <1>1
<1>4. QED
  BY <1>2, <1>3 DEF Epochs

-----------------------------------------------------------------------------
\* The initial state is well typed.
LEMMA WalletTypeInit == WalletConstantsOK /\ WalletInit => WalletTypeOK
<1> SUFFICES ASSUME WalletConstantsOK PROVE WalletInit => WalletTypeOK
  OBVIOUS
<1> USE DEF WalletConstantsOK
<1>1. MaxHeight \div BlocksPerEpoch \in Nat /\ Ceiling \in Nat /\ MaxHeight \in Nat
  OBVIOUS
<1>2. 0 \in Epochs /\ 0 \in Heights /\ 0 \in 0..Ceiling
  BY <1>1 DEF Epochs, Heights
<1>3. WalletInit => window \in [epoch : Epochs, spent : 0..Ceiling]
  BY <1>2 DEF WalletInit
<1>4. WalletInit => step \in [Calls -> CallPc]
  BY DEF WalletInit, CallPc
<1>5. WalletInit => /\ height \in Heights /\ accepted \subseteq Nat /\ next \in Nat
              /\ block \in [Calls -> Heights] /\ nonce \in [Calls -> Nat]
              /\ count \in [Calls -> Nat] /\ spent \in [Epochs -> Nat]
  BY <1>2 DEF WalletInit
<1>6. WalletInit => seeded \in BOOLEAN /\ late \in BOOLEAN /\ failures \in BOOLEAN
              /\ dropped \in BOOLEAN
  BY Zenon DEF WalletInit
<1>7. QED
  BY <1>3, <1>4, <1>5, <1>6 DEF WalletTypeOK

\* Type correctness: in particular the window never holds more than the
\* ceiling.
THEOREM WalletTypeCorrect == WalletSpec => []WalletTypeOK
<1> USE WalletAssumption DEF WalletConstantsOK
<1>1. WalletInit => WalletTypeOK
  BY WalletTypeInit
<1>2. ASSUME WalletTypeOK, [WalletNext]_allWalletVars PROVE WalletTypeOK'
  <2> USE <1>2
     DEF WalletTypeOK, callVars, walletVars, walletHistory, Advance,
         CallPc
  <2>1. ASSUME NEW c \in Calls, ReadBlock(c) PROVE WalletTypeOK'
    BY <2>1 DEF ReadBlock
  <2>2. ASSUME NEW c \in Calls, TrySpend(c) PROVE WalletTypeOK'
    <3> DEFINE e == block[c] \div BlocksPerEpoch
               w == RolledOver(e)
    <3>1. e \in Epochs
      BY EpochInRange
    <3>2. w \in [epoch : Epochs, spent : 0..Ceiling]
      BY <3>1 DEF RolledOver
    <3>3. Amount[c] \in Nat /\ Ceiling \in Nat
      OBVIOUS
    <3> HIDE DEF w, e
    <3>4. window' \in [epoch : Epochs, spent : 0..Ceiling]
      BY <2>2, <3>2, <3>3 DEF TrySpend, w, e
    <3>5. spent' \in [Epochs -> Nat]
      BY <2>2, <3>1, <3>3 DEF TrySpend, e
    <3>6. late' \in BOOLEAN
      BY <2>2 DEF TrySpend
    <3>7. QED
      BY <2>2, <3>4, <3>5, <3>6 DEF TrySpend
  <2>3. ASSUME NEW c \in Calls, Reserve(c) PROVE WalletTypeOK'
    BY <2>3 DEF Reserve
  <2>4. ASSUME NEW c \in Calls, ChainUnavailable(c) PROVE WalletTypeOK'
    BY <2>4 DEF ChainUnavailable
  <2>5. ASSUME NEW c \in Calls, Sign(c) PROVE WalletTypeOK'
    BY <2>5 DEF Sign
  <2>6. ASSUME NEW c \in Calls, SubmitSigned(c) PROVE WalletTypeOK'
    <3>1. nonce[c] \in Nat
      OBVIOUS
    <3>2. accepted' \subseteq Nat
      BY <2>6, <3>1 DEF SubmitSigned
    <3>3. step' \in [Calls -> CallPc]
      BY <2>6 DEF SubmitSigned
    <3>4. QED
      BY <2>6, <3>2, <3>3 DEF SubmitSigned
  <2>7. ASSUME NEW c \in Calls, SubmitFails(c) PROVE WalletTypeOK'
    <3>1. nonce[c] \in Nat
      OBVIOUS
    <3>2. accepted' \subseteq Nat
      BY <2>7, <3>1 DEF SubmitFails
    <3>3. step' \in [Calls -> CallPc]
      BY <2>7 DEF SubmitFails
    <3>4. QED
      BY <2>7, <3>2, <3>3 DEF SubmitFails
  <2>8. ASSUME NEW c \in Calls, ReadCount(c) PROVE WalletTypeOK'
    <3>1. count' \in [Calls -> Nat] /\ step' \in [Calls -> CallPc]
      BY <2>8 DEF ReadCount
    <3>2. dropped' \in BOOLEAN
      BY <2>8 DEF ReadCount
    <3>3. /\ UNCHANGED <<height, accepted, block, nonce, window, seeded, next>>
          /\ UNCHANGED <<spent, late, failures>>
      BY <2>8 DEF ReadCount
    <3>4. QED
      BY <3>1, <3>2, <3>3
  <2>9. ASSUME NEW c \in Calls, Resync(c) PROVE WalletTypeOK'
    BY <2>9 DEF Resync
  <2>10. CASE NewBlock
    BY <2>10 DEF NewBlock, Heights
  <2>11. CASE UNCHANGED allWalletVars
    BY <2>11 DEF allWalletVars
  <2>12. QED
    BY <2>1, <2>2, <2>3, <2>4, <2>5, <2>6, <2>7, <2>8, <2>9, <2>10, <2>11
       DEF WalletNext, Call
<1>3. QED
  BY <1>1, <1>2, PTL DEF WalletSpec

-----------------------------------------------------------------------------
\* What a call has read to resync the manager is no more than the node has.
CountsAccepted ==
  \A c \in Calls : step[c] = "resyncing" =>
    \A m \in 0..(count[c] - 1) : m \in accepted

GapInv == ~dropped => NoGap /\ CountsAccepted

\* No gap outlives the calls, however submissions fail, answers get lost and
\* resyncs race reservations, unless a call gives its nonce up unrepaired.
THEOREM GapsAreRepaired == WalletSpec => []NoLastingGap
<1> USE WalletAssumption DEF WalletConstantsOK
<1>1. WalletInit => GapInv
  BY DEF WalletInit, GapInv, NoGap, CountsAccepted
<1>2. ASSUME WalletTypeOK, WalletTypeOK', GapInv, [WalletNext]_allWalletVars
      PROVE  GapInv'
  <2> SUFFICES ASSUME ~dropped' PROVE NoGap' /\ CountsAccepted'
    BY DEF GapInv
  <2>a. ~dropped
    BY <1>2
       DEF WalletNext, Call, allWalletVars, walletHistory, ReadBlock,
           TrySpend, Reserve,
       ChainUnavailable, Sign, SubmitSigned, SubmitFails, ReadCount, Resync, NewBlock
  <2>b. NoGap /\ CountsAccepted
    BY <1>2, <2>a DEF GapInv
  <2> USE DEF Advance, HoldsNonce, Repairing
  <2>0. /\ step \in [Calls -> CallPc] /\ nonce \in [Calls -> Nat]
        /\ count \in [Calls -> Nat] /\ next \in Nat /\ NumCalls \in Nat
        /\ step' \in [Calls -> CallPc] /\ nonce' \in [Calls -> Nat]
        /\ count' \in [Calls -> Nat] /\ next' \in Nat
    BY <1>2 DEF WalletTypeOK
  <2>1. ASSUME NEW c \in Calls, step[c] \notin {"signing", "submitting", "counting", "resyncing"},
               NEW p \in CallPc \ {"resyncing"}, step' = [step EXCEPT ![c] = p],
               UNCHANGED <<accepted, nonce, count, next>>
        PROVE  NoGap' /\ CountsAccepted'
    <3>1. \A d \in Calls : HoldsNonce(d) => HoldsNonce(d)'
      BY <2>0, <2>1
    <3>2. \A d \in Calls : Repairing(d) => Repairing(d)'
      BY <2>0, <2>1
    <3>3. NoGap'
      BY <2>b, <2>1, <3>1, <3>2 DEF NoGap
    <3>4. CountsAccepted'
      BY <2>b, <2>0, <2>1 DEF CountsAccepted
    <3>5. QED
      BY <3>3, <3>4
  <2>2. ASSUME NEW c \in Calls, ReadBlock(c) PROVE NoGap' /\ CountsAccepted'
    BY <2>1, <2>2 DEF ReadBlock, CallPc, walletVars
  <2>3. ASSUME NEW c \in Calls, TrySpend(c) PROVE NoGap' /\ CountsAccepted'
    BY <2>1, <2>3 DEF TrySpend, CallPc
  <2>4. ASSUME NEW c \in Calls, ChainUnavailable(c) PROVE NoGap' /\ CountsAccepted'
    BY <2>1, <2>4 DEF ChainUnavailable, CallPc, walletVars
  <2>5. ASSUME NEW c \in Calls, Reserve(c) PROVE NoGap' /\ CountsAccepted'
    <3>1. PICK n \in 0..NumCalls :
            /\ IF seeded THEN n = next ELSE Pending(n)
            /\ step[c] = "reserving" /\ step' = [step EXCEPT ![c] = "signing"]
            /\ nonce' = [nonce EXCEPT ![c] = n]
            /\ next' = n + 1
            /\ UNCHANGED <<accepted, count>>
      BY <2>5 DEF Reserve
    <3>2. \A d \in Calls : HoldsNonce(d) => HoldsNonce(d)' /\ nonce'[d] = nonce[d]
      BY <2>0, <3>1
    <3>3. \A d \in Calls : Repairing(d) => Repairing(d)'
      BY <2>0, <3>1
    <3>4. HoldsNonce(c)' /\ nonce'[c] = n
      BY <2>0, <3>1
    <3>5. ASSUME NEW m \in 0..(n - 1)
          PROVE  \/ m \in accepted'
                 \/ \E d \in Calls : HoldsNonce(d)' /\ nonce'[d] = m
                 \/ \E d \in Calls : Repairing(d)'
      <4>1. CASE seeded
        BY <2>b, <3>1, <3>2, <3>3, <4>1 DEF NoGap
      <4>2. CASE ~seeded
        BY <2>0, <3>1, <4>2 DEF Pending
      <4>3. QED
        BY <4>1, <4>2
    <3>6. NoGap'
      BY <2>0, <3>1, <3>4, <3>5 DEF NoGap
    <3>7. CountsAccepted'
      BY <2>b, <2>0, <3>1 DEF CountsAccepted
    <3>8. QED
      BY <3>6, <3>7
  <2>6. ASSUME NEW c \in Calls, Sign(c) PROVE NoGap' /\ CountsAccepted'
    <3>1. /\ step[c] = "signing" /\ step' = [step EXCEPT ![c] = "submitting"]
          /\ UNCHANGED <<accepted, nonce, count, next>>
      BY <2>6 DEF Sign, walletVars
    <3>2. \A d \in Calls : HoldsNonce(d) => HoldsNonce(d)'
      BY <2>0, <3>1
    <3>3. \A d \in Calls : Repairing(d) => Repairing(d)'
      BY <2>0, <3>1
    <3>4. NoGap'
      BY <2>b, <3>1, <3>2, <3>3 DEF NoGap
    <3>5. CountsAccepted'
      BY <2>b, <2>0, <3>1 DEF CountsAccepted
    <3>6. QED
      BY <3>4, <3>5
  <2>7. ASSUME NEW c \in Calls, SubmitSigned(c) PROVE NoGap' /\ CountsAccepted'
    <3>1. /\ step[c] = "submitting" /\ step' = [step EXCEPT ![c] = "done"]
          /\ accepted' = accepted \cup {nonce[c]}
          /\ UNCHANGED <<nonce, count, next>>
      BY <2>7 DEF SubmitSigned, walletVars
    <3>2. \A d \in Calls : HoldsNonce(d) => HoldsNonce(d)' \/ d = c
      BY <2>0, <3>1
    <3>3. \A d \in Calls : Repairing(d) => Repairing(d)'
      BY <2>0, <3>1
    <3>4. NoGap'
      BY <2>b, <3>1, <3>2, <3>3 DEF NoGap
    <3>5. CountsAccepted'
      BY <2>b, <2>0, <3>1 DEF CountsAccepted
    <3>6. QED
      BY <3>4, <3>5
  <2>8. ASSUME NEW c \in Calls, SubmitFails(c) PROVE NoGap' /\ CountsAccepted'
    <3>1. /\ step[c] = "submitting" /\ step' = [step EXCEPT ![c] = "counting"]
          /\ accepted \subseteq accepted'
          /\ UNCHANGED <<nonce, count, next>>
      BY <2>8 DEF SubmitFails, walletVars
    <3>2. Repairing(c)'
      BY <2>0, <3>1
    <3>3. NoGap'
      BY <3>2 DEF NoGap
    <3>4. CountsAccepted'
      BY <2>b, <2>0, <3>1 DEF CountsAccepted
    <3>5. QED
      BY <3>3, <3>4
  <2>9. ASSUME NEW c \in Calls, ReadCount(c) PROVE NoGap' /\ CountsAccepted'
    <3>1. PICK n \in 0..NumCalls :
            /\ Pending(n)
            /\ step[c] = "counting" /\ step' = [step EXCEPT ![c] = "resyncing"]
            /\ count' = [count EXCEPT ![c] = n]
            /\ UNCHANGED <<accepted, nonce, next>>
      BY <2>9 DEF ReadCount, walletVars
    <3>2. Repairing(c)'
      BY <2>0, <3>1
    <3>3. NoGap'
      BY <3>2 DEF NoGap
    <3>4. \A m \in 0..(n - 1) : m \in accepted
      BY <2>0, <3>1 DEF Pending
    <3>5. CountsAccepted'
      BY <2>b, <2>0, <3>1, <3>4 DEF CountsAccepted
    <3>6. QED
      BY <3>3, <3>5
  <2>10. ASSUME NEW c \in Calls, Resync(c) PROVE NoGap' /\ CountsAccepted'
    <3>1. /\ step[c] = "resyncing" /\ step' = [step EXCEPT ![c] = "failed"]
          /\ next' = count[c]
          /\ UNCHANGED <<accepted, nonce, count>>
      BY <2>10 DEF Resync
    <3>2. NoGap'
      BY <2>b, <3>1 DEF NoGap, CountsAccepted
    <3>3. CountsAccepted'
      BY <2>b, <2>0, <3>1 DEF CountsAccepted
    <3>4. QED
      BY <3>2, <3>3
  <2>11. CASE NewBlock
    BY <2>b, <2>11
       DEF NewBlock, NoGap, CountsAccepted, callVars, walletVars
  <2>12. CASE UNCHANGED allWalletVars
    BY <2>b, <2>12 DEF allWalletVars, NoGap, CountsAccepted, callVars, walletVars
  <2>13. QED
    BY <1>2, <2>2, <2>3, <2>4, <2>5, <2>6, <2>7, <2>8, <2>9, <2>10, <2>11, <2>12
       DEF WalletNext, Call
<1>3. GapInv => NoLastingGap
  BY DEF GapInv, NoLastingGap
<1>4. QED
  BY <1>1, <1>2, <1>3, WalletTypeCorrect, PTL DEF WalletSpec

-----------------------------------------------------------------------------
\* Until a submission fails nothing is repaired, and the nonces of the calls
\* are distinct and below the manager's next one.
ReuseInv ==
  ~failures =>
    /\ \A c \in Calls : ~Repairing(c)
    /\ \A c \in Calls : Owning(c) => seeded /\ nonce[c] < next
    /\ NonceNeverReused

\* Concurrent calls share a nonce only after a submission failed.
THEOREM FaultFreeNoncesDistinct == WalletSpec => []ReuseOnlyAfterFailure
<1> USE WalletAssumption DEF WalletConstantsOK
<1>1. WalletInit => ReuseInv
  BY DEF WalletInit, ReuseInv, Repairing, Owning, NonceNeverReused
<1>2. ASSUME WalletTypeOK, WalletTypeOK', ReuseInv, [WalletNext]_allWalletVars
      PROVE  ReuseInv'
  <2> SUFFICES ASSUME ~failures' PROVE ReuseInv'
    BY DEF ReuseInv
  <2> USE DEF Advance, Repairing, Owning
  <2>0. /\ step \in [Calls -> CallPc] /\ nonce \in [Calls -> Nat] /\ next \in Nat
        /\ step' \in [Calls -> CallPc] /\ nonce' \in [Calls -> Nat] /\ next' \in Nat
    BY <1>2 DEF WalletTypeOK
  <2>1. ASSUME ~failures
        PROVE  /\ \A c \in Calls : ~Repairing(c)
               /\ \A c \in Calls : Owning(c) => seeded /\ nonce[c] < next
               /\ NonceNeverReused
    BY <1>2, <2>1 DEF ReuseInv
  <2>2. ASSUME NEW c \in Calls, NEW p \in CallPc,
               p \notin {"counting", "resyncing"},
               p \in {"signing", "submitting", "done"} => Owning(c),
               step' = [step EXCEPT ![c] = p],
               UNCHANGED <<failures, seeded, next, nonce>>
        PROVE  ReuseInv'
    <3>1. \A d \in Calls : Owning(d)' => Owning(d)
      BY <2>0, <2>2
    <3>2. \A d \in Calls : Repairing(d)' => Repairing(d)
      BY <2>0, <2>2
    <3>3. ~failures
      BY <2>2
    <3>4. QED
      BY <2>1, <2>2, <3>1, <3>2, <3>3 DEF ReuseInv, NonceNeverReused
  <2>3. ASSUME NEW c \in Calls, ReadBlock(c) PROVE ReuseInv'
    BY <2>2, <2>3 DEF ReadBlock, CallPc, walletVars, walletHistory
  <2>4. ASSUME NEW c \in Calls, TrySpend(c) PROVE ReuseInv'
    BY <2>2, <2>4 DEF TrySpend, CallPc
  <2>5. ASSUME NEW c \in Calls, ChainUnavailable(c) PROVE ReuseInv'
    BY <2>2, <2>5 DEF ChainUnavailable, CallPc, walletVars, walletHistory
  <2>6. ASSUME NEW c \in Calls, Sign(c) PROVE ReuseInv'
    BY <2>2, <2>6 DEF Sign, CallPc, walletVars, walletHistory
  <2>7. ASSUME NEW c \in Calls, SubmitSigned(c) PROVE ReuseInv'
    BY <2>2, <2>7 DEF SubmitSigned, CallPc, walletVars, walletHistory
  <2>8. ASSUME NEW c \in Calls, Reserve(c) PROVE ReuseInv'
    <3>1. PICK n \in 0..NumCalls :
            /\ seeded => n = next
            /\ step[c] = "reserving" /\ step' = [step EXCEPT ![c] = "signing"]
            /\ nonce' = [nonce EXCEPT ![c] = n]
            /\ seeded' /\ next' = n + 1
            /\ UNCHANGED failures
      BY <2>8 DEF Reserve, walletHistory
    <3>2. ~failures
      BY <3>1
    <3>3. \A d \in Calls \ {c} : Owning(d)' => Owning(d) /\ nonce'[d] = nonce[d]
      BY <2>0, <3>1
    <3>4. \A d \in Calls \ {c} : Owning(d)' => nonce'[d] < n
      BY <2>1, <3>1, <3>2, <3>3
    <3>5. nonce'[c] = n
      BY <2>0, <3>1
    <3>6. n \in Nat
      BY <3>1
    <3>7. \A d \in Calls : Owning(d)' => seeded' /\ nonce'[d] < next'
      BY <2>0, <3>1, <3>4, <3>5, <3>6
    <3>8. \A d \in Calls : ~Repairing(d)'
      BY <2>0, <2>1, <3>1, <3>2
    <3>9. NonceNeverReused'
      BY <2>0, <2>1, <3>2, <3>3, <3>4, <3>5, <3>6 DEF NonceNeverReused
    <3>10. QED
      BY <3>7, <3>8, <3>9 DEF ReuseInv
  <2>9. ASSUME NEW c \in Calls, SubmitFails(c) PROVE ReuseInv'
    BY <2>9 DEF SubmitFails
  <2>10. ASSUME NEW c \in Calls, ReadCount(c) PROVE ReuseInv'
    BY <2>1, <2>10 DEF ReadCount, walletHistory
  <2>11. ASSUME NEW c \in Calls, Resync(c) PROVE ReuseInv'
    BY <2>1, <2>11 DEF Resync, walletHistory
  <2>12. CASE NewBlock
    BY <1>2, <2>12
       DEF NewBlock, ReuseInv, NonceNeverReused, callVars,
           walletVars, walletHistory
  <2>13. CASE UNCHANGED allWalletVars
    BY <1>2, <2>13
       DEF allWalletVars, ReuseInv, NonceNeverReused, callVars, walletVars,
           walletHistory
  <2>14. QED
    BY <1>2, <2>3, <2>4, <2>5, <2>6, <2>7, <2>8, <2>9, <2>10, <2>11, <2>12, <2>13
       DEF WalletNext, Call
<1>3. ReuseInv => ReuseOnlyAfterFailure
  BY DEF ReuseInv, ReuseOnlyAfterFailure
<1>4. QED
  BY <1>1, <1>2, <1>3, WalletTypeCorrect, PTL DEF WalletSpec

-----------------------------------------------------------------------------
\* While no call came late, the window is what was spent in its epoch and
\* nothing was spent in a later one.
CapInv ==
  ~late =>
    /\ spent[window.epoch] = window.spent
    /\ \A e \in Epochs : e > window.epoch => spent[e] = 0
    /\ SpendCapHolds

\* The spend cap holds for every epoch while calls reach it in the order of
\* the epochs they read.
THEOREM CapHolds == WalletSpec => []CapHoldsInOrder
<1> USE WalletAssumption DEF WalletConstantsOK
<1>1. WalletInit => CapInv
  <2>1. MaxHeight \div BlocksPerEpoch \in Nat /\ Ceiling \in Nat
    OBVIOUS
  <2>2. 0 \in Epochs
    BY <2>1 DEF Epochs
  <2>3. QED
    BY <2>1, <2>2 DEF WalletInit, CapInv, SpendCapHolds
<1>2. ASSUME WalletTypeOK, WalletTypeOK', CapInv, [WalletNext]_allWalletVars
      PROVE  CapInv'
  <2>1. ASSUME UNCHANGED <<window, spent, late>> PROVE CapInv'
    BY <1>2, <2>1 DEF CapInv, SpendCapHolds
  <2>2. ASSUME NEW c \in Calls, TrySpend(c) PROVE CapInv'
    <3> DEFINE e == block[c] \div BlocksPerEpoch
               w == RolledOver(e)
    <3>1. e \in Epochs
      BY <1>2, EpochInRange DEF WalletTypeOK
    <3>2. Epochs \subseteq Nat
      BY DEF Epochs
    <3>3. /\ window \in [epoch : Epochs, spent : 0..Ceiling]
          /\ spent \in [Epochs -> Nat]
          /\ Amount[c] \in Nat /\ Ceiling \in Nat
      BY <1>2 DEF WalletTypeOK
    <3> HIDE DEF w, e
    <3>a. e \in Nat /\ window.epoch \in Nat
      BY <3>1, <3>2, <3>3
    <3>4. CASE late \/ e < window.epoch
      <4>1. late'
        BY <2>2, <3>4 DEF TrySpend, e
      <4>2. QED
        BY <4>1 DEF CapInv
    <3>5. CASE ~late /\ e >= window.epoch
      <4>1. /\ spent[window.epoch] = window.spent
            /\ \A f \in Epochs : f > window.epoch => spent[f] = 0
            /\ \A f \in Epochs : spent[f] <= Ceiling
        BY <1>2, <3>5 DEF CapInv, SpendCapHolds
      <4>2. /\ w.epoch = e /\ w.spent = spent[e] /\ w.spent \in Nat
            /\ w = [epoch |-> e, spent |-> spent[e]]
        <5>1. CASE window.epoch = e
          BY <3>1, <3>3, <4>1, <5>1 DEF RolledOver, w
        <5>2. CASE window.epoch # e
          <6>1. e > window.epoch
            BY <3>a, <3>5, <5>2
          <6>2. spent[e] = 0
            BY <3>1, <4>1, <6>1
          <6>3. QED
            BY <5>2, <6>2 DEF RolledOver, w
        <5>3. QED
          BY <5>1, <5>2
      <4>3. \A f \in Epochs : f > e => spent[f] = 0
        <5>1. \A f \in Epochs : f \in Nat /\ (f > e => f > window.epoch)
          BY <3>a, <3>2, <3>5
        <5>2. QED
          BY <4>1, <5>1
      <4>4. CASE window' = w /\ UNCHANGED spent
        BY <4>1, <4>2, <4>3, <4>4 DEF CapInv, SpendCapHolds
      <4>5. CASE /\ w.spent + Amount[c] <= Ceiling
                 /\ window' = [w EXCEPT !.spent = @ + Amount[c]]
                 /\ spent' = [spent EXCEPT ![e] = @ + Amount[c]]
        <5>1. window' = [epoch |-> e, spent |-> spent[e] + Amount[c]]
          BY <4>2, <4>5
        <5>2. spent'[e] = spent[e] + Amount[c] /\ spent'[e] <= Ceiling
          BY <3>1, <3>3, <4>2, <4>5
        <5>3. \A f \in Epochs \ {e} : spent'[f] = spent[f]
          BY <3>3, <4>5
        <5>4. \A f \in Epochs : spent'[f] <= Ceiling
          BY <4>1, <5>2, <5>3
        <5>5. \A f \in Epochs : f > e => spent'[f] = 0
          BY <3>1, <3>2, <4>3, <5>3
        <5>6. QED
          BY <5>1, <5>2, <5>4, <5>5 DEF CapInv, SpendCapHolds
      <4>6. QED
        BY <2>2, <4>4, <4>5 DEF TrySpend, w, e
    <3>6. QED
      BY <3>a, <3>4, <3>5
  <2>3. ASSUME NEW c \in Calls, Call(c), ~TrySpend(c) PROVE CapInv'
    BY <2>1, <2>3
       DEF Call, ReadBlock, Reserve, ChainUnavailable, Sign,
           SubmitSigned,
       SubmitFails, ReadCount, Resync, walletVars, walletHistory
  <2>4. CASE NewBlock
    BY <2>1, <2>4 DEF NewBlock, walletVars, walletHistory
  <2>5. CASE UNCHANGED allWalletVars
    BY <2>1, <2>5 DEF allWalletVars, walletVars, walletHistory
  <2>6. QED
    BY <1>2, <2>2, <2>3, <2>4, <2>5 DEF WalletNext
<1>3. CapInv => CapHoldsInOrder
  BY DEF CapInv, CapHoldsInOrder
<1>4. QED
  BY <1>1, <1>2, <1>3, WalletTypeCorrect, PTL DEF WalletSpec
=============================================================================
