---------------------------- MODULE NonceLedger ----------------------------
(***************************************************************************)
(* The ledger of issued challenge nonces (ledger.rs): a map from nonce to  *)
(* entry and an index from insertion sequence to nonce, both changed under *)
(* one mutex.  At most MaxOutstanding challenges are outstanding; when the *)
(* ledger is full, expired entries go first, then the newest.              *)
(***************************************************************************)
EXTENDS Naturals, FiniteSets, Functions

CONSTANTS MaxOutstanding

VARIABLES
  entries,   \* nonce -> [expires, seq, commitment]
  order,     \* insertion_order: sequence -> nonce
  nextSeq    \* next_sequence

ledgerVars == <<entries, order, nextSeq>>

LedgerInit ==
  /\ entries = <<>>
  /\ order = <<>>
  /\ nextSeq = 0

Without(f, S) == Restrict(f, DOMAIN f \ S)

Expired(es, now) == {n \in DOMAIN es : es[n].expires <= now}

\* Expired entries are only looked for when the ledger is full.
Pruned(es, now) ==
  IF Cardinality(DOMAIN es) >= MaxOutstanding THEN Expired(es, now) ELSE {}

\* Mutant: the eviction loop takes the oldest entries.
EvictedOldest(es, ord) ==
  {s \in DOMAIN ord :
     Cardinality({t \in DOMAIN ord : t < s}) + MaxOutstanding
       <= Cardinality(DOMAIN es)}

\* The newest sequences that must go so that one more entry fits: one per
\* turn of the eviction loop.
Evicted(es, ord) ==
  {s \in DOMAIN ord :
     Cardinality({t \in DOMAIN ord : t > s}) + MaxOutstanding
       <= Cardinality(DOMAIN es)}

SequencesOf(es, S) == {es[n].seq : n \in S}

NewEntry(commitment, expires) ==
  [expires |-> expires, seq |-> nextSeq, commitment |-> commitment]

\* record_bound
RecordBound(n, commitment, expires, now) ==
  IF MaxOutstanding = 0 THEN UNCHANGED ledgerVars ELSE
  LET stale == DOMAIN entries \cap {n}
      es1   == Without(entries, stale)
      ord1  == Without(order, SequencesOf(entries, stale))
      gone  == Pruned(es1, now)
      es2   == Without(es1, gone)
      ord2  == Without(ord1, SequencesOf(es1, gone))
      last  == Evicted(es2, ord2)
      es3   == Without(es2, {ord2[s] : s \in last})
      ord3  == Without(ord2, last)
      new   == NewEntry(commitment, expires)
  IN /\ entries' = [m \in DOMAIN es3 \cup {n} |-> IF m = n THEN new ELSE es3[m]]
     /\ order' = [s \in DOMAIN ord3 \cup {nextSeq} |->
                    IF s = nextSeq THEN n ELSE ord3[s]]
     /\ nextSeq' = nextSeq + 1

\* Mutant: the insertion index keeps the sequence.
RemoveEntryOnly(n) ==
  /\ entries' = Without(entries, {n})
  /\ UNCHANGED <<order, nextSeq>>

Remove(n) ==
  /\ entries' = Without(entries, {n})
  /\ order' = Without(order, {entries[n].seq})
  /\ UNCHANGED nextSeq

\* Mutant: the commitment is not compared.
ConsumeUnbound(n, commitment, now) ==
  /\ n \in DOMAIN entries
  /\ entries[n].expires > now
  /\ Remove(n)

\* consume_bound, Ok: the nonce is live and was minted for this request.
ConsumeBound(n, commitment, now) ==
  /\ n \in DOMAIN entries
  /\ entries[n].expires > now
  /\ entries[n].commitment = commitment
  /\ Remove(n)

\* consume_bound, Err: an expired nonce goes, one of another request stays.
ConsumeRefused(n, commitment, now) ==
  \/ /\ n \notin DOMAIN entries
     /\ UNCHANGED ledgerVars
  \/ /\ n \in DOMAIN entries
     /\ entries[n].expires <= now
     /\ Remove(n)
  \/ /\ n \in DOMAIN entries
     /\ entries[n].expires > now
     /\ entries[n].commitment # commitment
     /\ UNCHANGED ledgerVars

\* The two indexes describe the same challenges, and no more than fit.
IndexesAgree ==
  /\ \A n \in DOMAIN entries :
       entries[n].seq \in DOMAIN order /\ order[entries[n].seq] = n
  /\ \A s \in DOMAIN order :
       order[s] \in DOMAIN entries /\ entries[order[s]].seq = s
  /\ \A s \in DOMAIN order : s < nextSeq
  /\ Cardinality(DOMAIN entries) <= MaxOutstanding
=============================================================================
