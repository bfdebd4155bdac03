------------------------ MODULE BatchEscrow_proofs ------------------------
(***************************************************************************)
(* Proofs about BatchEscrow, for every set of keys, number and size of     *)
(* batches, price, quote, deposit and number of crashes.                   *)
(***************************************************************************)
EXTENDS BatchEscrow, Totals_proofs

-----------------------------------------------------------------------------
(* Records.                                                                *)

LEMMA BatchFacts ==
  ASSUME NEW b \in Batches
  PROVE  /\ Size[b] \in Nat /\ Size[b] # 0
         /\ Slots(b) = 1..Size[b]
         /\ Payer[b] \in Keys \cup {NoKey}
         /\ Payer[b] # NoKey => Payer[b] \in Keys
BY ConstantsAssumption DEF Slots

\* The quotes of any part of a batch add up to a natural number.
LEMMA QuoteOfType ==
  ASSUME NEW b \in Batches, NEW r, r.quote \in [Slots(b) -> Nat], NEW S
  PROVE  QuoteOf(b, r, S) \in Nat
<1>1. Only(r.quote, Size[b], S) \in [1..Size[b] -> Nat]
  BY BatchFacts DEF Only
<1> QED
  BY <1>1, BatchFacts, TotalType DEF QuoteOf

\* The quotes of the done and of the errored slots of a record without open
\* slots make up its escrow: split_quoted_escrow loses nothing.
LEMMA QuoteSplit ==
  ASSUME NEW b \in Batches, NEW r,
         r.quote \in [Slots(b) -> Nat], r.slots \in [Slots(b) -> SlotState],
         OpenSlots(r) = {}
  PROVE  QuoteOf(b, r, DoneSlots(r)) + QuoteOf(b, r, ErroredSlots(r))
           = Total(r.quote, Size[b])
<1> DEFINE n == Size[b]
           q == r.quote
           d == Only(q, n, DoneSlots(r))
           e == Only(q, n, ErroredSlots(r))
<1>1. n \in Nat /\ q \in [1..n -> Nat] /\ DOMAIN r.slots = 1..n
  BY BatchFacts
<1>2. d \in [1..n -> Nat] /\ e \in [1..n -> Nat]
  BY <1>1 DEF Only
<1>3. \A i \in 1..n : q[i] = d[i] + e[i]
  <2> TAKE i \in 1..n
  <2>1. i \in DoneSlots(r) \/ i \in ErroredSlots(r)
    BY <1>1 DEF OpenSlots
  <2>2. ~(i \in DoneSlots(r) /\ i \in ErroredSlots(r))
    BY DEF DoneSlots, ErroredSlots
  <2>3. d[i] = (IF i \in DoneSlots(r) THEN q[i] ELSE 0)
    BY DEF Only
  <2>4. e[i] = (IF i \in ErroredSlots(r) THEN q[i] ELSE 0)
    BY DEF Only
  <2> QED
    BY <1>1, <2>1, <2>2, <2>3, <2>4
<1> QED
  BY <1>1, <1>2, <1>3, TotalSplit DEF QuoteOf

\* A record that submit_batch_handler makes is well formed and open.
LEMMA NewRecordSound ==
  ASSUME NEW b \in Batches, NEW q \in [Slots(b) -> Quotes]
  PROVE  /\ NewRecord(b, q) \in BatchRecord(b)
         /\ NewRecord(b, q) # NoBatch
         /\ ~IsTerminal(NewRecord(b, q))
         /\ RecordSound(b, NewRecord(b, q))
         /\ NewRecord(b, q).paid = Total(q, Size[b])
<1>1. q \in [Slots(b) -> Nat]
  BY ConstantsAssumption
<1>2. Total(q, Size[b]) \in Nat
  BY <1>1, BatchFacts, TotalType
<1>3. NewRecord(b, q) \in BatchRecord(b)
  BY <1>1, <1>2 DEF NewRecord, BatchRecord, SlotState
<1>4. NewRecord(b, q) # NoBatch
  <2>1. NewRecord(b, q).status = "submitted"
    BY DEF NewRecord
  <2> QED
    BY <2>1 DEF NoBatch
<1>5. ~IsTerminal(NewRecord(b, q))
  BY DEF NewRecord, IsTerminal, TerminalStatus
<1> QED
  BY <1>3, <1>4, <1>5 DEF NewRecord, RecordSound

\* A record is never taken for the absence of one.
LEMMA RecordIsNotNoBatch ==
  ASSUME NEW b, NEW r \in BatchRecord(b)
  PROVE  r # NoBatch
<1>1. r.status # "none"
  BY DEF BatchRecord, TerminalStatus
<1> QED
  BY <1>1 DEF NoBatch

\* Finalizing a record without open slots splits its escrow.
LEMMA FinalizedSound ==
  ASSUME NEW b \in Batches, NEW r \in BatchRecord(b),
         OpenSlots(r) = {}, r.paid = Total(r.quote, Size[b])
  PROVE  /\ Finalized(b, r) \in BatchRecord(b)
         /\ Finalized(b, r) # NoBatch
         /\ IsTerminal(Finalized(b, r))
         /\ RecordSound(b, Finalized(b, r))
         /\ Finalized(b, r).paid = r.paid
         /\ Finalized(b, r).refunded <= r.paid
<1> DEFINE f == Finalized(b, r)
           rel == QuoteOf(b, r, DoneSlots(r))
           ref == QuoteOf(b, r, ErroredSlots(r))
<1>1. /\ r.quote \in [Slots(b) -> Nat] /\ r.slots \in [Slots(b) -> SlotState]
      /\ r.paid \in Nat
  BY DEF BatchRecord
<1>2. rel \in Nat /\ ref \in Nat
  BY <1>1, QuoteOfType
<1>3. rel + ref = r.paid
  BY <1>1, QuoteSplit
<1>4. Outcome(r) \in TerminalStatus
  BY DEF Outcome, TerminalStatus
<1>5. f \in BatchRecord(b)
  BY <1>2, <1>4 DEF Finalized, BatchRecord
<1>6. /\ f.status = Outcome(r) /\ f.slots = r.slots /\ f.quote = r.quote
      /\ f.paid = r.paid /\ f.released = rel /\ f.refunded = ref
  BY DEF Finalized, BatchRecord
<1>7. IsTerminal(f)
  BY <1>4, <1>6 DEF IsTerminal
<1>8. /\ DoneSlots(f) = DoneSlots(r) /\ ErroredSlots(f) = ErroredSlots(r)
      /\ OpenSlots(f) = {}
  BY <1>6 DEF DoneSlots, ErroredSlots, OpenSlots
<1>9. RecordSound(b, f)
  BY <1>6, <1>7, <1>8 DEF RecordSound, QuoteOf
<1>10. f.refunded <= r.paid
  BY <1>1, <1>2, <1>3, <1>6
<1> QED
  BY <1>5, <1>6, <1>7, <1>9, <1>10, RecordIsNotNoBatch

\* Boot recovery makes a sound terminal record of any snapshot.
LEMMA ReconciledSound ==
  ASSUME NEW b \in Batches, NEW r \in BatchRecord(b), r.paid = Total(r.quote, Size[b])
  PROVE  /\ Reconciled(b, r) \in BatchRecord(b)
         /\ Reconciled(b, r) # NoBatch
         /\ IsTerminal(Reconciled(b, r))
         /\ RecordSound(b, Reconciled(b, r))
         /\ Reconciled(b, r).paid = r.paid
         /\ Reconciled(b, r).refunded <= r.paid
<1> DEFINE sl == [i \in Slots(b) |-> IF r.slots[i] = "done" THEN "done" ELSE "errored"]
           t == [r EXCEPT !.slots = sl]
<1>1. sl \in [Slots(b) -> SlotState]
  BY DEF SlotState, TerminalSlot
<1>2. t \in BatchRecord(b)
  BY <1>1 DEF BatchRecord
<1>3. t.slots = sl /\ t.paid = r.paid /\ t.quote = r.quote
  BY DEF BatchRecord
<1>4. OpenSlots(t) = {}
  BY <1>3 DEF OpenSlots, DoneSlots, ErroredSlots
<1> QED
  BY <1>2, <1>3, <1>4, FinalizedSound DEF Reconciled

-----------------------------------------------------------------------------
(* What a step leaves alone.                                               *)

\* Nothing of request and batch b changes, except that a record of it that
\* a power loss could have left may be gone.
Untouched(b) ==
  /\ pc'[b] = pc[b] /\ price'[b] = price[b]
  /\ live'[b] = live[b] /\ task'[b] = task[b]
  /\ taken'[b] = taken[b] /\ returned'[b] = returned[b]
  /\ settlements'[b] = settlements[b]
  /\ b \in db'.settled <=> b \in db.settled
  /\ \A s \in survivors' : \E t \in survivors : s.batch[b] = t.batch[b]

\* A step that changes nothing the invariant reads keeps it.
LEMMA UntouchedKeepsInv ==
  ASSUME NEW b \in Batches, BatchInv(b), Untouched(b)
  PROVE  BatchInv(b)'
<1>1. RecordsSound(b)'
  BY DEF BatchInv, RecordsSound, Untouched
<1>2. ControlSound(b)'
  BY DEF BatchInv, ControlSound, Untouched
<1>3. LayerDue(b)' = LayerDue(b)
  BY DEF LayerDue, Untouched
<1>4. DebitCovers(b)'
  BY <1>3 DEF BatchInv, DebitCovers, Untouched
<1> QED
  BY <1>1, <1>2, <1>4 DEF BatchInv

\* The numbers of one batch.
LEMMA Numbers ==
  ASSUME EscrowInv, NEW b \in Batches
  PROVE  /\ taken[b] \in Nat /\ returned[b] \in Nat /\ price[b] \in Nat
         /\ settlements[b] \in Nat
         /\ live[b] # NoBatch => live[b] \in BatchRecord(b) /\ live[b].paid \in Nat
         /\ \A s \in survivors : s.batch[b] # NoBatch =>
              s.batch[b] \in BatchRecord(b) /\ s.batch[b].paid \in Nat
         /\ LayerDue(b) \in Nat
<1>1. /\ taken[b] \in Nat /\ returned[b] \in Nat /\ price[b] \in Nat
      /\ settlements[b] \in Nat
  BY DEF EscrowInv, TypeOK, HistoryTypes, MemoryTypes
<1>2. IsRecord(b, live[b]) /\ \A s \in survivors : IsRecord(b, s.batch[b])
  BY DEF EscrowInv, TypeOK, StoreTypes, MemoryTypes, IsStore
<1>3. \A r \in BatchRecord(b) : r.paid \in Nat
  BY DEF BatchRecord
<1>4. ControlSound(b)
  BY DEF EscrowInv, BatchInv
<1>5. live[b] # NoBatch => live[b] \in BatchRecord(b) /\ live[b].paid \in Nat
  BY <1>2, <1>3 DEF IsRecord
<1>6. LayerDue(b) \in Nat
  BY <1>1, <1>4, <1>5 DEF LayerDue, ControlSound
<1> QED
  BY <1>1, <1>2, <1>3, <1>5, <1>6 DEF IsRecord

\* What the layer may still return shrinks, and nothing else changes.
LEMMA LessDueKeepsCover ==
  ASSUME EscrowInv, NEW b \in Batches,
         live'[b] = live[b], survivors' = survivors,
         taken' = taken, returned' = returned, settlements' = settlements,
         Payer[b] # NoKey => LayerDue(b)' \in Nat /\ LayerDue(b)' <= LayerDue(b),
         pc'[b] \in {"new", "authed", "refused"} => pc[b] \in {"new", "authed", "refused"}
  PROVE  DebitCovers(b)'
<1> DEFINE d == LayerDue(b)
           e == LayerDue(b)'
<1>1. DebitCovers(b)
  BY DEF EscrowInv, BatchInv
<1>2. pc'[b] \in {"new", "authed", "refused"} \/ Payer[b] = NoKey =>
        taken'[b] = 0 /\ returned'[b] = 0
  BY <1>1 DEF DebitCovers
<1>3. ASSUME Payer[b] # NoKey, NEW p \in Nat, returned[b] + d + p <= taken[b]
      PROVE  returned[b] + e + p <= taken[b]
  <2> d \in Nat /\ e \in Nat /\ e <= d /\ returned[b] \in Nat /\ taken[b] \in Nat
    BY <1>3, Numbers
  <2> HIDE DEF d, e
  <2> QED
    BY <1>3
<1>4. ASSUME Payer[b] # NoKey
      PROVE  returned[b] + e <= taken[b]
  <2>1. returned[b] + d <= taken[b]
    BY <1>1, <1>4 DEF DebitCovers
  <2> d \in Nat /\ e \in Nat /\ e <= d /\ returned[b] \in Nat /\ taken[b] \in Nat
    BY <1>4, Numbers
  <2> HIDE DEF d, e
  <2> QED
    BY <2>1
<1>5. ASSUME Payer[b] # NoKey, settlements[b] = 0
      PROVE  /\ live[b] # NoBatch => returned[b] + e + live[b].paid <= taken[b]
             /\ \A s \in survivors : s.batch[b] # NoBatch =>
                  returned[b] + e + s.batch[b].paid <= taken[b]
  <2>1. /\ live[b] # NoBatch => returned[b] + d + live[b].paid <= taken[b]
        /\ \A s \in survivors : s.batch[b] # NoBatch =>
             returned[b] + d + s.batch[b].paid <= taken[b]
    BY <1>1, <1>5 DEF DebitCovers
  <2> HIDE DEF d, e
  <2> QED
    BY <1>3, <1>5, <2>1, Numbers
<1> QED
  BY <1>2, <1>4, <1>5 DEF DebitCovers

\* A step of one request or batch, taken together.
LEMMA StepKeepsInv ==
  ASSUME EscrowInv, NEW b \in Batches, TypeOK', StoresAgree', LedgerExact',
         QuietUntilServing', BatchInv(b)', \A c \in Batches \ {b} : Untouched(c)
  PROVE  EscrowInv'
BY UntouchedKeepsInv DEF EscrowInv

\* A step of one request or batch that moves no money and writes nothing.
LEMMA QuietStepKeepsInv ==
  ASSUME EscrowInv, NEW b \in Batches, phase = "serving",
         UNCHANGED <<storeVars, phase, crashes, todo, historyVars>>,
         MemoryTypes', BatchInv(b)', \A c \in Batches \ {b} : Untouched(c)
  PROVE  EscrowInv'
<1>1. /\ db' = db /\ survivors' = survivors /\ phase' = phase /\ todo' = todo
      /\ taken' = taken /\ returned' = returned /\ settlements' = settlements
  BY DEF storeVars, historyVars
<1>2. \A k \in Keys : Spent(k)' = Spent(k)
  BY <1>1 DEF Spent
<1>3. TypeOK'
  BY <1>1 DEF EscrowInv, TypeOK, StoreTypes, HistoryTypes
<1>4. StoresAgree' /\ LedgerExact'
  BY <1>1, <1>2 DEF EscrowInv, StoresAgree, LedgerExact
<1>5. QuietUntilServing'
  BY <1>1 DEF EscrowInv, QuietUntilServing
<1> QED
  BY <1>3, <1>4, <1>5, StepKeepsInv

-----------------------------------------------------------------------------
(* The ledger.                                                             *)

LEMMA NetDebit ==
  ASSUME EscrowInv, NEW b \in Batches, Payer[b] \in Keys
  PROVE  returned[b] <= taken[b] /\ taken[b] - returned[b] \in Nat
<1>1. returned[b] + LayerDue(b) <= taken[b]
  BY ConstantsAssumption DEF EscrowInv, BatchInv, DebitCovers
<1> HIDE DEF LayerDue
<1> QED
  BY <1>1, Numbers

\* What each request has spent from a key is a number.
LEMMA SpentType ==
  ASSUME EscrowInv, NEW k \in Keys
  PROVE  Spent(k) \in [1..NumBatches -> Nat]
BY NetDebit DEF Spent, Batches

\* A movement between the key of request b and the gateway, in one synced
\* write, leaves the ledger exact.
LEMMA LedgerStep ==
  ASSUME EscrowInv, NEW b \in Batches, Payer[b] \in Keys,
         NEW v \in Nat, v = taken'[b] - returned'[b],
         \A c \in Batches \ {b} : taken'[c] = taken[c] /\ returned'[c] = returned[c],
         NEW w \in Nat, w + v = db.bal[Payer[b]] + (taken[b] - returned[b]),
         \A s \in survivors' : s.bal = [db.bal EXCEPT ![Payer[b]] = w]
  PROVE  LedgerExact'
<1> SUFFICES ASSUME NEW s \in survivors', NEW k \in Keys
             PROVE  s.bal[k] + Total(Spent(k)', NumBatches) = Deposit[k]
  BY DEF LedgerExact
<1>0. /\ db.bal \in [Keys -> Nat] /\ NumBatches \in Nat
      /\ b \in 1..NumBatches /\ db \in survivors
  BY ConstantsAssumption
     DEF EscrowInv, TypeOK, StoreTypes, IsStore, StoresAgree, Batches
<1>1. db.bal[k] + Total(Spent(k), NumBatches) = Deposit[k]
  BY <1>0 DEF EscrowInv, LedgerExact
<1>2. Spent(k) \in [1..NumBatches -> Nat]
  BY SpentType
<1>3. CASE k # Payer[b]
  <2>1. Spent(k)' = Spent(k)
    BY <1>3 DEF Spent
  <2>2. s.bal[k] = db.bal[k]
    BY <1>0, <1>3
  <2> QED
    BY <1>1, <2>1, <2>2
<1>4. CASE k = Payer[b]
  <2> DEFINE T == Total(Spent(k), NumBatches)
             U == Total(Spent(k)', NumBatches)
             x == taken[b] - returned[b]
             y == db.bal[k]
  <2>1. Spent(k)' = [Spent(k) EXCEPT ![b] = v]
    BY <1>4 DEF Spent
  <2>2. Spent(k)[b] = x
    BY <1>4 DEF Spent
  <2>3. U + x = T + v
    <3> DEFINE q == Spent(k)
    <3>1. q \in [1..NumBatches -> Nat]
      BY <1>2
    <3> HIDE DEF q
    <3>2. Total([q EXCEPT ![b] = v], NumBatches) + q[b] = Total(q, NumBatches) + v
      <4>1. NumBatches \in Nat /\ b \in 1..NumBatches
        BY <1>0
      <4> QED
        BY ONLY <4>1, <3>1, v \in Nat, TotalUpdate, Zenon
    <3>3. U = Total([q EXCEPT ![b] = v], NumBatches)
      BY <2>1 DEF q
    <3>4. T = Total(q, NumBatches) /\ q[b] = x
      BY <2>2 DEF q
    <3> HIDE DEF T, U, x
    <3> QED
      BY <3>2, <3>3, <3>4
  <2>4. s.bal[k] = w
    BY <1>0, <1>4
  <2>5. T \in Nat /\ x \in Nat /\ y \in Nat
    BY <1>0, <1>2, <1>4, TotalType, NetDebit
  <2>6. Spent(k)' \in [1..NumBatches -> Nat]
    BY <1>0, <1>2, <2>1
  <2>7. U \in Nat
    BY <1>0, <2>6, TotalType
  <2>8. w + v = y + x /\ y + T = Deposit[k]
    BY <1>1, <1>4
  <2> HIDE DEF T, U, x, y
  <2>9. w + U = y + T
    BY <2>3, <2>5, <2>7, <2>8
  <2> QED
    BY <2>4, <2>8, <2>9 DEF U
<1> QED
  BY <1>3, <1>4

-----------------------------------------------------------------------------
(* The steps of a request.                                                 *)

\* The steps that only move the request through the middleware.
LEMMA MiddlewareKeepsInv ==
  ASSUME EscrowInv, NEW b \in Batches,
         \/ Authenticate(b)
         \/ TurnAway(b)
         \/ \E p \in Prices : VerifyPayment(b, p)
         \/ Reject(b)
         \/ LayerRefundFails(b)
         \/ SettlePayment(b)
  PROVE  EscrowInv'
<1> USE DEF Goto
<1>0. /\ phase = "serving"
      /\ UNCHANGED <<storeVars, phase, crashes, live, task, todo, historyVars>>
  BY DEF Authenticate, TurnAway, VerifyPayment, Reject, LayerRefundFails, SettlePayment
<1>1. /\ db' = db /\ survivors' = survivors /\ live' = live /\ task' = task
      /\ taken' = taken /\ returned' = returned /\ settlements' = settlements
  BY <1>0 DEF storeVars, historyVars
<1>2. MemoryTypes
  BY DEF EscrowInv, TypeOK
<1>3. Payer[b] # NoKey => db.bal[Payer[b]] \in Nat
  BY BatchFacts DEF EscrowInv, TypeOK, StoreTypes, IsStore
<1>4. MemoryTypes'
  <2>1. pc' \in [Batches -> RequestPc]
    BY <1>2 DEF MemoryTypes, RequestPc, Authenticate, TurnAway, VerifyPayment,
                Reject, LayerRefundFails, SettlePayment
  <2>2. seen' \in [Batches -> Nat] /\ price' \in [Batches -> Nat]
    BY <1>2, <1>3, ConstantsAssumption
       DEF MemoryTypes, Authenticate, TurnAway, VerifyPayment,
           Reject, LayerRefundFails, SettlePayment
  <2> QED
    BY <1>0, <1>2, <2>1, <2>2 DEF MemoryTypes
<1>5. \A c \in Batches \ {b} : pc'[c] = pc[c] /\ price'[c] = price[c]
  BY <1>2 DEF MemoryTypes, Authenticate, TurnAway, VerifyPayment,
              Reject, LayerRefundFails, SettlePayment
<1>6. \A c \in Batches \ {b} : Untouched(c)
  BY <1>1, <1>5 DEF Untouched
<1>7. BatchInv(b)
  BY DEF EscrowInv
<1>8. RecordsSound(b)'
  BY <1>1, <1>7 DEF BatchInv, RecordsSound
<1>9. ControlSound(b)'
  BY <1>1, <1>2, <1>7 DEF BatchInv, ControlSound, BeforeAccept, MemoryTypes,
     Authenticate, TurnAway, VerifyPayment, Reject, LayerRefundFails, SettlePayment
<1>10. DebitCovers(b)'
  <2>1. LayerDue(b)' = LayerDue(b) \/ Payer[b] = NoKey \/ LayerDue(b)' = 0
    BY <1>1, <1>2 DEF LayerDue, MemoryTypes, Authenticate, TurnAway,
       VerifyPayment, Reject, LayerRefundFails, SettlePayment
  <2>2. LayerDue(b) \in Nat
    BY Numbers
  <2>3. Payer[b] # NoKey => LayerDue(b)' \in Nat /\ LayerDue(b)' <= LayerDue(b)
    BY <2>1, <2>2
  <2>4. pc'[b] \in {"new", "authed", "refused"} => pc[b] \in {"new", "authed", "refused"}
    BY <1>2 DEF MemoryTypes, Authenticate, TurnAway, VerifyPayment, Reject,
       LayerRefundFails, SettlePayment
  <2> QED
    BY <1>1, <2>3, <2>4, LessDueKeepsCover
<1> QED
  BY <1>0, <1>4, <1>6, <1>8, <1>9, <1>10, QuietStepKeepsInv DEF BatchInv

\* A synced write of a balance: what every survivor of it looks like.
LEMMA BalanceWrite ==
  ASSUME EscrowInv, NEW k \in Keys, NEW w \in Nat,
         WriteSynced([db EXCEPT !.bal[k] = w])
  PROVE  /\ StoreTypes' /\ StoresAgree'
         /\ db'.batch = db.batch /\ db'.settled = db.settled /\ db'.revoked = db.revoked
         /\ \A s \in survivors' : s = db' /\ s.batch = db.batch
                                  /\ s.bal = [db.bal EXCEPT ![k] = w]
         /\ db \in survivors
<1> DEFINE new == [db EXCEPT !.bal[k] = w]
<1>1. IsStore(db) /\ db \in survivors
  BY DEF EscrowInv, TypeOK, StoreTypes, StoresAgree
<1>2. /\ DOMAIN new = DOMAIN db /\ new.bal = [db.bal EXCEPT ![k] = w]
      /\ new.revoked = db.revoked /\ new.batch = db.batch
      /\ new.settled = db.settled /\ new.owed = db.owed
  BY <1>1 DEF IsStore
<1>3. IsStore(new)
  <2> HIDE DEF new
  <2> QED
    BY <1>1, <1>2 DEF IsStore
<1>4. db' = new /\ survivors' = {new}
  BY DEF WriteSynced
<1> HIDE DEF new
<1>5. StoreTypes' /\ StoresAgree'
  BY <1>3, <1>4 DEF StoreTypes, StoresAgree
<1> QED
  BY <1>1, <1>2, <1>4, <1>5

\* The debit of the API-key layer keeps the invariant.
LEMMA DebitKeepsInv ==
  ASSUME EscrowInv, NEW b \in Batches, NEW p \in Prices, Debit(b, p)
  PROVE  EscrowInv'
<1> DEFINE k == Payer[b]
           w == db.bal[k] - p
<1>1. /\ phase = "serving" /\ pc[b] = "authed" /\ pc' = [pc EXCEPT ![b] = "funded"]
      /\ price' = [price EXCEPT ![b] = p] /\ taken' = [taken EXCEPT ![b] = @ + p]
      /\ phase' = phase /\ crashes' = crashes /\ seen' = seen /\ live' = live
      /\ task' = task /\ todo' = todo /\ returned' = returned
      /\ settlements' = settlements /\ p <= db.bal[k]
  BY DEF Debit, Goto, DebitBalance
<1>2. MemoryTypes /\ HistoryTypes /\ BatchInv(b) /\ p \in Nat
  BY ConstantsAssumption DEF EscrowInv, TypeOK
<1>3. k \in Keys
  <2>1. pc[b] = "authed" => Payer[b] # NoKey
    BY DEF EscrowInv, BatchInv, ControlSound
  <2> QED
    BY <1>1, <2>1, BatchFacts
<1>4. w \in Nat /\ db.bal \in [Keys -> Nat]
  BY <1>1, <1>2, <1>3 DEF EscrowInv, TypeOK, StoreTypes, IsStore
<1>5. /\ StoreTypes' /\ StoresAgree' /\ db'.batch = db.batch /\ db'.settled = db.settled
      /\ \A s \in survivors' : s.batch = db.batch /\ s.bal = [db.bal EXCEPT ![k] = w]
      /\ db \in survivors
  <2>1. WriteSynced([db EXCEPT !.bal[k] = w])
    BY DEF Debit, DebitBalance
  <2> HIDE DEF k, w
  <2> QED
    BY <1>3, <1>4, <2>1, BalanceWrite
<1>6. taken[b] = 0 /\ returned[b] = 0 /\ taken'[b] = p /\ returned'[b] = 0
  BY <1>1, <1>2 DEF BatchInv, DebitCovers, HistoryTypes
<1>7. TypeOK'
  <2>1. MemoryTypes'
    BY <1>1, <1>2 DEF MemoryTypes, RequestPc
  <2>2. HistoryTypes'
    BY <1>1, <1>2 DEF HistoryTypes
  <2> QED
    BY <1>5, <2>1, <2>2 DEF TypeOK
<1>8. LedgerExact'
  <2>1. w + p = db.bal[k] + (taken[b] - returned[b])
    BY <1>2, <1>3, <1>4, <1>6
  <2>2. p = taken'[b] - returned'[b]
    BY <1>2, <1>6
  <2>3. \A c \in Batches \ {b} : taken'[c] = taken[c] /\ returned'[c] = returned[c]
    BY <1>1, <1>2 DEF HistoryTypes
  <2> HIDE DEF w
  <2> QED
    BY <1>2, <1>3, <1>4, <1>5, <2>1, <2>2, <2>3, LedgerStep
<1>9. \A c \in Batches \ {b} : Untouched(c)
  BY <1>1, <1>2, <1>5 DEF Untouched, MemoryTypes, HistoryTypes
<1>10. BatchInv(b)'
  <2>1. pc'[b] = "funded" /\ price'[b] = p
    BY <1>1, <1>2 DEF MemoryTypes
  <2>2. RecordsSound(b)'
    BY <1>1, <1>2, <1>5 DEF BatchInv, RecordsSound
  <2>3. ControlSound(b)'
    BY <1>1, <1>2, <1>5, <2>1 DEF BatchInv, ControlSound, BeforeAccept
  <2>4. live'[b] = NoBatch /\ \A s \in survivors' : s.batch[b] = NoBatch
    BY <2>1, <2>3 DEF ControlSound, BeforeAccept
  <2>5. LayerDue(b)' = p
    BY <2>1 DEF LayerDue
  <2>6. DebitCovers(b)'
    BY <1>2, <1>3, <1>6, <2>1, <2>4, <2>5, ConstantsAssumption DEF DebitCovers
  <2> QED
    BY <2>2, <2>3, <2>6 DEF BatchInv
<1>11. QuietUntilServing'
  BY <1>1, <1>5 DEF EscrowInv, QuietUntilServing
<1> QED
  BY <1>5, <1>7, <1>8, <1>9, <1>10, <1>11, StepKeepsInv

\* A refund of the layer, under the key's lock.
LEMMA LayerRefundKeepsInv ==
  ASSUME EscrowInv, NEW b \in Batches, RefundSurplus(b) \/ RefundRejected(b)
  PROVE  EscrowInv'
<1> DEFINE k == Payer[b]
           a == LayerDue(b)
           w == db.bal[k] + a
<1>1. /\ phase = "serving" /\ phase' = phase /\ crashes' = crashes /\ seen' = seen
      /\ price' = price /\ live' = live /\ task' = task /\ todo' = todo
      /\ taken' = taken /\ settlements' = settlements /\ k # NoKey
      /\ \/ pc[b] = "served" /\ pc' = [pc EXCEPT ![b] = "charged"]
         \/ pc[b] = "rejected" /\ pc' = [pc EXCEPT ![b] = "repaid"]
  BY DEF RefundSurplus, RefundRejected, Goto
<1>2. MemoryTypes /\ HistoryTypes /\ BatchInv(b)
  BY DEF EscrowInv, TypeOK
<1>3. k \in Keys
  BY <1>1, BatchFacts
<1>4. a \in Nat /\ w \in Nat /\ db.bal \in [Keys -> Nat]
  BY <1>3, Numbers DEF EscrowInv, TypeOK, StoreTypes, IsStore
<1>5. \/ RefundBalance(b, a)
      \/ a = 0 /\ UNCHANGED <<storeVars, returned>>
  <2>1. CASE RefundRejected(b)
    <3>1. a = price[b]
      BY <2>1 DEF RefundRejected, Goto, LayerDue
    <3> QED
      BY <2>1, <3>1 DEF RefundRejected
  <2>2. CASE RefundSurplus(b)
    <3>1. pc[b] = "served" /\ live[b] # NoBatch /\ live[b].paid <= price[b]
      BY <1>2, <2>2 DEF RefundSurplus, Goto, BatchInv, ControlSound
    <3>2. a = price[b] - live[b].paid
      BY <3>1 DEF LayerDue
    <3>3. price[b] \in Nat /\ live[b].paid \in Nat
      BY <3>1, Numbers
    <3> HIDE DEF a
    <3>4. CASE live[b].paid < price[b]
      BY <2>2, <3>2, <3>4 DEF RefundSurplus
    <3>5. CASE ~(live[b].paid < price[b])
      <4>1. a = 0
        BY <3>1, <3>2, <3>3, <3>5
      <4> QED
        BY <2>2, <3>5, <4>1 DEF RefundSurplus
    <3> QED
      BY <3>4, <3>5
  <2> QED
    BY <2>1, <2>2
<1>6. returned' = [returned EXCEPT ![b] = @ + a]
  BY <1>2, <1>4, <1>5 DEF RefundBalance, HistoryTypes
<1>7. /\ StoreTypes' /\ StoresAgree' /\ LedgerExact'
      /\ db'.settled = db.settled /\ db'.batch = db.batch
      /\ \A s \in survivors' : \E t \in survivors : s.batch = t.batch
  <2>1. CASE a = 0 /\ UNCHANGED <<storeVars, returned>>
    <3>1. db' = db /\ survivors' = survivors /\ returned' = returned
      BY <2>1 DEF storeVars
    <3>2. \A j \in Keys : Spent(j)' = Spent(j)
      BY <1>1, <3>1 DEF Spent
    <3> QED
      BY <3>1, <3>2 DEF EscrowInv, TypeOK, StoreTypes, StoresAgree, LedgerExact
  <2>2. CASE RefundBalance(b, a)
    <3>1. WriteSynced([db EXCEPT !.bal[k] = w])
      BY <2>2 DEF RefundBalance
    <3> HIDE DEF w, k, a
    <3>2. /\ StoreTypes' /\ StoresAgree' /\ db'.batch = db.batch /\ db'.settled = db.settled
          /\ \A s \in survivors' : s.batch = db.batch /\ s.bal = [db.bal EXCEPT ![k] = w]
          /\ db \in survivors
      BY <1>3, <1>4, <3>1, BalanceWrite
    <3>3. LedgerExact'
      <4> DEFINE v == taken[b] - returned[b] - a
      <4>1. returned[b] + a <= taken[b] /\ taken[b] \in Nat /\ returned[b] \in Nat
        BY <1>1, <1>2, Numbers DEF BatchInv, DebitCovers, a, k
      <4>2. returned'[b] = returned[b] + a /\ taken'[b] = taken[b]
        BY <1>1, <1>2, <1>6 DEF HistoryTypes
      <4>3. v \in Nat /\ v = taken'[b] - returned'[b]
        BY <1>4, <4>1, <4>2
      <4>4. w + v = db.bal[k] + (taken[b] - returned[b])
        BY <1>3, <1>4, <4>1 DEF w
      <4>5. \A c \in Batches \ {b} : taken'[c] = taken[c] /\ returned'[c] = returned[c]
        BY <1>1, <1>2, <1>6 DEF HistoryTypes
      <4> HIDE DEF v
      <4> QED
        BY <1>3, <1>4, <3>2, <4>3, <4>4, <4>5, LedgerStep DEF k
    <3> QED
      BY <3>2, <3>3
  <2> QED
    BY <1>5, <2>1, <2>2
<1> HIDE DEF a
<1>8. TypeOK'
  <2>1. MemoryTypes'
    BY <1>1, <1>2 DEF MemoryTypes, RequestPc
  <2>2. HistoryTypes'
    BY <1>1, <1>2, <1>4, <1>6 DEF HistoryTypes
  <2> QED
    BY <1>7, <2>1, <2>2 DEF TypeOK
<1>9. \A c \in Batches \ {b} : Untouched(c)
  BY <1>1, <1>2, <1>6, <1>7 DEF Untouched, MemoryTypes, HistoryTypes
<1>10. BatchInv(b)'
  <2>1. pc'[b] = IF pc[b] = "served" THEN "charged" ELSE "repaid"
    BY <1>1, <1>2 DEF MemoryTypes
  <2>2. RecordsSound(b)'
    BY <1>1, <1>2, <1>7 DEF BatchInv, RecordsSound
  <2>3. ControlSound(b)'
    BY <1>1, <1>2, <1>7, <2>1 DEF BatchInv, ControlSound, BeforeAccept
  <2>4. LayerDue(b)' = 0
    BY <2>1 DEF LayerDue
  <2>5. returned'[b] = returned[b] + a /\ taken'[b] = taken[b]
    BY <1>1, <1>2, <1>6 DEF HistoryTypes
  <2>6. DebitCovers(b)
    BY <1>2 DEF BatchInv
  <2>7. DebitCovers(b)'
    BY <1>1, <1>4, <1>7, <2>1, <2>4, <2>5, <2>6, Numbers DEF DebitCovers, a
  <2> QED
    BY <2>2, <2>3, <2>7 DEF BatchInv
<1>11. QuietUntilServing'
  BY <1>1, <1>7 DEF EscrowInv, QuietUntilServing
<1> QED
  BY <1>7, <1>8, <1>9, <1>10, <1>11, StepKeepsInv

\* A snapshot that is written unsynced, or not at all, touches only the
\* record of its batch.
LEMMA SnapshotWrite ==
  ASSUME EscrowInv, NEW b \in Batches, NEW r \in BatchRecord(b),
         PersistBatch(b, r) \/ UNCHANGED storeVars, taken' = taken, returned' = returned
  PROVE  /\ StoreTypes' /\ StoresAgree' /\ LedgerExact' /\ db'.settled = db.settled
         /\ \A c \in Batches : db.batch[c] # NoBatch => db'.batch[c] # NoBatch
         /\ \A s \in survivors' :
              /\ s.batch[b] = r \/ \E t \in survivors : s.batch[b] = t.batch[b]
              /\ \A c \in Batches \ {b} : \E t \in survivors : s.batch[c] = t.batch[c]
<1>1. /\ IsStore(db) /\ db \in survivors /\ \A s \in survivors : IsStore(s)
      /\ StoresAgree
  BY DEF EscrowInv, TypeOK, StoreTypes, StoresAgree
<1>2. \A k \in Keys : Spent(k)' = Spent(k)
  BY DEF Spent
<1>3. CASE UNCHANGED storeVars
  BY <1>1, <1>2, <1>3 DEF storeVars, EscrowInv, StoreTypes, StoresAgree, LedgerExact
<1>4. CASE PersistBatch(b, r)
  <2> DEFINE new == [db EXCEPT !.batch[b] = r]
  <2>1. db' = new /\ survivors' = survivors \cup {new}
    BY <1>4 DEF PersistBatch, WriteUnsynced
  <2>2. /\ DOMAIN new = DOMAIN db /\ new.bal = db.bal /\ new.revoked = db.revoked
        /\ new.settled = db.settled /\ new.owed = db.owed
        /\ new.batch = [db.batch EXCEPT ![b] = r]
    BY <1>1 DEF IsStore
  <2> HIDE DEF new
  <2>3. /\ DOMAIN new.batch = Batches /\ new.batch[b] = r
        /\ \A c \in Batches \ {b} : new.batch[c] = db.batch[c]
    BY <1>1, <2>2 DEF IsStore
  <2>4. \A c \in Batches : IsRecord(c, new.batch[c])
    BY <1>1, <2>3 DEF IsStore, IsRecord
  <2>5. IsStore(new)
    BY <1>1, <2>2, <2>3, <2>4 DEF IsStore
  <2>6. StoreTypes'
    BY <1>1, <2>1, <2>5 DEF StoreTypes
  <2>7. StoresAgree'
    BY <1>1, <2>1, <2>2 DEF StoresAgree
  <2>8. LedgerExact'
    BY <1>1, <1>2, <2>1, <2>2 DEF EscrowInv, LedgerExact
  <2>9. r # NoBatch
    BY RecordIsNotNoBatch
  <2> QED
    BY <1>1, <2>1, <2>2, <2>3, <2>6, <2>7, <2>8, <2>9
<1> QED
  BY <1>3, <1>4

\* Storing a new batch keeps the invariant.
LEMMA AcceptKeepsInv ==
  ASSUME EscrowInv, NEW b \in Batches, NEW q \in [Slots(b) -> Quotes], Accept(b, q)
  PROVE  EscrowInv'
<1> DEFINE r == NewRecord(b, q)
<1>1. /\ phase = "serving" /\ pc[b] = "funded" /\ pc' = [pc EXCEPT ![b] = "inserting"]
      /\ Total(q, Size[b]) <= price[b] /\ live' = [live EXCEPT ![b] = r]
      /\ phase' = phase /\ crashes' = crashes /\ seen' = seen /\ price' = price
      /\ task' = task /\ todo' = todo /\ taken' = taken /\ returned' = returned
      /\ settlements' = settlements
      /\ \/ Durable /\ PersistBatch(b, r)
         \/ UNCHANGED storeVars
  BY DEF Accept, Goto, historyVars
<1>2. /\ r \in BatchRecord(b) /\ r # NoBatch /\ ~IsTerminal(r) /\ RecordSound(b, r)
      /\ r.paid = Total(q, Size[b]) /\ r.paid \in Nat
  BY NewRecordSound DEF BatchRecord
<1> HIDE DEF r
<1>3. MemoryTypes /\ HistoryTypes /\ BatchInv(b)
  BY DEF EscrowInv, TypeOK
<1>4. /\ StoreTypes' /\ StoresAgree' /\ LedgerExact' /\ db'.settled = db.settled
      /\ \A c \in Batches : db.batch[c] # NoBatch => db'.batch[c] # NoBatch
      /\ \A s \in survivors' :
           /\ s.batch[b] = r \/ \E t \in survivors : s.batch[b] = t.batch[b]
           /\ \A c \in Batches \ {b} : \E t \in survivors : s.batch[c] = t.batch[c]
  BY <1>1, <1>2, SnapshotWrite
<1>5. TypeOK'
  <2>1. MemoryTypes'
    BY <1>1, <1>2, <1>3 DEF MemoryTypes, RequestPc, IsRecord
  <2> QED
    BY <1>1, <1>3, <1>4, <2>1 DEF TypeOK, HistoryTypes
<1>6. \A c \in Batches \ {b} : Untouched(c)
  BY <1>1, <1>3, <1>4 DEF Untouched, MemoryTypes
<1>7. BatchInv(b)'
  <2>1. pc'[b] = "inserting" /\ live'[b] = r
    BY <1>1, <1>3 DEF MemoryTypes
  <2>2. live[b] = NoBatch /\ task[b] = "none" /\ settlements[b] = 0
    BY <1>1, <1>3 DEF BatchInv, ControlSound, BeforeAccept
  <2>3. \A s \in survivors' : s.batch[b] = r \/ s.batch[b] = NoBatch
    BY <1>1, <1>3, <1>4 DEF BatchInv, ControlSound, BeforeAccept
  <2>4. RecordsSound(b)'
    BY <1>2, <2>1, <2>3 DEF RecordsSound, RecordSound
  <2>5. ~Durable => survivors' = survivors /\ db' = db
    BY <1>1 DEF storeVars
  <2>6. ControlSound(b)'
    BY <1>1, <1>2, <1>3, <1>4, <2>1, <2>2, <2>5
       DEF BatchInv, ControlSound, BeforeAccept
  <2>7. LayerDue(b) = price[b] /\ LayerDue(b)' = price[b] - r.paid
    BY <1>1, <2>1 DEF LayerDue
  <2>8. DebitCovers(b)'
    <3>1. Payer[b] # NoKey => returned[b] + price[b] <= taken[b]
      BY <1>3, <2>7 DEF BatchInv, DebitCovers
    <3>2. returned[b] \in Nat /\ taken[b] \in Nat /\ price[b] \in Nat
      BY Numbers
    <3>3. Payer[b] # NoKey =>
            /\ returned[b] + (price[b] - r.paid) <= taken[b]
            /\ returned[b] + (price[b] - r.paid) + r.paid <= taken[b]
      BY <1>2, <3>1, <3>2
    <3>4. Payer[b] = NoKey => taken[b] = 0 /\ returned[b] = 0
      BY <1>3 DEF BatchInv, DebitCovers
    <3> QED
      BY <1>1, <2>1, <2>3, <2>7, <3>3, <3>4 DEF DebitCovers
  <2> QED
    BY <2>4, <2>6, <2>8 DEF BatchInv
<1>8. QuietUntilServing'
  BY <1>1, <1>4 DEF EscrowInv, TypeOK, MemoryTypes, QuietUntilServing
<1> QED
  BY <1>4, <1>5, <1>6, <1>7, <1>8, StepKeepsInv

\* The record is registered and its task spawned, or a settlement fails.
LEMMA TaskMovesKeepsInv ==
  ASSUME EscrowInv, NEW b \in Batches, Register(b) \/ SettleFails(b)
  PROVE  EscrowInv'
<1>1. /\ phase = "serving"
      /\ UNCHANGED <<storeVars, phase, crashes, todo, historyVars>>
      /\ seen' = seen /\ price' = price /\ live' = live
      /\ \/ /\ pc[b] = "inserting" /\ pc' = [pc EXCEPT ![b] = "served"]
            /\ task' = [task EXCEPT ![b] = "submitted"]
         \/ /\ pc' = pc /\ task[b] = "settling" /\ task' = [task EXCEPT ![b] = "finished"]
  BY DEF Register, SettleFails, Goto, Step
<1>2. /\ db' = db /\ survivors' = survivors
      /\ taken' = taken /\ returned' = returned /\ settlements' = settlements
  BY <1>1 DEF storeVars, historyVars
<1>3. MemoryTypes /\ BatchInv(b)
  BY DEF EscrowInv, TypeOK
<1>4. MemoryTypes'
  BY <1>1, <1>3 DEF MemoryTypes, RequestPc, TaskPc
<1>5. \A c \in Batches \ {b} : Untouched(c)
  BY <1>1, <1>2, <1>3 DEF Untouched, MemoryTypes
<1>6. RecordsSound(b)'
  BY <1>1, <1>2, <1>3 DEF BatchInv, RecordsSound
<1>7. ControlSound(b)'
  BY <1>1, <1>2, <1>3 DEF BatchInv, ControlSound, MemoryTypes, BeforeAccept, TaskPc
<1>8. DebitCovers(b)'
  <2>1. LayerDue(b)' = LayerDue(b)
    BY <1>1, <1>3 DEF LayerDue, MemoryTypes
  <2>2. LayerDue(b)' \in Nat /\ LayerDue(b)' <= LayerDue(b)
    BY <2>1, Numbers
  <2>3. pc'[b] \in {"new", "authed", "refused"} => pc[b] \in {"new", "authed", "refused"}
    BY <1>1, <1>3 DEF MemoryTypes
  <2> QED
    BY <1>1, <1>2, <2>2, <2>3, LessDueKeepsCover
<1> QED
  BY <1>1, <1>4, <1>5, <1>6, <1>7, <1>8, QuietStepKeepsInv DEF BatchInv

\* A client that goes away at any await keeps the invariant.
LEMMA DisconnectKeepsInv ==
  ASSUME EscrowInv, NEW b \in Batches, Disconnect(b)
  PROVE  EscrowInv'
<1>1. /\ phase = "serving" /\ pc[b] \in {"funded", "inserting"}
      /\ UNCHANGED <<storeVars, phase, crashes, todo, historyVars>>
      /\ pc' = [pc EXCEPT ![b] = "dropped"]
      /\ seen' = seen /\ price' = price /\ task' = task
      /\ live' = live \/ live' = [live EXCEPT ![b] = NoBatch]
  BY DEF Disconnect, Goto
<1>2. /\ db' = db /\ survivors' = survivors
      /\ taken' = taken /\ returned' = returned /\ settlements' = settlements
  BY <1>1 DEF storeVars, historyVars
<1>3. MemoryTypes /\ BatchInv(b)
  BY DEF EscrowInv, TypeOK
<1>4. MemoryTypes'
  BY <1>1, <1>3 DEF MemoryTypes, RequestPc, IsRecord
<1>5. \A c \in Batches \ {b} : Untouched(c)
  BY <1>1, <1>2, <1>3 DEF Untouched, MemoryTypes
<1>6. pc'[b] = "dropped" /\ (live'[b] = live[b] \/ live'[b] = NoBatch)
  BY <1>1, <1>3 DEF MemoryTypes
<1>7. RecordsSound(b)'
  BY <1>2, <1>3, <1>6 DEF BatchInv, RecordsSound, RecordSound
<1>8. ControlSound(b)'
  BY <1>1, <1>2, <1>3, <1>6 DEF BatchInv, ControlSound, BeforeAccept
<1>9. DebitCovers(b)'
  <2>1. LayerDue(b)' = 0
    BY <1>6 DEF LayerDue
  <2>2. DebitCovers(b)
    BY <1>3 DEF BatchInv
  <2>3. LayerDue(b) \in Nat /\ returned[b] \in Nat /\ taken[b] \in Nat
    BY Numbers
  <2> DEFINE d == LayerDue(b)
  <2>4. \A x \in Nat : returned[b] + d + x <= taken[b] => returned[b] + 0 + x <= taken[b]
    <3> HIDE DEF d
    <3> QED
      BY <2>3 DEF d
  <2>5. Payer[b] # NoKey => returned[b] + 0 <= taken[b]
    <3>1. Payer[b] # NoKey => returned[b] + d <= taken[b]
      BY <2>2 DEF DebitCovers
    <3> HIDE DEF d
    <3> QED
      BY <2>3, <3>1 DEF d
  <2> QED
    BY <1>2, <1>6, <2>1, <2>2, <2>4, <2>5, Numbers DEF DebitCovers
<1> QED
  BY <1>1, <1>4, <1>5, <1>7, <1>8, <1>9, QuietStepKeepsInv DEF BatchInv

-----------------------------------------------------------------------------
(* The steps of a processor task.                                          *)

\* The task replaces the record by one with the same escrow.
LEMMA RecordEditKeepsInv ==
  ASSUME EscrowInv, NEW b \in Batches, NEW r \in BatchRecord(b), NEW to \in TaskPc,
         phase = "serving",
         UNCHANGED <<storeVars, phase, crashes, pc, seen, price, todo, historyVars>>,
         task[b] \in TaskPc \ {"none", "finished"}, to \notin {"none", "finished"},
         task' = [task EXCEPT ![b] = to], live' = [live EXCEPT ![b] = r],
         r.paid = live[b].paid, RecordSound(b, r), IsTerminal(r) <=> to = "settling"
  PROVE  EscrowInv'
<1>1. /\ db' = db /\ survivors' = survivors /\ pc' = pc /\ price' = price /\ seen' = seen
      /\ taken' = taken /\ returned' = returned /\ settlements' = settlements
  BY DEF storeVars, historyVars
<1>2. MemoryTypes /\ BatchInv(b) /\ r # NoBatch
  BY RecordIsNotNoBatch DEF EscrowInv, TypeOK
<1>3. MemoryTypes'
  BY <1>1, <1>2 DEF MemoryTypes, IsRecord
<1>4. \A c \in Batches \ {b} : Untouched(c)
  BY <1>1, <1>2 DEF Untouched, MemoryTypes
<1>5. live'[b] = r /\ task'[b] = to /\ live[b] # NoBatch
  BY <1>2 DEF MemoryTypes, BatchInv, ControlSound
<1>6. RecordsSound(b)'
  BY <1>1, <1>2, <1>5 DEF BatchInv, RecordsSound
<1>7. ControlSound(b)'
  BY <1>1, <1>2, <1>5 DEF BatchInv, ControlSound, BeforeAccept, TaskPc
<1>8. LayerDue(b)' = LayerDue(b)
  BY <1>1, <1>5 DEF LayerDue
<1>9. DebitCovers(b)'
  BY <1>1, <1>2, <1>5, <1>8 DEF BatchInv, DebitCovers
<1> QED
  BY <1>3, <1>4, <1>6, <1>7, <1>9, QuietStepKeepsInv DEF BatchInv

\* The status or a slot of a record that is not terminal changes.
LEMMA TaskProgressKeepsInv ==
  ASSUME EscrowInv, NEW b \in Batches,
         \/ StartTask(b)
         \/ \E i \in Slots(b) : Dispatch(b, i)
         \/ \E i \in Slots(b), outcome \in TerminalSlot : FinishSlot(b, i, outcome)
  PROVE  EscrowInv'
<1>1. /\ phase = "serving" /\ task[b] \in {"submitted", "running", "dispatching"}
      /\ UNCHANGED <<storeVars, phase, crashes, pc, seen, price, todo, historyVars>>
      /\ \E to \in {"running", "dispatching", "checkpoint"} : task' = [task EXCEPT ![b] = to]
  BY DEF StartTask, Dispatch, FinishSlot, Step
<1>2. MemoryTypes /\ ControlSound(b) /\ RecordSound(b, live[b])
  BY DEF EscrowInv, TypeOK, BatchInv, RecordsSound
<1> DEFINE x == live[b]
<1>3. x \in BatchRecord(b) /\ ~IsTerminal(x) /\ x # NoBatch
  BY <1>1, <1>2 DEF MemoryTypes, IsRecord, ControlSound, TaskPc
<1>4. PICK r : live' = [live EXCEPT ![b] = r]
               /\ \/ r = [x EXCEPT !.status = "running"]
                  \/ \E i \in Slots(b), o \in SlotState : r = [x EXCEPT !.slots[i] = o]
  BY DEF StartTask, Dispatch, FinishSlot, SlotState, Step
<1>5. /\ r \in BatchRecord(b) /\ r.paid = x.paid /\ r.quote = x.quote
      /\ r.released = x.released /\ r.refunded = x.refunded
      /\ r.status = x.status \/ r.status = "running"
  BY <1>3, <1>4 DEF BatchRecord
<1>6. ~IsTerminal(r)
  BY <1>3, <1>5 DEF IsTerminal, TerminalStatus
<1>7. RecordSound(b, r)
  BY <1>2, <1>3, <1>5, <1>6 DEF RecordSound
<1> HIDE DEF x
<1>8. PICK to \in {"running", "dispatching", "checkpoint"} : task' = [task EXCEPT ![b] = to]
  BY <1>1
<1> QED
  BY <1>1, <1>4, <1>5, <1>6, <1>7, <1>8, RecordEditKeepsInv DEF x, TaskPc

\* Splitting the escrow of a finished batch keeps the invariant.
LEMMA FinalizeKeepsInv ==
  ASSUME EscrowInv, NEW b \in Batches, Finalize(b)
  PROVE  EscrowInv'
<1>1. /\ phase = "serving" /\ task[b] = "running" /\ task' = [task EXCEPT ![b] = "settling"]
      /\ OpenSlots(live[b]) = {} /\ live' = [live EXCEPT ![b] = Finalized(b, live[b])]
      /\ UNCHANGED <<storeVars, phase, crashes, pc, seen, price, todo, historyVars>>
  BY DEF Finalize, Step
<1>2. live[b] \in BatchRecord(b) /\ RecordSound(b, live[b]) /\ live[b] # NoBatch
  BY <1>1 DEF EscrowInv, TypeOK, MemoryTypes, IsRecord, BatchInv, RecordsSound, ControlSound
<1>3. live[b].paid = Total(live[b].quote, Size[b])
  BY <1>2 DEF RecordSound
<1> DEFINE r == Finalized(b, live[b])
<1>4. r \in BatchRecord(b) /\ IsTerminal(r) /\ RecordSound(b, r) /\ r.paid = live[b].paid
  BY <1>1, <1>2, <1>3, FinalizedSound
<1> HIDE DEF r
<1> QED
  BY <1>1, <1>4, RecordEditKeepsInv DEF r, TaskPc

\* An unsynced snapshot of the live record keeps the invariant.
LEMMA CheckpointKeepsInv ==
  ASSUME EscrowInv, NEW b \in Batches, Checkpoint(b)
  PROVE  EscrowInv'
<1> DEFINE r == live[b]
<1>1. /\ phase = "serving" /\ task[b] = "checkpoint" /\ task' = [task EXCEPT ![b] = "running"]
      /\ phase' = phase /\ crashes' = crashes /\ pc' = pc /\ seen' = seen /\ price' = price
      /\ live' = live /\ todo' = todo /\ taken' = taken /\ returned' = returned
      /\ settlements' = settlements
      /\ \/ Durable /\ PersistBatch(b, r)
         \/ UNCHANGED storeVars
  BY DEF Checkpoint, Step, historyVars
<1>2. MemoryTypes /\ HistoryTypes /\ BatchInv(b)
  BY DEF EscrowInv, TypeOK
<1>3. r \in BatchRecord(b) /\ RecordSound(b, r) /\ r # NoBatch
  BY <1>1, <1>2 DEF MemoryTypes, IsRecord, BatchInv, RecordsSound, ControlSound
<1>4. /\ StoreTypes' /\ StoresAgree' /\ LedgerExact' /\ db'.settled = db.settled
      /\ \A c \in Batches : db.batch[c] # NoBatch => db'.batch[c] # NoBatch
      /\ \A s \in survivors' :
           /\ s.batch[b] = r \/ \E t \in survivors : s.batch[b] = t.batch[b]
           /\ \A c \in Batches \ {b} : \E t \in survivors : s.batch[c] = t.batch[c]
  <2> HIDE DEF r
  <2> QED
    BY <1>1, <1>3, SnapshotWrite
<1>5. TypeOK'
  <2>1. MemoryTypes'
    BY <1>1, <1>2 DEF MemoryTypes, TaskPc
  <2> QED
    BY <1>1, <1>2, <1>4, <2>1 DEF TypeOK, HistoryTypes
<1>6. \A c \in Batches \ {b} : Untouched(c)
  BY <1>1, <1>2, <1>4 DEF Untouched, MemoryTypes
<1>7. BatchInv(b)'
  <2>1. task'[b] = "running"
    BY <1>1, <1>2 DEF MemoryTypes
  <2>2. RecordsSound(b)'
    BY <1>1, <1>2, <1>4 DEF BatchInv, RecordsSound
  <2>3. ~Durable => survivors' = survivors /\ db' = db
    BY <1>1 DEF storeVars
  <2>4. ControlSound(b)'
    BY <1>1, <1>2, <1>4, <2>1, <2>3 DEF BatchInv, ControlSound, BeforeAccept, TaskPc
  <2>5. LayerDue(b)' = LayerDue(b)
    BY <1>1 DEF LayerDue
  <2>6. DebitCovers(b)'
    BY <1>1, <1>2, <1>3, <1>4, <2>5 DEF BatchInv, DebitCovers
  <2> QED
    BY <2>2, <2>4, <2>6 DEF BatchInv
<1>8. QuietUntilServing'
  BY <1>1, <1>2, <1>4 DEF EscrowInv, QuietUntilServing, MemoryTypes
<1> QED
  BY <1>4, <1>5, <1>6, <1>7, <1>8, StepKeepsInv

\* What a settlement by a record r of batch b leaves behind.
SettledBy(b, r) ==
  /\ StoreTypes' /\ StoresAgree' /\ LedgerExact' /\ HistoryTypes'
  /\ b \in db'.settled /\ \A c \in Batches \ {b} : c \in db'.settled <=> c \in db.settled
  /\ \A c \in Batches : db.batch[c] # NoBatch => db'.batch[c] # NoBatch
  /\ \A s \in survivors' :
       /\ s.batch[b] = r \/ \E t \in survivors : s.batch[b] = t.batch[b]
       /\ \A c \in Batches \ {b} : \E t \in survivors : s.batch[c] = t.batch[c]
  /\ taken' = taken
  /\ \A c \in Batches \ {b} : returned'[c] = returned[c] /\ settlements'[c] = settlements[c]
  /\ settlements'[b] = 1
  /\ Payer[b] # NoKey => returned'[b] + LayerDue(b) <= taken[b]
  /\ Payer[b] = NoKey => returned'[b] = returned[b]

\* What the settlement transaction of the durable store leaves behind.
LEMMA SettleDurablyLeaves ==
  ASSUME EscrowInv, Durable, NEW b \in Batches, NEW r \in BatchRecord(b),
         r.refunded <= r.paid,
         Payer[b] # NoKey /\ settlements[b] = 0 =>
           returned[b] + LayerDue(b) + r.paid <= taken[b],
         SettleDurably(b, r)
  PROVE  SettledBy(b, r)
<1>1. /\ IsStore(db) /\ db \in survivors /\ HistoryTypes /\ BatchInv(b) /\ r # NoBatch
      /\ r.refunded \in Nat /\ r.paid \in Nat
  BY RecordIsNotNoBatch DEF EscrowInv, TypeOK, StoreTypes, StoresAgree, BatchRecord
<1>2. settlements[b] = (IF b \in db.settled THEN 1 ELSE 0)
  BY <1>1 DEF BatchInv, ControlSound
<1>3. Payer[b] # NoKey => returned[b] + LayerDue(b) <= taken[b]
  BY <1>1 DEF BatchInv, DebitCovers
<1>4. CASE b \in db.settled /\ PersistBatch(b, r) /\ UNCHANGED historyVars
  <2>1. taken' = taken /\ returned' = returned /\ settlements' = settlements
    BY <1>4 DEF historyVars
  <2>2. /\ StoreTypes' /\ StoresAgree' /\ LedgerExact' /\ db'.settled = db.settled
        /\ \A c \in Batches : db.batch[c] # NoBatch => db'.batch[c] # NoBatch
        /\ \A s \in survivors' :
             /\ s.batch[b] = r \/ \E t \in survivors : s.batch[b] = t.batch[b]
             /\ \A c \in Batches \ {b} : \E t \in survivors : s.batch[c] = t.batch[c]
    BY <1>4, <2>1, SnapshotWrite
  <2>3. HistoryTypes'
    BY <1>1, <2>1 DEF HistoryTypes
  <2> QED
    BY <1>2, <1>3, <1>4, <2>1, <2>2, <2>3 DEF SettledBy
\* The settled marker, the record and nothing else of the batches.
<1>5. ASSUME NEW new, WriteSynced(new), IsStore(new),
             new.batch = [db.batch EXCEPT ![b] = r],
             new.settled = db.settled \cup {b}
      PROVE  /\ StoreTypes' /\ StoresAgree' /\ survivors' = {new}
             /\ b \in db'.settled /\ \A c \in Batches \ {b} : c \in db'.settled <=> c \in db.settled
             /\ \A c \in Batches : db.batch[c] # NoBatch => db'.batch[c] # NoBatch
             /\ \A s \in survivors' :
                  /\ s.batch[b] = r \/ \E t \in survivors : s.batch[b] = t.batch[b]
                  /\ \A c \in Batches \ {b} : \E t \in survivors : s.batch[c] = t.batch[c]
  <2>1. db' = new /\ survivors' = {new}
    BY <1>5 DEF WriteSynced
  <2>2. new.batch[b] = r /\ \A c \in Batches \ {b} : new.batch[c] = db.batch[c]
    BY <1>1, <1>5 DEF IsStore
  <2>3. StoreTypes' /\ StoresAgree'
    BY <1>5, <2>1 DEF StoreTypes, StoresAgree
  <2> QED
    BY <1>1, <1>5, <2>1, <2>2, <2>3
<1>6. \A c \in Batches : IsRecord(c, [db.batch EXCEPT ![b] = r][c])
  BY <1>1 DEF IsStore, IsRecord
<1>7. CASE RecordRefundOwed(b, r) \/ MarkBatchSettled(b, r)
  <2>1. PICK new : /\ WriteSynced(new)
                   /\ \/ new = [db EXCEPT !.batch[b] = r, !.settled = @ \cup {b},
                                          !.owed[b] = r.refunded]
                      \/ new = [db EXCEPT !.batch[b] = r, !.settled = @ \cup {b}]
    BY <1>7 DEF RecordRefundOwed, MarkBatchSettled
  <2>2. /\ DOMAIN new = DOMAIN db /\ new.bal = db.bal /\ new.revoked = db.revoked
        /\ new.settled = db.settled \cup {b} /\ new.batch = [db.batch EXCEPT ![b] = r]
        /\ new.owed \in [Batches -> Nat]
    <3>1. CASE new = [db EXCEPT !.batch[b] = r, !.settled = @ \cup {b}, !.owed[b] = r.refunded]
      BY <1>1, <3>1 DEF IsStore
    <3>2. CASE new = [db EXCEPT !.batch[b] = r, !.settled = @ \cup {b}]
      BY <1>1, <3>2 DEF IsStore
    <3> QED
      BY <2>1, <3>1, <3>2
  <2>3. IsStore(new)
    BY <1>1, <1>6, <2>2 DEF IsStore
  <2>4. /\ taken' = taken /\ returned' = returned
        /\ settlements' = [settlements EXCEPT ![b] = IF b \in db.settled THEN @ ELSE @ + 1]
    BY <1>7 DEF RecordRefundOwed, MarkBatchSettled, CountSettlement
  <2>5. HistoryTypes' /\ settlements'[b] = 1
        /\ \A c \in Batches \ {b} : settlements'[c] = settlements[c]
    BY <1>1, <1>2, <2>4 DEF HistoryTypes
  <2>6. survivors' = {new}
    BY <2>1 DEF WriteSynced
  <2>7. \A k \in Keys : Spent(k)' = Spent(k)
    BY <2>4 DEF Spent
  <2>8. LedgerExact'
    BY <1>1, <2>2, <2>6, <2>7 DEF EscrowInv, LedgerExact
  <2> QED
    BY <1>3, <1>5, <2>1, <2>2, <2>3, <2>4, <2>5, <2>8 DEF SettledBy
<1>8. CASE Payer[b] # NoKey /\ b \notin db.settled /\ SettleBatchRefund(b, r)
  <2> DEFINE k == Payer[b]
             w == db.bal[k] + r.refunded
             new == [db EXCEPT !.bal[k] = w, !.batch[b] = r, !.settled = @ \cup {b}]
             d == LayerDue(b)
             v == taken[b] - returned[b] - r.refunded
  <2>1. /\ WriteSynced(new) /\ taken' = taken
        /\ returned' = [returned EXCEPT ![b] = @ + r.refunded]
        /\ settlements' = [settlements EXCEPT ![b] = @ + 1]
    BY <1>8 DEF SettleBatchRefund
  <2>2. k \in Keys /\ db.bal \in [Keys -> Nat] /\ w \in Nat
    BY <1>1, <1>8, BatchFacts DEF IsStore
  <2> HIDE DEF k, w
  <2>3. /\ DOMAIN new = DOMAIN db /\ new.bal = [db.bal EXCEPT ![k] = w]
        /\ new.revoked = db.revoked /\ new.settled = db.settled \cup {b}
        /\ new.batch = [db.batch EXCEPT ![b] = r] /\ new.owed = db.owed
    BY <1>1 DEF IsStore
  <2> HIDE DEF new
  <2>4. IsStore(new)
    BY <1>1, <1>6, <2>2, <2>3 DEF IsStore
  <2>5. survivors' = {new}
    BY <2>1 DEF WriteSynced
  <2>6. /\ returned'[b] = returned[b] + r.refunded /\ taken'[b] = taken[b]
        /\ settlements'[b] = 1 /\ HistoryTypes'
        /\ \A c \in Batches \ {b} : settlements'[c] = settlements[c] /\ returned'[c] = returned[c]
    BY <1>1, <1>2, <1>8, <2>1 DEF HistoryTypes
  <2>7. /\ returned[b] + d + r.paid <= taken[b] /\ d \in Nat
        /\ returned[b] \in Nat /\ taken[b] \in Nat
    BY <1>2, <1>8, Numbers
  <2> HIDE DEF d
  <2>8. v \in Nat /\ v = taken'[b] - returned'[b] /\ returned'[b] + d <= taken[b]
    BY <1>1, <2>6, <2>7
  <2>9. LedgerExact'
    <3>1. w + v = db.bal[k] + (taken[b] - returned[b])
      BY <1>1, <2>2, <2>7 DEF w
    <3> HIDE DEF v
    <3> QED
      BY <2>1, <2>2, <2>3, <2>5, <2>6, <2>8, <3>1, LedgerStep DEF k
  <2> QED
    BY <1>5, <1>8, <2>1, <2>3, <2>4, <2>6, <2>8, <2>9 DEF SettledBy, d
<1> QED
  BY <1>4, <1>7, <1>8 DEF SettleDurably, SettleBatchRefund

\* A terminal record accounts for the whole escrow.
LEMMA TerminalAccounts ==
  ASSUME NEW b \in Batches, NEW r \in BatchRecord(b), RecordSound(b, r), IsTerminal(r)
  PROVE  /\ r.released + r.refunded = r.paid /\ OpenSlots(r) = {}
         /\ r.refunded <= r.paid
<1>1. /\ r.quote \in [Slots(b) -> Nat] /\ r.slots \in [Slots(b) -> SlotState]
      /\ r.paid \in Nat /\ r.released \in Nat /\ r.refunded \in Nat
  BY DEF BatchRecord
<1>2. /\ r.paid = Total(r.quote, Size[b]) /\ OpenSlots(r) = {}
      /\ r.released = QuoteOf(b, r, DoneSlots(r))
      /\ r.refunded = QuoteOf(b, r, ErroredSlots(r))
  BY RecordIsNotNoBatch DEF RecordSound
<1>3. r.released + r.refunded = r.paid
  BY <1>1, <1>2, QuoteSplit
<1> QED
  BY <1>1, <1>2, <1>3

\* The credit of the in-memory path, or none.
LEMMA SettleInMemoryLeaves ==
  ASSUME EscrowInv, ~Durable, NEW b \in Batches, NEW a \in Nat, settlements[b] = 0,
         Payer[b] # NoKey => returned[b] + LayerDue(b) + a <= taken[b],
         \/ Payer[b] # NoKey /\ RefundBalance(b, a)
         \/ UNCHANGED <<storeVars, returned>>,
         settlements' = [settlements EXCEPT ![b] = @ + 1], taken' = taken
  PROVE  /\ StoreTypes' /\ StoresAgree' /\ LedgerExact' /\ HistoryTypes'
         /\ db'.settled = db.settled /\ db'.batch = db.batch
         /\ \A s \in survivors' : \E t \in survivors : s.batch = t.batch
         /\ \A c \in Batches \ {b} : returned'[c] = returned[c] /\ settlements'[c] = settlements[c]
         /\ settlements'[b] = 1
         /\ Payer[b] # NoKey => returned'[b] + LayerDue(b) <= taken[b]
         /\ Payer[b] = NoKey => returned'[b] = returned[b]
<1> DEFINE k == Payer[b]
           w == db.bal[k] + a
           d == LayerDue(b)
           v == taken[b] - returned[b] - a
<1>1. HistoryTypes /\ returned[b] \in Nat /\ taken[b] \in Nat /\ d \in Nat
  BY Numbers DEF EscrowInv, TypeOK
<1>2. k # NoKey => returned[b] + d + a <= taken[b]
  OBVIOUS
<1>3. CASE UNCHANGED <<storeVars, returned>>
  <2>1. db' = db /\ survivors' = survivors /\ returned' = returned
    BY <1>3 DEF storeVars
  <2>2. \A j \in Keys : Spent(j)' = Spent(j)
    BY <2>1 DEF Spent
  <2>3. StoreTypes' /\ StoresAgree' /\ LedgerExact'
    BY <2>1, <2>2 DEF EscrowInv, TypeOK, StoreTypes, StoresAgree, LedgerExact
  <2> HIDE DEF d, k
  <2>4. k # NoKey => returned'[b] + d <= taken[b]
    BY <1>1, <1>2, <2>1
  <2> QED
    BY <1>1, <2>1, <2>3, <2>4 DEF HistoryTypes, d, k
<1>4. CASE k # NoKey /\ RefundBalance(b, a)
  <2>1. /\ WriteSynced([db EXCEPT !.bal[k] = w])
        /\ returned' = [returned EXCEPT ![b] = @ + a]
    BY <1>4 DEF RefundBalance
  <2>2. k \in Keys /\ w \in Nat /\ db.bal \in [Keys -> Nat]
    BY <1>4, BatchFacts DEF EscrowInv, TypeOK, StoreTypes, IsStore
  <2>3. /\ StoreTypes' /\ StoresAgree' /\ db'.batch = db.batch /\ db'.settled = db.settled
        /\ \A s \in survivors' : s.batch = db.batch /\ s.bal = [db.bal EXCEPT ![k] = w]
        /\ db \in survivors
    <3> HIDE DEF k, w
    <3> QED
      BY <2>1, <2>2, BalanceWrite
  <2>4. /\ returned'[b] = returned[b] + a /\ taken'[b] = taken[b] /\ HistoryTypes'
        /\ settlements'[b] = 1
        /\ \A c \in Batches \ {b} : settlements'[c] = settlements[c] /\ returned'[c] = returned[c]
    BY <1>1, <2>1 DEF HistoryTypes
  <2> HIDE DEF d
  <2>5. v \in Nat /\ v = taken'[b] - returned'[b] /\ returned'[b] + d <= taken[b]
    BY <1>1, <1>2, <1>4, <2>4
  <2>6. w + v = db.bal[k] + (taken[b] - returned[b])
    BY <1>1, <2>2
  <2> HIDE DEF v, w
  <2>7. LedgerExact'
    BY <2>2, <2>3, <2>4, <2>5, <2>6, LedgerStep
  <2> QED
    BY <1>4, <2>3, <2>4, <2>5, <2>7 DEF d
<1> QED
  BY <1>3, <1>4

\* settle_batch keeps the invariant in both stores.
LEMMA SettleBatchKeepsInv ==
  ASSUME EscrowInv, NEW b \in Batches, SettleBatch(b)
  PROVE  EscrowInv'
<1> DEFINE r == live[b]
<1>1. /\ phase = "serving" /\ task[b] = "settling" /\ task' = [task EXCEPT ![b] = "finished"]
      /\ phase' = phase /\ crashes' = crashes /\ pc' = pc /\ seen' = seen /\ price' = price
      /\ live' = live /\ todo' = todo
  BY DEF SettleBatch, Step
<1>2. MemoryTypes /\ HistoryTypes /\ BatchInv(b)
  BY DEF EscrowInv, TypeOK
<1>3. /\ r \in BatchRecord(b) /\ RecordSound(b, r) /\ r # NoBatch /\ IsTerminal(r)
      /\ settlements[b] = 0
  BY <1>1, <1>2 DEF MemoryTypes, IsRecord, BatchInv, RecordsSound, ControlSound, TaskPc
<1>4. r.refunded <= r.paid /\ r.refunded \in Nat /\ r.paid \in Nat
  BY <1>3, TerminalAccounts DEF BatchRecord
<1>5. Payer[b] # NoKey => returned[b] + LayerDue(b) + r.paid <= taken[b]
  BY <1>2, <1>3 DEF BatchInv, DebitCovers
<1>6. /\ StoreTypes' /\ StoresAgree' /\ LedgerExact' /\ HistoryTypes'
      /\ \A c \in Batches \ {b} : c \in db'.settled <=> c \in db.settled
      /\ IF Durable THEN b \in db'.settled ELSE db'.settled = db.settled
      /\ \A c \in Batches : db.batch[c] # NoBatch => db'.batch[c] # NoBatch
      /\ \A s \in survivors' :
           /\ \/ Durable /\ s.batch[b] = r
              \/ \E t \in survivors : s.batch[b] = t.batch[b]
           /\ \A c \in Batches \ {b} : \E t \in survivors : s.batch[c] = t.batch[c]
      /\ taken' = taken
      /\ \A c \in Batches \ {b} : returned'[c] = returned[c] /\ settlements'[c] = settlements[c]
      /\ settlements'[b] = 1
      /\ Payer[b] # NoKey => returned'[b] + LayerDue(b) <= taken[b]
      /\ Payer[b] = NoKey => returned'[b] = returned[b]
  <2>1. CASE Durable
    <3>1. SettleDurably(b, r)
      BY <2>1 DEF SettleBatch
    <3> HIDE DEF r
    <3>2. SettledBy(b, r)
      BY <1>3, <1>4, <1>5, <2>1, <3>1, SettleDurablyLeaves
    <3> QED
      BY <2>1, <3>2 DEF SettledBy
  <2>2. CASE ~Durable
    <3> DEFINE a == r.refunded
               d == LayerDue(b)
    <3>1. /\ \/ Payer[b] # NoKey /\ RefundBalance(b, a)
             \/ UNCHANGED <<storeVars, returned>>
          /\ settlements' = [settlements EXCEPT ![b] = @ + 1] /\ taken' = taken
      BY <2>2 DEF SettleBatch, SettleInMemory
    <3>2. Payer[b] # NoKey => returned[b] + d + a <= taken[b]
      <4>1. returned[b] \in Nat /\ taken[b] \in Nat /\ d \in Nat
        BY Numbers
      <4> HIDE DEF d
      <4> QED
        BY <1>4, <1>5, <4>1 DEF d
    <3>3. a \in Nat
      BY <1>4
    <3> HIDE DEF a
    <3> QED
      BY <1>3, <2>2, <3>1, <3>2, <3>3, SettleInMemoryLeaves
  <2> QED
    BY <2>1, <2>2
<1>7. TypeOK'
  <2>1. MemoryTypes'
    BY <1>1, <1>2 DEF MemoryTypes, TaskPc
  <2> QED
    BY <1>6, <2>1 DEF TypeOK
<1>8. \A c \in Batches \ {b} : Untouched(c)
  BY <1>1, <1>2, <1>6 DEF Untouched, MemoryTypes
<1>9. BatchInv(b)'
  <2>1. task'[b] = "finished"
    BY <1>1, <1>2 DEF MemoryTypes
  <2>2. RecordsSound(b)'
    BY <1>1, <1>2, <1>6 DEF BatchInv, RecordsSound
  <2>3. pc[b] \notin BeforeAccept /\ pc[b] # "inserting"
    BY <1>1, <1>2 DEF BatchInv, ControlSound
  <2>4. ControlSound(b)'
    BY <1>1, <1>2, <1>3, <1>6, <2>1, <2>3, ConstantsAssumption
       DEF BatchInv, ControlSound, TaskPc, BeforeAccept
  <2>5. LayerDue(b)' = LayerDue(b)
    BY <1>1 DEF LayerDue
  <2>6. Payer[b] = NoKey => taken[b] = 0 /\ returned[b] = 0
    BY <1>2 DEF BatchInv, DebitCovers
  <2>7. DebitCovers(b)'
    BY <1>1, <1>6, <2>3, <2>5, <2>6 DEF DebitCovers, BeforeAccept
  <2> QED
    BY <2>2, <2>4, <2>7 DEF BatchInv
<1>10. QuietUntilServing'
  BY <1>1, <1>2, <1>6 DEF EscrowInv, QuietUntilServing, MemoryTypes
<1> QED
  BY <1>6, <1>7, <1>8, <1>9, <1>10, StepKeepsInv

-----------------------------------------------------------------------------
(* Crashes, boot, recovery and revocation.                                 *)

\* A batch that recovery visits: its request is over and nothing is due.
LEMMA Recovering ==
  ASSUME EscrowInv, phase = "recovering", NEW b \in todo
  PROVE  /\ b \in Batches /\ Durable
         /\ db.batch[b] \in BatchRecord(b) /\ db.batch[b] # NoBatch
         /\ RecordSound(b, db.batch[b])
         /\ db.batch[b].paid = Total(db.batch[b].quote, Size[b])
         /\ pc[b] \in {"charged", "unpaid", "dropped"} /\ task[b] = "none"
         /\ db \in survivors
<1>1. b \in Batches /\ db.batch[b] # NoBatch /\ pc[b] \in Resting /\ task[b] = "none"
      /\ db \in survivors /\ IsRecord(b, db.batch[b])
  BY DEF EscrowInv, TypeOK, MemoryTypes, StoreTypes, IsStore, StoresAgree, QuietUntilServing
<1>2. BatchInv(b)
  BY <1>1 DEF EscrowInv
<1>3. Durable /\ pc[b] \notin BeforeAccept
  BY <1>1, <1>2 DEF BatchInv, ControlSound
<1>4. RecordSound(b, db.batch[b])
  BY <1>1, <1>2 DEF BatchInv, RecordsSound
<1> QED
  BY <1>1, <1>3, <1>4 DEF IsRecord, Resting, BeforeAccept, RecordSound

\* Settling one batch at start-up keeps the invariant.
LEMMA RecoverBatchKeepsInv ==
  ASSUME EscrowInv, NEW b \in Batches, RecoverBatch(b) \/ RecoverBatchFails(b)
  PROVE  EscrowInv'
<1> DEFINE x == db.batch[b]
           rec == Reconciled(b, x)
<1>1. /\ phase = "recovering" /\ b \in todo /\ todo' = todo \ {b}
      /\ phase' = phase /\ crashes' = crashes /\ pc' = pc /\ seen' = seen
      /\ price' = price /\ task' = task
      /\ \/ live' = [live EXCEPT ![b] = x] /\ UNCHANGED <<storeVars, historyVars>>
         \/ live' = [live EXCEPT ![b] = rec] /\ UNCHANGED <<storeVars, historyVars>>
         \/ live' = [live EXCEPT ![b] = rec] /\ SettleDurably(b, rec)
  BY DEF RecoverBatch, RecoverBatchFails
<1>2. /\ Durable /\ x \in BatchRecord(b) /\ x # NoBatch /\ RecordSound(b, x)
      /\ x.paid = Total(x.quote, Size[b]) /\ x.paid \in Nat
      /\ pc[b] \in {"charged", "unpaid", "dropped"} /\ task[b] = "none" /\ db \in survivors
  BY <1>1, Recovering DEF BatchRecord
<1>3. /\ rec \in BatchRecord(b) /\ rec # NoBatch /\ RecordSound(b, rec)
      /\ rec.paid = x.paid /\ rec.refunded <= rec.paid
  BY <1>2, ReconciledSound
<1>4. MemoryTypes /\ HistoryTypes /\ BatchInv(b)
  BY DEF EscrowInv, TypeOK
<1>5. Payer[b] # NoKey /\ settlements[b] = 0 =>
        returned[b] + LayerDue(b) + x.paid <= taken[b]
  BY <1>2, <1>4 DEF BatchInv, DebitCovers
<1> HIDE DEF x, rec
<1>6. PICK r \in BatchRecord(b) :
        /\ live' = [live EXCEPT ![b] = r] /\ RecordSound(b, r) /\ r # NoBatch
        /\ r.paid = x.paid
        /\ \/ UNCHANGED <<storeVars, historyVars>>
           \/ r.refunded <= r.paid /\ SettleDurably(b, r)
  BY <1>1, <1>2, <1>3
<1>7. LayerDue(b) = 0 /\ LayerDue(b)' = 0
  BY <1>1, <1>2 DEF LayerDue
<1>8. /\ StoreTypes' /\ StoresAgree' /\ LedgerExact' /\ HistoryTypes' /\ taken' = taken
      /\ \A c \in Batches \ {b} : c \in db'.settled <=> c \in db.settled
      /\ \A c \in Batches : db.batch[c] # NoBatch => db'.batch[c] # NoBatch
      /\ \A s \in survivors' :
           /\ s.batch[b] = r \/ \E t \in survivors : s.batch[b] = t.batch[b]
           /\ \A c \in Batches \ {b} : \E t \in survivors : s.batch[c] = t.batch[c]
      /\ \A c \in Batches \ {b} : returned'[c] = returned[c] /\ settlements'[c] = settlements[c]
      /\ Payer[b] # NoKey => returned'[b] + 0 <= taken[b]
      /\ Payer[b] = NoKey => returned'[b] = returned[b]
      /\ \/ settlements'[b] = 1 /\ b \in db'.settled
         \/ /\ settlements'[b] = settlements[b] /\ returned'[b] = returned[b]
            /\ db' = db /\ survivors' = survivors
  <2>1. CASE UNCHANGED <<storeVars, historyVars>>
    <3>1. /\ db' = db /\ survivors' = survivors /\ taken' = taken
          /\ returned' = returned /\ settlements' = settlements
      BY <2>1 DEF storeVars, historyVars
    <3>2. \A j \in Keys : Spent(j)' = Spent(j)
      BY <3>1 DEF Spent
    <3>3. StoreTypes' /\ StoresAgree' /\ LedgerExact' /\ HistoryTypes'
      BY <3>1, <3>2 DEF EscrowInv, TypeOK, StoreTypes, StoresAgree, LedgerExact, HistoryTypes
    <3>4. Payer[b] # NoKey => returned[b] + 0 <= taken[b]
      BY <1>4, <1>7 DEF BatchInv, DebitCovers
    <3> QED
      BY <3>1, <3>3, <3>4
  <2>2. CASE r.refunded <= r.paid /\ SettleDurably(b, r)
    <3>1. SettledBy(b, r)
      BY <1>2, <1>5, <1>6, <2>2, SettleDurablyLeaves
    <3> QED
      BY <1>7, <3>1 DEF SettledBy
  <2> QED
    BY <1>6, <2>1, <2>2
<1>9. TypeOK'
  <2>1. MemoryTypes'
    BY <1>1, <1>4, <1>6 DEF MemoryTypes, IsRecord
  <2> QED
    BY <1>8, <2>1 DEF TypeOK
<1>10. \A c \in Batches \ {b} : Untouched(c)
  BY <1>1, <1>4, <1>6, <1>8 DEF Untouched, MemoryTypes
<1>11. BatchInv(b)'
  <2>1. live'[b] = r
    BY <1>4, <1>6 DEF MemoryTypes
  <2>2. RecordsSound(b)'
    BY <1>4, <1>6, <1>8, <2>1 DEF BatchInv, RecordsSound
  <2>3. ControlSound(b)'
    BY <1>1, <1>2, <1>4, <1>6, <1>8, <2>1 DEF BatchInv, ControlSound, BeforeAccept
  <2>4. DebitCovers(b)'
    <3>1. settlements'[b] = 0 /\ Payer[b] # NoKey =>
            /\ returned'[b] + 0 + r.paid <= taken[b]
            /\ \A s \in survivors' : s.batch[b] # NoBatch =>
                 returned'[b] + 0 + s.batch[b].paid <= taken[b]
      BY <1>4, <1>5, <1>6, <1>7, <1>8 DEF BatchInv, DebitCovers
    <3>2. Payer[b] = NoKey => taken[b] = 0 /\ returned'[b] = 0
      BY <1>4, <1>8 DEF BatchInv, DebitCovers
    <3>3. pc'[b] \notin {"new", "authed", "refused"}
      BY <1>1, <1>2
    <3> QED
      BY <1>7, <1>8, <2>1, <3>1, <3>2, <3>3 DEF DebitCovers
  <2> QED
    BY <2>2, <2>3, <2>4 DEF BatchInv
<1>12. QuietUntilServing'
  BY <1>1, <1>4, <1>8 DEF EscrowInv, QuietUntilServing, MemoryTypes
<1> QED
  BY <1>8, <1>9, <1>10, <1>11, <1>12, StepKeepsInv

\* A crash loses what is in memory; a power loss also falls back to one of
\* the survivors.
LEMMA StopKeepsInv ==
  ASSUME EscrowInv, Crash \/ PowerLoss
  PROVE  EscrowInv'
<1>1. /\ crashes < MaxCrashes /\ phase' = "down" /\ crashes' = crashes + 1
      /\ pc' = Interrupted /\ live' = [b \in Batches |-> NoBatch]
      /\ task' = [b \in Batches |-> "none"] /\ todo' = {}
      /\ seen' = seen /\ price' = price
      /\ taken' = taken /\ returned' = returned /\ settlements' = settlements
  BY DEF Crash, PowerLoss, StopProcess, historyVars
<1>2. db' \in survivors /\ db' \in survivors' /\ survivors' \subseteq survivors
  BY DEF Crash, PowerLoss, LosePower, storeVars, EscrowInv, StoresAgree
<1>3. MemoryTypes /\ HistoryTypes /\ StoreTypes /\ StoresAgree
  BY DEF EscrowInv, TypeOK
<1>4. \A b \in Batches :
        /\ pc'[b] = IF pc[b] \in Resting THEN pc[b] ELSE "dropped"
        /\ pc'[b] \in Resting
  BY <1>1 DEF Interrupted, Resting
<1>5. TypeOK'
  <2>1. pc' \in [Batches -> RequestPc]
    BY <1>1, <1>3 DEF Interrupted, RequestPc, MemoryTypes
  <2>2. MemoryTypes'
    BY <1>1, <1>3, <2>1, ConstantsAssumption DEF MemoryTypes, TaskPc, IsRecord
  <2> QED
    BY <1>1, <1>2, <1>3, <2>2 DEF TypeOK, StoreTypes, HistoryTypes
<1>6. StoresAgree' /\ db'.settled = db.settled
  BY <1>2, <1>3 DEF StoresAgree
<1>7. LedgerExact'
  <2>1. \A k \in Keys : Spent(k)' = Spent(k)
    BY <1>1 DEF Spent
  <2> QED
    BY <1>2, <2>1 DEF EscrowInv, LedgerExact
<1>8. QuietUntilServing'
  BY <1>1, <1>4 DEF QuietUntilServing
<1>9. ASSUME NEW b \in Batches
      PROVE  BatchInv(b)'
  <2>1. BatchInv(b)
    BY DEF EscrowInv
  <2>2. live'[b] = NoBatch /\ task'[b] = "none"
    BY <1>1
  <2>3. RecordsSound(b)'
    BY <1>2, <2>1, <2>2 DEF BatchInv, RecordsSound, RecordSound
  <2>4. ControlSound(b)'
    BY <1>1, <1>2, <1>4, <1>6, <2>1, <2>2
       DEF BatchInv, ControlSound, BeforeAccept, Resting, TaskPc
  <2>5. LayerDue(b)' = 0
    BY <1>4 DEF LayerDue, Resting
  <2>6. DebitCovers(b)'
    <3> DEFINE d == LayerDue(b)
    <3>1. DebitCovers(b) /\ d \in Nat /\ returned[b] \in Nat /\ taken[b] \in Nat
      BY <2>1, Numbers DEF BatchInv
    <3>2. Payer[b] # NoKey => returned[b] + d <= taken[b]
      BY <3>1 DEF DebitCovers
    <3>3. Payer[b] # NoKey /\ settlements[b] = 0 => \A s \in survivors :
            s.batch[b] # NoBatch => returned[b] + d + s.batch[b].paid <= taken[b]
      BY <3>1 DEF DebitCovers
    <3>4. pc'[b] \in {"new", "authed", "refused"} \/ Payer[b] = NoKey =>
            taken[b] = 0 /\ returned[b] = 0
      BY <1>4, <3>1 DEF DebitCovers
    <3> HIDE DEF d
    <3>5. Payer[b] # NoKey => returned[b] + 0 <= taken[b]
      BY <3>1, <3>2
    <3>6. Payer[b] # NoKey /\ settlements[b] = 0 => \A s \in survivors :
            s.batch[b] # NoBatch => returned[b] + 0 + s.batch[b].paid <= taken[b]
      BY <3>1, <3>3, Numbers
    <3> QED
      BY <1>1, <1>2, <2>2, <2>5, <3>4, <3>5, <3>6 DEF DebitCovers
  <2> QED
    BY <2>3, <2>4, <2>6 DEF BatchInv
<1> QED
  BY <1>5, <1>6, <1>7, <1>8, <1>9 DEF EscrowInv

\* A start, and the end of recovery, keep the invariant.
LEMMA BootKeepsInv ==
  ASSUME EscrowInv, Boot \/ Serve
  PROVE  EscrowInv'
<1>1. /\ UNCHANGED <<storeVars, crashes, pc, seen, price, live, task, historyVars>>
      /\ phase # "serving" /\ phase' \in {"recovering", "serving"}
      /\ todo' = {} \/ todo' = {b \in Batches : db.batch[b] # NoBatch}
  BY DEF Boot, Serve
<1>2. /\ db' = db /\ survivors' = survivors /\ pc' = pc /\ price' = price
      /\ live' = live /\ task' = task /\ taken' = taken /\ returned' = returned
      /\ settlements' = settlements
  BY <1>1 DEF storeVars, historyVars
<1>3. TypeOK'
  BY <1>1, <1>2 DEF EscrowInv, TypeOK, StoreTypes, MemoryTypes, HistoryTypes
<1>4. \A b \in Batches : Untouched(b)
  BY <1>2 DEF Untouched
<1>5. \A k \in Keys : Spent(k)' = Spent(k)
  BY <1>2 DEF Spent
<1>6. StoresAgree' /\ LedgerExact' /\ QuietUntilServing'
  BY <1>1, <1>2, <1>5 DEF EscrowInv, StoresAgree, LedgerExact, QuietUntilServing
<1> QED
  BY <1>3, <1>4, <1>6, UntouchedKeepsInv DEF EscrowInv

\* Revoking a key keeps the invariant.
LEMMA RevokeKeepsInv ==
  ASSUME EscrowInv, NEW k \in Keys, Revoke(k)
  PROVE  EscrowInv'
<1> DEFINE new == [db EXCEPT !.revoked = @ \cup {k}]
<1>1. /\ db' = new /\ survivors' = {new} /\ phase' = phase /\ crashes' = crashes
      /\ pc' = pc /\ seen' = seen /\ price' = price /\ live' = live /\ task' = task
      /\ todo' = todo /\ taken' = taken /\ returned' = returned /\ settlements' = settlements
  BY DEF Revoke, WriteSynced, memVars, historyVars
<1>2. IsStore(db) /\ db \in survivors
  BY DEF EscrowInv, TypeOK, StoreTypes, StoresAgree
<1>3. /\ DOMAIN new = DOMAIN db /\ new.bal = db.bal /\ new.batch = db.batch
      /\ new.settled = db.settled /\ new.owed = db.owed /\ new.revoked = db.revoked \cup {k}
  BY <1>2 DEF IsStore
<1> HIDE DEF new
<1>4. IsStore(new)
  BY <1>2, <1>3 DEF IsStore
<1>5. TypeOK'
  BY <1>1, <1>4 DEF EscrowInv, TypeOK, StoreTypes, MemoryTypes, HistoryTypes
<1>6. \A b \in Batches : Untouched(b)
  BY <1>1, <1>2, <1>3 DEF Untouched
<1>7. \A j \in Keys : Spent(j)' = Spent(j)
  BY <1>1 DEF Spent
<1>8. StoresAgree' /\ LedgerExact' /\ QuietUntilServing'
  BY <1>1, <1>2, <1>3, <1>7 DEF EscrowInv, StoresAgree, LedgerExact, QuietUntilServing
<1> QED
  BY <1>5, <1>6, <1>8, UntouchedKeepsInv DEF EscrowInv

-----------------------------------------------------------------------------
(* The theorems.                                                           *)

LEMMA InitInv ==
  ASSUME Init
  PROVE  EscrowInv
<1>1. /\ db = EmptyStore /\ survivors = {EmptyStore}
      /\ EmptyStore.bal = Deposit /\ EmptyStore.revoked = {}
      /\ EmptyStore.batch = [b \in Batches |-> NoBatch] /\ EmptyStore.settled = {}
      /\ EmptyStore.owed = [b \in Batches |-> 0]
      /\ DOMAIN EmptyStore = {"bal", "revoked", "batch", "settled", "owed"}
  BY DEF Init, EmptyStore
<1> HIDE DEF EmptyStore
<1>2. IsStore(EmptyStore)
  BY <1>1, ConstantsAssumption DEF IsStore, IsRecord
<1>3. MemoryTypes /\ HistoryTypes
  BY ConstantsAssumption DEF Init, MemoryTypes, HistoryTypes, RequestPc, TaskPc, IsRecord
<1>4. TypeOK
  BY <1>1, <1>2, <1>3 DEF TypeOK, StoreTypes
<1>5. StoresAgree
  BY <1>1 DEF StoresAgree
<1>6. LedgerExact
  <2> SUFFICES ASSUME NEW k \in Keys
               PROVE  Deposit[k] + Total(Spent(k), NumBatches) = Deposit[k]
    BY <1>1 DEF LedgerExact
  <2>1. Spent(k) = [b \in 1..NumBatches |-> 0]
    BY DEF Spent, Init, Batches
  <2>2. NumBatches \in Nat /\ Deposit[k] \in Nat
    BY ConstantsAssumption
  <2>3. Total(Spent(k), NumBatches) = 0
    BY <2>1, <2>2, TotalZero
  <2> QED
    BY <2>2, <2>3
<1>7. QuietUntilServing
  BY DEF Init, QuietUntilServing
<1>8. ASSUME NEW b \in Batches
      PROVE  BatchInv(b)
  <2>1. /\ pc[b] = "new" /\ live[b] = NoBatch /\ task[b] = "none" /\ settlements[b] = 0
        /\ taken[b] = 0 /\ returned[b] = 0 /\ \A s \in survivors : s.batch[b] = NoBatch
        /\ b \notin db.settled
    BY <1>1 DEF Init
  <2>2. RecordsSound(b)
    BY <2>1 DEF RecordsSound, RecordSound
  <2>3. ControlSound(b)
    BY <2>1 DEF ControlSound
  <2>4. DebitCovers(b)
    BY <2>1 DEF DebitCovers, LayerDue
  <2> QED
    BY <2>2, <2>3, <2>4 DEF BatchInv
<1> QED
  BY <1>4, <1>5, <1>6, <1>7, <1>8 DEF EscrowInv

\* The invariant is inductive: every step keeps it.
LEMMA NextKeepsInv ==
  ASSUME EscrowInv, [Next]_vars
  PROVE  EscrowInv'
<1>1. CASE UNCHANGED vars
  <2>1. /\ UNCHANGED <<storeVars, memVars, historyVars>>
    BY <1>1 DEF vars
  <2>2. /\ db' = db /\ survivors' = survivors /\ phase' = phase /\ crashes' = crashes
        /\ pc' = pc /\ seen' = seen /\ price' = price /\ live' = live /\ task' = task
        /\ todo' = todo /\ taken' = taken /\ returned' = returned /\ settlements' = settlements
    BY <2>1 DEF storeVars, memVars, historyVars
  <2>3. TypeOK' /\ StoresAgree' /\ QuietUntilServing'
    BY <2>2 DEF EscrowInv, TypeOK, StoreTypes, MemoryTypes, HistoryTypes, StoresAgree,
                QuietUntilServing
  <2>4. \A k \in Keys : Spent(k)' = Spent(k)
    BY <2>2 DEF Spent
  <2>5. LedgerExact'
    BY <2>2, <2>4 DEF EscrowInv, LedgerExact
  <2>6. \A b \in Batches : Untouched(b)
    BY <2>2 DEF Untouched
  <2> QED
    BY <2>3, <2>5, <2>6, UntouchedKeepsInv DEF EscrowInv
<1>2. CASE \E b \in Batches : RequestStep(b)
  BY <1>2, MiddlewareKeepsInv, DebitKeepsInv, AcceptKeepsInv, TaskMovesKeepsInv,
     LayerRefundKeepsInv, DisconnectKeepsInv DEF RequestStep
<1>3. CASE \E b \in Batches : TaskStep(b)
  BY <1>3, TaskProgressKeepsInv, CheckpointKeepsInv, FinalizeKeepsInv,
     SettleBatchKeepsInv, TaskMovesKeepsInv DEF TaskStep
<1>4. CASE BootStep
  BY <1>4, BootKeepsInv, RecoverBatchKeepsInv DEF BootStep
<1>5. CASE Crash \/ PowerLoss
  BY <1>5, StopKeepsInv
<1>6. CASE \E k \in Keys : Revoke(k)
  BY <1>6, RevokeKeepsInv
<1> QED
  BY <1>1, <1>2, <1>3, <1>4, <1>5, <1>6 DEF Next

\* The strengthening that all the theorems below rest on.
THEOREM InvariantHolds == Spec => []EscrowInv
<1>1. Init => EscrowInv
  BY InitInv
<1>2. EscrowInv /\ [Next]_vars => EscrowInv'
  BY NextKeepsInv
<1> QED
  BY <1>1, <1>2, PTL DEF Spec

\* The store, the records and the requests keep their types.
THEOREM TypeCorrect == Spec => []TypeOK
<1>1. EscrowInv => TypeOK
  BY DEF EscrowInv
<1> QED
  BY <1>1, InvariantHolds, PTL

\* In whatever state the store is found after a crash or a power loss, the
\* balance of a key is its deposit minus its debits plus its credits.
THEOREM LedgerIsExact == Spec => []LedgerExact
<1>1. EscrowInv => LedgerExact
  BY DEF EscrowInv
<1> QED
  BY <1>1, InvariantHolds, PTL

\* The layer and the settlement together never credit more than was debited,
\* and no recovery settles a batch a second time.
THEOREM NoCreditWithoutDebit == Spec => []NoCreditBeyondDebit
<1>1. EscrowInv => NoCreditBeyondDebit
  <2> SUFFICES ASSUME EscrowInv, NEW b \in Batches
               PROVE  returned[b] <= taken[b] /\ settlements[b] <= 1
    BY DEF NoCreditBeyondDebit
  <2>1. settlements[b] \in {0, 1}
    BY DEF EscrowInv, BatchInv, ControlSound
  <2>2. CASE Payer[b] = NoKey
    BY <2>1, <2>2 DEF EscrowInv, BatchInv, DebitCovers
  <2>3. CASE Payer[b] # NoKey
    BY <2>1, <2>3, BatchFacts, NetDebit
  <2> QED
    BY <2>2, <2>3
<1> QED
  BY <1>1, InvariantHolds, PTL

\* The records that polls see, and every snapshot that recovery may find,
\* account for the whole escrow once they are terminal.
THEOREM EscrowIsSettled == Spec => []EscrowSettled
<1>1. EscrowInv => EscrowSettled
  <2> SUFFICES ASSUME EscrowInv, NEW b \in Batches
               PROVE  /\ EscrowAccounted(live[b])
                      /\ \A s \in survivors : EscrowAccounted(s.batch[b])
    BY DEF EscrowSettled
  <2>1. ASSUME NEW r, IsRecord(b, r), RecordSound(b, r)
        PROVE  EscrowAccounted(r)
    <3>1. CASE r = NoBatch
      BY <3>1 DEF EscrowAccounted
    <3>2. CASE r # NoBatch
      <4>1. r \in BatchRecord(b) /\ r.paid \in Nat
        BY <2>1, <3>2 DEF IsRecord, BatchRecord
      <4>2. CASE IsTerminal(r)
        BY <2>1, <4>1, <4>2, TerminalAccounts DEF EscrowAccounted
      <4>3. CASE ~IsTerminal(r)
        BY <2>1, <3>2, <4>1, <4>3 DEF EscrowAccounted, RecordSound
      <4> QED
        BY <4>2, <4>3
    <3> QED
      BY <3>1, <3>2
  <2>2. /\ IsRecord(b, live[b]) /\ RecordSound(b, live[b])
        /\ \A s \in survivors : IsRecord(b, s.batch[b]) /\ RecordSound(b, s.batch[b])
    BY DEF EscrowInv, TypeOK, StoreTypes, MemoryTypes, IsStore, BatchInv, RecordsSound
  <2> QED
    BY <2>1, <2>2
<1> QED
  BY <1>1, InvariantHolds, PTL

-----------------------------------------------------------------------------
(* The abstract account.                                                   *)

AccountUnchanged ==
  db'.bal = db.bal /\ db'.revoked = db.revoked /\ taken' = taken /\ returned' = returned

Debits(b, p) ==
  /\ Payer[b] \in Keys \ db.revoked /\ p \in Nat /\ p <= db.bal[Payer[b]] /\ taken[b] = 0
  /\ db'.bal = [db.bal EXCEPT ![Payer[b]] = @ - p] /\ db'.revoked = db.revoked
  /\ taken' = [taken EXCEPT ![b] = p] /\ returned' = returned

Credits(b, a) ==
  /\ Payer[b] \in Keys /\ a \in Nat
  /\ db'.bal = [db.bal EXCEPT ![Payer[b]] = @ + a] /\ db'.revoked = db.revoked
  /\ taken' = taken /\ returned' = [returned EXCEPT ![b] = @ + a]

Revokes(k) ==
  /\ db'.bal = db.bal /\ db'.revoked = db.revoked \cup {k}
  /\ taken' = taken /\ returned' = returned

AccountMove ==
  \/ AccountUnchanged
  \/ \E b \in Batches, p \in Nat : Debits(b, p)
  \/ \E b \in Batches, a \in Nat : Credits(b, a)
  \/ \E k \in Keys : Revokes(k)

\* Writes that leave balances and revocations alone do not move the account.
LEMMA QuietWrites ==
  ASSUME IsStore(db), NEW b \in Batches, NEW r
  PROVE  /\ PersistBatch(b, r) => db'.bal = db.bal /\ db'.revoked = db.revoked
         /\ RecordRefundOwed(b, r) => AccountUnchanged
         /\ MarkBatchSettled(b, r) => AccountUnchanged
<1>1. PersistBatch(b, r) => db'.bal = db.bal /\ db'.revoked = db.revoked
  BY DEF IsStore, PersistBatch, WriteUnsynced
<1>2. RecordRefundOwed(b, r) => AccountUnchanged
  BY DEF IsStore, RecordRefundOwed, WriteSynced, AccountUnchanged
<1>3. MarkBatchSettled(b, r) => AccountUnchanged
  BY DEF IsStore, MarkBatchSettled, WriteSynced, AccountUnchanged
<1> QED
  BY <1>1, <1>2, <1>3

\* A refund is a credit of the abstract account.
LEMMA RefundMoves ==
  ASSUME IsStore(db), NEW b \in Batches, Payer[b] # NoKey, NEW a \in Nat,
         RefundBalance(b, a), taken' = taken
  PROVE  Credits(b, a)
<1>1. Payer[b] \in Keys
  BY BatchFacts
<1>2. /\ db'.bal = [db.bal EXCEPT ![Payer[b]] = @ + a] /\ db'.revoked = db.revoked
      /\ returned' = [returned EXCEPT ![b] = @ + a]
  BY DEF IsStore, RefundBalance, WriteSynced
<1> QED
  BY <1>1, <1>2 DEF Credits

\* A settlement is a credit of the abstract account, or none.
LEMMA SettleMoves ==
  ASSUME IsStore(db), NEW b \in Batches, NEW r \in BatchRecord(b), SettleDurably(b, r)
  PROVE  AccountMove
<1>1. r.refunded \in Nat
  BY DEF BatchRecord
<1>2. CASE RecordRefundOwed(b, r) \/ MarkBatchSettled(b, r)
  BY <1>2, QuietWrites DEF AccountMove
<1>3. CASE PersistBatch(b, r) /\ UNCHANGED historyVars
  BY <1>3, QuietWrites DEF AccountMove, AccountUnchanged, historyVars
<1>4. CASE Payer[b] # NoKey /\ b \notin db.settled /\ SettleBatchRefund(b, r)
  <2>1. Payer[b] \in Keys
    BY <1>4, BatchFacts
  <2>2. /\ db'.bal = [db.bal EXCEPT ![Payer[b]] = @ + r.refunded] /\ db'.revoked = db.revoked
        /\ returned' = [returned EXCEPT ![b] = @ + r.refunded] /\ taken' = taken
    BY <1>4 DEF SettleBatchRefund, IsStore, WriteSynced
  <2>3. Credits(b, r.refunded)
    BY <1>1, <2>1, <2>2 DEF Credits
  <2> QED
    BY <1>1, <2>3 DEF AccountMove
<1> QED
  BY <1>2, <1>3, <1>4 DEF SettleDurably, SettleBatchRefund

\* A step of a request is a step of the abstract account, or none.
LEMMA RequestMoves ==
  ASSUME EscrowInv, NEW b \in Batches, RequestStep(b)
  PROVE  AccountMove
<1>1. IsStore(db) /\ MemoryTypes /\ HistoryTypes /\ BatchInv(b)
  BY DEF EscrowInv, TypeOK, StoreTypes
<1>2. CASE \/ Authenticate(b) \/ TurnAway(b) \/ (\E p \in Prices : VerifyPayment(b, p))
           \/ Reject(b) \/ Register(b) \/ LayerRefundFails(b) \/ SettlePayment(b)
           \/ Disconnect(b)
  <2>1. UNCHANGED <<storeVars, historyVars>>
    BY <1>2 DEF Authenticate, TurnAway, VerifyPayment, Reject, Register,
                LayerRefundFails, SettlePayment, Disconnect
  <2> QED
    BY <2>1 DEF storeVars, historyVars, AccountMove, AccountUnchanged
<1>3. ASSUME NEW p \in Prices, Debit(b, p)
      PROVE  AccountMove
  <2>1. /\ pc[b] = "authed" /\ Payer[b] \notin db.revoked /\ p <= db.bal[Payer[b]]
        /\ taken' = [taken EXCEPT ![b] = @ + p] /\ returned' = returned
    BY <1>3 DEF Debit, Goto, DebitBalance
  <2>2. p \in Nat /\ Payer[b] \in Keys /\ taken[b] = 0
    BY <1>1, <2>1, BatchFacts, ConstantsAssumption DEF BatchInv, ControlSound, DebitCovers
  <2>3. db'.bal = [db.bal EXCEPT ![Payer[b]] = @ - p] /\ db'.revoked = db.revoked
    BY <1>1, <1>3 DEF Debit, DebitBalance, WriteSynced, IsStore
  <2>4. taken' = [taken EXCEPT ![b] = p]
    <3>1. taken[b] + p = p
      BY <2>2
    <3> QED
      BY <2>1, <3>1
  <2>5. Debits(b, p)
    BY <2>1, <2>2, <2>3, <2>4 DEF Debits
  <2> QED
    BY <2>2, <2>5 DEF AccountMove
<1>4. ASSUME NEW q \in [Slots(b) -> Quotes], Accept(b, q)
      PROVE  AccountMove
  BY <1>1, <1>4, QuietWrites DEF Accept, AccountMove, AccountUnchanged, storeVars, historyVars
<1>5. CASE RefundSurplus(b) \/ RefundRejected(b)
  <2>1. Payer[b] # NoKey /\ taken' = taken
    BY <1>5 DEF RefundSurplus, RefundRejected
  <2>2. price[b] \in Nat
    BY Numbers
  <2>3. CASE RefundBalance(b, price[b])
    BY <1>1, <2>1, <2>2, <2>3, RefundMoves DEF AccountMove
  <2>4. CASE live[b].paid < price[b] /\ RefundBalance(b, price[b] - live[b].paid) /\ RefundSurplus(b)
    <3> DEFINE a == price[b] - live[b].paid
    <3>1. live[b] # NoBatch
      BY <1>1, <2>4 DEF RefundSurplus, Goto, BatchInv, ControlSound
    <3>2. a \in Nat
      BY <2>2, <2>4, <3>1, Numbers
    <3> HIDE DEF a
    <3>3. Credits(b, a)
      BY <1>1, <2>1, <2>4, <3>2, RefundMoves DEF a
    <3> QED
      BY <3>2, <3>3 DEF AccountMove
  <2>5. CASE UNCHANGED <<storeVars, returned>>
    BY <2>1, <2>5 DEF storeVars, AccountMove, AccountUnchanged
  <2> QED
    BY <1>5, <2>3, <2>4, <2>5 DEF RefundSurplus, RefundRejected
<1> QED
  BY <1>2, <1>3, <1>4, <1>5 DEF RequestStep

\* A step of a batch task is a step of the abstract account, or none.
LEMMA TaskMoves ==
  ASSUME EscrowInv, NEW b \in Batches, TaskStep(b)
  PROVE  AccountMove
<1>1. IsStore(db) /\ MemoryTypes /\ BatchInv(b)
  BY DEF EscrowInv, TypeOK, StoreTypes
<1>2. CASE \/ StartTask(b) \/ (\E i \in Slots(b) : Dispatch(b, i))
           \/ (\E i \in Slots(b), outcome \in TerminalSlot : FinishSlot(b, i, outcome))
           \/ Finalize(b) \/ SettleFails(b)
  <2>1. UNCHANGED <<storeVars, historyVars>>
    BY <1>2 DEF StartTask, Dispatch, FinishSlot, Finalize, SettleFails
  <2> QED
    BY <2>1 DEF storeVars, historyVars, AccountMove, AccountUnchanged
<1>3. CASE Checkpoint(b)
  BY <1>1, <1>3, QuietWrites DEF Checkpoint, AccountMove, AccountUnchanged, storeVars, historyVars
<1>4. CASE SettleBatch(b)
  <2>1. live[b] \in BatchRecord(b) /\ live[b].refunded \in Nat
    BY <1>1, <1>4 DEF SettleBatch, Step, MemoryTypes, IsRecord, BatchInv, ControlSound, BatchRecord
  <2>2. CASE Durable
    BY <1>1, <1>4, <2>1, <2>2, SettleMoves DEF SettleBatch
  <2>3. CASE ~Durable
    <3>1. /\ taken' = taken
          /\ \/ Payer[b] # NoKey /\ RefundBalance(b, live[b].refunded)
             \/ UNCHANGED <<storeVars, returned>>
      BY <1>4, <2>3 DEF SettleBatch, SettleInMemory
    <3>2. CASE Payer[b] # NoKey /\ RefundBalance(b, live[b].refunded)
      BY <1>1, <2>1, <3>1, <3>2, RefundMoves DEF AccountMove
    <3>3. CASE UNCHANGED <<storeVars, returned>>
      BY <3>1, <3>3 DEF storeVars, AccountMove, AccountUnchanged
    <3> QED
      BY <3>1, <3>2, <3>3
  <2> QED
    BY <2>2, <2>3
<1> QED
  BY <1>2, <1>3, <1>4 DEF TaskStep

\* A step of start-up is a step of the abstract account, or none.
LEMMA BootMoves ==
  ASSUME EscrowInv, BootStep
  PROVE  AccountMove
<1>1. CASE Boot \/ Serve
  BY <1>1 DEF Boot, Serve, storeVars, historyVars, AccountMove, AccountUnchanged
<1>2. ASSUME NEW b \in Batches, RecoverBatchFails(b)
      PROVE  AccountMove
  BY <1>2 DEF RecoverBatchFails, storeVars, historyVars, AccountMove, AccountUnchanged
<1>3. ASSUME NEW b \in Batches, RecoverBatch(b)
      PROVE  AccountMove
  <2>1. CASE UNCHANGED <<storeVars, historyVars>>
    BY <2>1 DEF storeVars, historyVars, AccountMove, AccountUnchanged
  <2>2. CASE SettleDurably(b, Reconciled(b, db.batch[b]))
    <3>1. phase = "recovering" /\ b \in todo
      BY <1>3 DEF RecoverBatch
    <3>2. Reconciled(b, db.batch[b]) \in BatchRecord(b)
      BY <3>1, Recovering, ReconciledSound
    <3>3. IsStore(db)
      BY DEF EscrowInv, TypeOK, StoreTypes
    <3> QED
      BY <2>2, <3>2, <3>3, SettleMoves
  <2> QED
    BY <1>3, <2>1, <2>2 DEF RecoverBatch
<1> QED
  BY <1>1, <1>2, <1>3 DEF BootStep

\* Every step is a step of the abstract account, or none.
LEMMA NextMoves ==
  ASSUME EscrowInv, [Next]_vars
  PROVE  AccountMove
<1>1. CASE UNCHANGED vars
  BY <1>1 DEF vars, storeVars, historyVars, AccountMove, AccountUnchanged
<1>2. CASE Crash \/ PowerLoss
  <2>1. db' \in survivors /\ taken' = taken /\ returned' = returned
    BY <1>2 DEF Crash, PowerLoss, LosePower, StopProcess, storeVars, historyVars,
                EscrowInv, StoresAgree
  <2> QED
    BY <2>1 DEF EscrowInv, StoresAgree, AccountMove, AccountUnchanged
<1>3. ASSUME NEW k \in Keys, Revoke(k)
      PROVE  AccountMove
  <2>1. IsStore(db)
    BY DEF EscrowInv, TypeOK, StoreTypes
  <2>2. Revokes(k)
    BY <1>3, <2>1 DEF Revoke, WriteSynced, historyVars, IsStore, Revokes
  <2> QED
    BY <2>2 DEF AccountMove
<1> QED
  BY <1>1, <1>2, <1>3, RequestMoves, TaskMoves, BootMoves DEF Next

\* Once a key is revoked, no step spends from it or forgets it.
THEOREM RevokedNeverSpends == Spec => RevokedKeyNeverSpends
<1>1. EscrowInv /\ [Next]_vars =>
        [\A k \in db.revoked :
           /\ k \in db'.revoked
           /\ db'.bal[k] >= db.bal[k]]_vars
  <2> SUFFICES ASSUME EscrowInv, [Next]_vars, NEW k \in db.revoked
               PROVE  k \in db'.revoked /\ db'.bal[k] >= db.bal[k]
    OBVIOUS
  <2>1. k \in Keys /\ db.bal \in [Keys -> Nat]
    BY DEF EscrowInv, TypeOK, StoreTypes, IsStore
  <2>2. AccountMove
    BY NextMoves
  <2>3. CASE AccountUnchanged \/ \E j \in Keys : Revokes(j)
    BY <2>1, <2>3 DEF AccountUnchanged, Revokes
  <2>4. ASSUME NEW b \in Batches, NEW p \in Nat, Debits(b, p)
        PROVE  k \in db'.revoked /\ db'.bal[k] >= db.bal[k]
    BY <2>1, <2>4 DEF Debits
  <2>5. ASSUME NEW b \in Batches, NEW a \in Nat, Credits(b, a)
        PROVE  k \in db'.revoked /\ db'.bal[k] >= db.bal[k]
    BY <2>1, <2>5 DEF Credits
  <2> QED
    BY <2>2, <2>3, <2>4, <2>5 DEF AccountMove
<1> QED
  BY <1>1, InvariantHolds, PTL DEF Spec, RevokedKeyNeverSpends

\* Batches implement the abstract account: every step, crash and recovery
\* is a debit, a credit or a revocation, or changes nothing the holder of a
\* key can see.
THEOREM BatchesImplementAccount == Spec => ImplementsAccount
<1>1. Init => Account!Init
  <2> SUFFICES ASSUME Init
               PROVE  Account!Init
    OBVIOUS
  <2>1. db.bal = Deposit /\ db.revoked = {}
    BY DEF Init, EmptyStore
  <2> QED
    BY <2>1 DEF Init, Account!Init, Account!Requests, Batches
<1>2. EscrowInv /\ [Next]_vars /\ NoCreditBeyondDebit' => [Account!Next]_(Account!vars)
  <2> SUFFICES ASSUME EscrowInv, [Next]_vars, NoCreditBeyondDebit'
               PROVE  Account!Next \/ UNCHANGED Account!vars
    OBVIOUS
  <2>1. AccountMove
    BY NextMoves
  <2>2. CASE AccountUnchanged
    BY <2>2 DEF AccountUnchanged, Account!vars
  <2>3. ASSUME NEW k \in Keys, Revokes(k)
        PROVE  Account!Next
    BY <2>3 DEF Revokes, Account!Next, Account!Revoke
  <2>4. db.bal \in [Keys -> Nat] /\ HistoryTypes
    BY DEF EscrowInv, TypeOK, StoreTypes, IsStore
  <2>5. ASSUME NEW b \in Batches, NEW p \in Nat, Debits(b, p)
        PROVE  Account!Next \/ UNCHANGED Account!vars
    <3>1. CASE p = 0
      <4>1. db'.bal = db.bal /\ taken' = taken
        BY <2>4, <2>5, <3>1 DEF Debits, HistoryTypes
      <4> QED
        BY <2>5, <4>1 DEF Debits, Account!vars
    <3>2. CASE p # 0
      <4>1. p \in 1..db.bal[Payer[b]]
        BY <2>4, <2>5, <3>2 DEF Debits
      <4>2. Account!Debit(b)
        BY <2>5, <4>1 DEF Debits, Account!Debit
      <4> QED
        BY <4>2 DEF Account!Next, Account!Requests, Batches
    <3> QED
      BY <3>1, <3>2
  <2>6. ASSUME NEW b \in Batches, NEW a \in Nat, Credits(b, a)
        PROVE  Account!Next \/ UNCHANGED Account!vars
    <3>1. CASE a = 0
      <4>1. db'.bal = db.bal /\ returned' = returned
        BY <2>4, <2>6, <3>1 DEF Credits, HistoryTypes
      <4> QED
        BY <2>6, <4>1 DEF Credits, Account!vars
    <3>2. CASE a # 0
      <4>1. Payer[b] \in Keys /\ taken' = taken /\ returned' = [returned EXCEPT ![b] = @ + a]
        BY <2>6 DEF Credits
      <4>3. returned'[b] <= taken'[b]
        BY DEF NoCreditBeyondDebit
      <4>4. a \in 1..(taken[b] - returned[b])
        BY <2>4, <3>2, <4>1, <4>3 DEF HistoryTypes
      <4>5. Account!Credit(b)
        BY <2>6, <4>1, <4>4 DEF Credits, Account!Credit
      <4> QED
        BY <4>5 DEF Account!Next, Account!Requests, Batches
    <3> QED
      BY <3>1, <3>2
  <2> QED
    BY <2>1, <2>2, <2>3, <2>5, <2>6 DEF AccountMove
<1> QED
  BY <1>1, <1>2, InvariantHolds, NoCreditWithoutDebit, PTL
     DEF Spec, ImplementsAccount, Account!Spec
-----------------------------------------------------------------------------
(* Settled batches.                                                        *)

\* A terminal status is the outcome of the slots.
TrueOutcome(r) == r # NoBatch /\ IsTerminal(r) => r.status = Outcome(r)

\* A settlement is in every store that a power loss may leave, and nothing
\* in memory contradicts it.  Before it nothing is owed.
SettledSound(b) ==
  /\ TrueOutcome(live[b])
  /\ \A s \in survivors : s.owed[b] = db.owed[b]
  /\ b \notin db.settled => db.owed[b] = 0
  /\ b \in db.settled =>
       /\ db.batch[b] # NoBatch /\ IsTerminal(db.batch[b]) /\ TrueOutcome(db.batch[b])
       /\ \A s \in survivors : s.batch[b] = db.batch[b]
       /\ live[b] # NoBatch => live[b] = db.batch[b]
       /\ Payer[b] = NoKey => db.owed[b] = db.batch[b].refunded

\* What a key has paid for request b, to the grain: the debit while the
\* layer holds it, the escrow once the layer returned the surplus, and what
\* the settlement released once there is one.  A request that was dropped
\* may have cost more.
PaidExactly(b) ==
  Payer[b] # NoKey =>
    /\ pc[b] \in {"funded", "rejected", "inserting", "served"} => taken[b] = price[b]
    /\ pc[b] \in {"funded", "rejected", "inserting"} => returned[b] = 0
    /\ pc[b] = "repaid" => taken[b] = returned[b]
    /\ pc[b] \in {"inserting", "served"} => \A s \in survivors :
         s.batch[b] # NoBatch => s.batch[b].paid = live[b].paid
    /\ pc[b] = "served" =>
         /\ settlements[b] = 0 => returned[b] = 0
         /\ settlements[b] = 1 => IsTerminal(live[b]) /\ returned[b] = live[b].refunded
    /\ pc[b] = "charged" /\ settlements[b] = 0 =>
         /\ live[b] # NoBatch => taken[b] - returned[b] = live[b].paid
         /\ \A s \in survivors :
              s.batch[b] # NoBatch => taken[b] - returned[b] = s.batch[b].paid
    /\ pc[b] = "charged" /\ settlements[b] = 1 /\ SettledRecord(b) # NoBatch =>
         /\ IsTerminal(SettledRecord(b))
         /\ taken[b] - returned[b] = SettledRecord(b).released

\* StandInv: the invariant behind SettlementsStand and SettledIsFinal.
StandInv == EscrowInv /\ \A b \in Batches : SettledSound(b) /\ PaidExactly(b)

\* A step leaves batch c alone in the store, except that a store a power
\* loss could have left may be gone.
StoreKeeps(c) ==
  /\ db'.batch[c] = db.batch[c] /\ db'.owed[c] = db.owed[c]
  /\ c \in db'.settled <=> c \in db.settled
  /\ \A s \in survivors' : \E t \in survivors :
       s.batch[c] = t.batch[c] /\ s.owed[c] = t.owed[c]

\* A step leaves request and batch c alone.
Rests(c) ==
  /\ StoreKeeps(c)
  /\ pc'[c] = pc[c] /\ price'[c] = price[c] /\ live'[c] = live[c]
  /\ taken'[c] = taken[c] /\ returned'[c] = returned[c]
  /\ settlements'[c] = settlements[c]

LEMMA RestingStands ==
  ASSUME NEW c \in Batches, SettledSound(c), PaidExactly(c), Rests(c)
  PROVE  SettledSound(c)' /\ PaidExactly(c)'
<1>1. SettledSound(c)'
  BY DEF SettledSound, Rests, StoreKeeps
<1>2. SettledRecord(c)' = SettledRecord(c)
  BY DEF SettledRecord, Rests, StoreKeeps
<1>3. PaidExactly(c)'
  BY <1>2 DEF PaidExactly, Rests, StoreKeeps
<1> QED
  BY <1>1, <1>3

\* Writes of a balance or of a revocation leave every batch alone.
LEMMA AccountWriteKeeps ==
  ASSUME EscrowInv,
         \/ UNCHANGED storeVars
         \/ \E k \in Keys, w \in Nat : WriteSynced([db EXCEPT !.bal[k] = w])
         \/ \E k \in Keys : WriteSynced([db EXCEPT !.revoked = @ \cup {k}])
  PROVE  \A c \in Batches : StoreKeeps(c)
<1>1. IsStore(db) /\ db \in survivors
  BY DEF EscrowInv, TypeOK, StoreTypes, StoresAgree
<1>2. CASE UNCHANGED storeVars
  BY <1>2 DEF storeVars, StoreKeeps
<1>3. ASSUME NEW k \in Keys, NEW w \in Nat, WriteSynced([db EXCEPT !.bal[k] = w])
      PROVE  \A c \in Batches : StoreKeeps(c)
  <2>1. /\ db'.batch = db.batch /\ db'.owed = db.owed /\ db'.settled = db.settled
        /\ survivors' = {db'}
    BY <1>1, <1>3 DEF WriteSynced, IsStore
  <2> QED
    BY <1>1, <2>1 DEF StoreKeeps
<1>4. ASSUME NEW k \in Keys, WriteSynced([db EXCEPT !.revoked = @ \cup {k}])
      PROVE  \A c \in Batches : StoreKeeps(c)
  <2>1. /\ db'.batch = db.batch /\ db'.owed = db.owed /\ db'.settled = db.settled
        /\ survivors' = {db'}
    BY <1>1, <1>4 DEF WriteSynced, IsStore
  <2> QED
    BY <1>1, <2>1 DEF StoreKeeps
<1> QED
  BY <1>2, <1>3, <1>4

\* A snapshot of batch b leaves the others alone, and the debts of all.
LEMMA SnapshotKeeps ==
  ASSUME EscrowInv, NEW b \in Batches, NEW r, PersistBatch(b, r)
  PROVE  /\ \A c \in Batches \ {b} : StoreKeeps(c)
         /\ db'.batch[b] = r /\ db'.settled = db.settled /\ db'.owed = db.owed
         /\ \A s \in survivors' :
              \/ s \in survivors
              \/ s.batch[b] = r /\ s.owed = db.owed
<1>1. IsStore(db) /\ db \in survivors
  BY DEF EscrowInv, TypeOK, StoreTypes, StoresAgree
<1>2. /\ db'.batch = [db.batch EXCEPT ![b] = r] /\ db'.settled = db.settled
      /\ db'.owed = db.owed /\ survivors' = survivors \cup {db'}
  BY <1>1 DEF PersistBatch, WriteUnsynced, IsStore
<1>3. db'.batch[b] = r /\ \A c \in Batches \ {b} : db'.batch[c] = db.batch[c]
  BY <1>1, <1>2 DEF IsStore
<1> QED
  BY <1>1, <1>2, <1>3 DEF StoreKeeps

\* Settling a batch again by the record it was settled with changes nothing;
\* a first settlement is at once in every store and returns what the record
\* refunds to the key, or owes it to the x402 payer.
LEMMA SettleDurablyKeeps ==
  ASSUME EscrowInv, Durable, NEW b \in Batches, NEW r \in BatchRecord(b),
         SettleDurably(b, r)
  PROVE  /\ \A c \in Batches \ {b} : StoreKeeps(c)
         /\ b \in db.settled =>
              /\ db'.batch[b] = r /\ returned'[b] = returned[b] /\ b \in db'.settled
              /\ settlements'[b] = settlements[b]
              /\ db'.owed[b] = IF r.refunded # 0 /\ Payer[b] = NoKey
                               THEN r.refunded ELSE db.owed[b]
              /\ \A s \in survivors' :
                   \/ s \in survivors /\ db'.owed = db.owed
                   \/ s.batch[b] = r /\ s.owed[b] = db'.owed[b]
         /\ b \notin db.settled =>
              /\ db'.batch[b] = r /\ b \in db'.settled /\ survivors' = {db'}
              /\ settlements'[b] = settlements[b] + 1
              /\ returned'[b] = returned[b] + (IF Payer[b] = NoKey THEN 0 ELSE r.refunded)
              /\ db'.owed[b] = IF r.refunded # 0 /\ Payer[b] = NoKey
                               THEN r.refunded ELSE db.owed[b]
<1>1. /\ IsStore(db) /\ db \in survivors /\ r.refunded \in Nat
      /\ returned[b] \in Nat /\ HistoryTypes
  BY DEF EscrowInv, TypeOK, StoreTypes, StoresAgree, BatchRecord, HistoryTypes
\* One synced write of record and marker.
<1>2. ASSUME NEW new, WriteSynced(new), new.batch = [db.batch EXCEPT ![b] = r],
             new.settled = db.settled \cup {b},
             \A c \in Batches \ {b} : new.owed[c] = db.owed[c]
      PROVE  /\ \A c \in Batches \ {b} : StoreKeeps(c)
             /\ db'.batch[b] = r /\ b \in db'.settled /\ survivors' = {db'} /\ db' = new
  <2>1. db' = new /\ survivors' = {new}
    BY <1>2 DEF WriteSynced
  <2>2. new.batch[b] = r /\ \A c \in Batches \ {b} : new.batch[c] = db.batch[c]
    BY <1>1, <1>2 DEF IsStore
  <2> QED
    BY <1>1, <1>2, <2>1, <2>2 DEF StoreKeeps
<1>3. CASE r.refunded = 0 /\ MarkBatchSettled(b, r)
  <2> DEFINE new == [db EXCEPT !.batch[b] = r, !.settled = @ \cup {b}]
  <2>1. /\ WriteSynced(new) /\ returned' = returned
        /\ settlements' = [settlements EXCEPT ![b] = IF b \in db.settled THEN @ ELSE @ + 1]
    BY <1>3 DEF MarkBatchSettled, CountSettlement
  <2>2. /\ new.batch = [db.batch EXCEPT ![b] = r] /\ new.settled = db.settled \cup {b}
        /\ new.owed = db.owed
    BY <1>1 DEF IsStore
  <2> HIDE DEF new
  <2>3. /\ \A c \in Batches \ {b} : StoreKeeps(c)
        /\ db'.batch[b] = r /\ b \in db'.settled /\ survivors' = {db'} /\ db' = new
    BY <1>2, <2>1, <2>2
  <2> QED
    BY <1>1, <1>3, <2>1, <2>2, <2>3 DEF HistoryTypes
<1>4. CASE r.refunded # 0 /\ Payer[b] = NoKey /\ RecordRefundOwed(b, r)
  <2> DEFINE new == [db EXCEPT !.batch[b] = r, !.settled = @ \cup {b}, !.owed[b] = r.refunded]
  <2>1. /\ WriteSynced(new) /\ returned' = returned
        /\ settlements' = [settlements EXCEPT ![b] = IF b \in db.settled THEN @ ELSE @ + 1]
    BY <1>4 DEF RecordRefundOwed, CountSettlement
  <2>2. /\ new.batch = [db.batch EXCEPT ![b] = r] /\ new.settled = db.settled \cup {b}
        /\ new.owed = [db.owed EXCEPT ![b] = r.refunded]
    BY <1>1 DEF IsStore
  <2> HIDE DEF new
  <2>3. new.owed[b] = r.refunded /\ \A c \in Batches \ {b} : new.owed[c] = db.owed[c]
    BY <1>1, <2>2 DEF IsStore
  <2>4. /\ \A c \in Batches \ {b} : StoreKeeps(c)
        /\ db'.batch[b] = r /\ b \in db'.settled /\ survivors' = {db'} /\ db' = new
    BY <1>2, <2>1, <2>2, <2>3
  <2> QED
    BY <1>1, <1>4, <2>1, <2>3, <2>4 DEF HistoryTypes
<1>5. CASE Payer[b] # NoKey /\ b \in db.settled /\ SettleBatchRefund(b, r)
  <2>1. PersistBatch(b, r) /\ returned' = returned /\ settlements' = settlements
    BY <1>5 DEF SettleBatchRefund, historyVars
  <2> QED
    BY <1>5, <2>1, SnapshotKeeps
<1>6. CASE Payer[b] # NoKey /\ b \notin db.settled /\ SettleBatchRefund(b, r)
  <2> DEFINE w == db.bal[Payer[b]] + r.refunded
             new == [db EXCEPT !.bal[Payer[b]] = w, !.batch[b] = r, !.settled = @ \cup {b}]
  <2>1. /\ WriteSynced(new) /\ returned' = [returned EXCEPT ![b] = @ + r.refunded]
        /\ settlements' = [settlements EXCEPT ![b] = @ + 1]
    BY <1>6 DEF SettleBatchRefund
  <2>2. /\ new.batch = [db.batch EXCEPT ![b] = r] /\ new.settled = db.settled \cup {b}
        /\ new.owed = db.owed
    BY <1>1 DEF IsStore
  <2> HIDE DEF new
  <2>3. /\ \A c \in Batches \ {b} : StoreKeeps(c)
        /\ db'.batch[b] = r /\ b \in db'.settled /\ survivors' = {db'} /\ db' = new
    BY <1>2, <2>1, <2>2
  <2> QED
    BY <1>1, <1>6, <2>1, <2>2, <2>3 DEF HistoryTypes
<1> QED
  BY <1>3, <1>4, <1>5, <1>6 DEF SettleDurably

\* Recovery makes of a terminal record the record it is: settling a batch a
\* second time, because its marker could not be read, settles it alike.
LEMMA ReconciledAgain ==
  ASSUME NEW b \in Batches, NEW r \in BatchRecord(b), RecordSound(b, r),
         IsTerminal(r), TrueOutcome(r)
  PROVE  Reconciled(b, r) = r
<1> DEFINE sl == [i \in Slots(b) |-> IF r.slots[i] = "done" THEN "done" ELSE "errored"]
           t == [r EXCEPT !.slots = sl]
<1>1. r # NoBatch /\ r.slots \in [Slots(b) -> SlotState] /\ OpenSlots(r) = {}
  BY RecordIsNotNoBatch DEF RecordSound, BatchRecord
<1>2. sl = r.slots
  <2>1. \A i \in Slots(b) : r.slots[i] \in {"done", "errored"}
    BY <1>1 DEF OpenSlots, DoneSlots, ErroredSlots
  <2> QED
    BY <1>1, <2>1
<1>3. t = r
  BY <1>2 DEF BatchRecord
<1>4. Reconciled(b, r) = Finalized(b, r)
  BY <1>3 DEF Reconciled
<1>5. /\ r.status = Outcome(r) /\ r.released = QuoteOf(b, r, DoneSlots(r))
      /\ r.refunded = QuoteOf(b, r, ErroredSlots(r))
  BY <1>1 DEF TrueOutcome, RecordSound
<1>6. Finalized(b, r) = r
  BY <1>5 DEF Finalized, BatchRecord
<1> QED
  BY <1>4, <1>6

\* A settlement of batch b, once made, is as it was.
Final(b) ==
  b \in db.settled =>
    b \in db'.settled /\ db'.batch[b] = db.batch[b] /\ db'.owed[b] = db.owed[b]

Stands(b) == SettledSound(b)' /\ PaidExactly(b)' /\ Final(b)

\* A step of one request or batch, taken together.
LEMMA StepStands ==
  ASSUME StandInv, EscrowInv', NEW b \in Batches, Stands(b),
         \A c \in Batches \ {b} : Rests(c)
  PROVE  StandInv' /\ \A c \in Batches : Final(c)
<1>1. \A c \in Batches \ {b} : SettledSound(c)' /\ PaidExactly(c)'
  BY RestingStands DEF StandInv
<1>2. \A c \in Batches \ {b} : Final(c)
  BY DEF Rests, StoreKeeps, Final
<1> QED
  BY <1>1, <1>2 DEF StandInv, Stands

\* Nothing of the settlement changes with the store and the record as they
\* were, and before it the record may change.
LEMMA SettledKept ==
  ASSUME NEW b \in Batches, SettledSound(b), StoreKeeps(b),
         \/ live'[b] = live[b]
         \/ b \notin db.settled /\ TrueOutcome(live'[b])
  PROVE  SettledSound(b)' /\ Final(b)
<1>1. Final(b)
  BY DEF StoreKeeps, Final
<1>2. TrueOutcome(live[b])'
  BY DEF SettledSound, TrueOutcome
<1>3. SettledSound(b)'
  BY <1>2 DEF SettledSound, StoreKeeps, TrueOutcome
<1> QED
  BY <1>1, <1>3

\* The control state of a batch that is not settled.
LEMMA NotSettledYet ==
  ASSUME EscrowInv, NEW b \in Batches, settlements[b] = 0
  PROVE  b \notin db.settled
BY DEF EscrowInv, BatchInv, ControlSound

\* The steps of a request that neither move money nor write a record.
LEMMA MiddlewareStands ==
  ASSUME StandInv, NEW b \in Batches,
         \/ Authenticate(b) \/ TurnAway(b) \/ (\E p \in Prices : VerifyPayment(b, p))
         \/ Reject(b) \/ Register(b) \/ LayerRefundFails(b) \/ SettlePayment(b)
  PROVE  Stands(b) /\ \A c \in Batches \ {b} : Rests(c)
<1>1. /\ UNCHANGED <<storeVars, live, historyVars>>
      /\ \E from, to \in RequestPc : pc[b] = from /\ pc' = [pc EXCEPT ![b] = to]
      /\ price' = price \/ \E p \in Prices : VerifyPayment(b, p)
      /\ \A c \in Batches \ {b} : price'[c] = price[c]
  BY DEF Authenticate, TurnAway, VerifyPayment, Reject, Register, LayerRefundFails,
         SettlePayment, Goto, RequestPc, StandInv, EscrowInv, TypeOK, MemoryTypes
<1>2. /\ db' = db /\ survivors' = survivors /\ live' = live /\ taken' = taken
      /\ returned' = returned /\ settlements' = settlements
  BY <1>1 DEF storeVars, historyVars
<1>3. EscrowInv /\ MemoryTypes /\ ControlSound(b) /\ SettledSound(b) /\ PaidExactly(b)
  BY DEF StandInv, EscrowInv, TypeOK, BatchInv
<1>4. \A c \in Batches : StoreKeeps(c)
  BY <1>1, <1>3, AccountWriteKeeps
<1>5. \A c \in Batches \ {b} : Rests(c)
  BY <1>1, <1>2, <1>3, <1>4 DEF Rests, MemoryTypes
<1>6. SettledSound(b)' /\ Final(b)
  BY <1>2, <1>3, <1>4, SettledKept
<1>7. \/ Payer[b] = NoKey
      \/ pc'[b] \in {"authed", "refused", "dropped"}
      \/ pc[b] = "funded" /\ pc'[b] = "rejected" /\ price' = price
      \/ pc[b] = "inserting" /\ pc'[b] = "served" /\ price' = price
  BY <1>1, <1>3 DEF Authenticate, TurnAway, VerifyPayment, Reject, Register,
     LayerRefundFails, SettlePayment, Goto, MemoryTypes
<1>8. pc[b] = "inserting" => settlements[b] = 0
  BY <1>3 DEF ControlSound
<1>9. PaidExactly(b)'
  BY <1>2, <1>3, <1>7, <1>8 DEF PaidExactly
<1> QED
  BY <1>5, <1>6, <1>9 DEF Stands

\* A dropped request may leave its record behind or not.
LEMMA DisconnectStands ==
  ASSUME StandInv, NEW b \in Batches, Disconnect(b)
  PROVE  Stands(b) /\ \A c \in Batches \ {b} : Rests(c)
<1>1. /\ UNCHANGED <<storeVars, historyVars>> /\ price' = price
      /\ pc' = [pc EXCEPT ![b] = "dropped"]
      /\ \/ live' = live
         \/ pc[b] = "inserting" /\ live' = [live EXCEPT ![b] = NoBatch]
  BY DEF Disconnect, Goto
<1>2. /\ db' = db /\ survivors' = survivors /\ taken' = taken
      /\ returned' = returned /\ settlements' = settlements
  BY <1>1 DEF storeVars, historyVars
<1>3. EscrowInv /\ MemoryTypes /\ ControlSound(b) /\ SettledSound(b)
  BY DEF StandInv, EscrowInv, TypeOK, BatchInv
<1>4. \A c \in Batches : StoreKeeps(c)
  BY <1>1, <1>3, AccountWriteKeeps
<1>5. \A c \in Batches \ {b} : Rests(c)
  BY <1>1, <1>2, <1>3, <1>4 DEF Rests, MemoryTypes
<1>6. live'[b] = live[b] \/ (b \notin db.settled /\ TrueOutcome(live'[b]))
  BY <1>1, <1>3, NotSettledYet DEF ControlSound, MemoryTypes, TrueOutcome
<1>7. SettledSound(b)' /\ Final(b)
  BY <1>3, <1>4, <1>6, SettledKept
<1>8. pc'[b] = "dropped"
  BY <1>1, <1>3 DEF MemoryTypes
<1>9. PaidExactly(b)'
  BY <1>8 DEF PaidExactly
<1> QED
  BY <1>5, <1>7, <1>9 DEF Stands

\* The layer's debit, and its refunds: the charge is exact either way.
LEMMA LayerMoneyStands ==
  ASSUME StandInv, NEW b \in Batches,
         (\E p \in Prices : Debit(b, p)) \/ RefundSurplus(b) \/ RefundRejected(b)
  PROVE  Stands(b) /\ \A c \in Batches \ {b} : Rests(c)
<1>1. /\ live' = live /\ settlements' = settlements
      /\ \A c \in Batches \ {b} : /\ pc'[c] = pc[c] /\ price'[c] = price[c]
                                  /\ taken'[c] = taken[c] /\ returned'[c] = returned[c]
  BY DEF Debit, RefundSurplus, RefundRejected, Goto, DebitBalance, RefundBalance,
         StandInv, EscrowInv, TypeOK, MemoryTypes, HistoryTypes
<1>2. /\ EscrowInv /\ MemoryTypes /\ HistoryTypes /\ IsStore(db) /\ BatchInv(b)
      /\ SettledSound(b) /\ PaidExactly(b)
  BY DEF StandInv, EscrowInv, TypeOK, StoreTypes
<1>3. /\ taken[b] \in Nat /\ returned[b] \in Nat /\ price[b] \in Nat
      /\ live[b] # NoBatch => live[b] \in BatchRecord(b) /\ live[b].paid \in Nat
  BY <1>2, Numbers
<1>4. ASSUME NEW p \in Prices, Debit(b, p)
      PROVE  PaidExactly(b)' /\ \A c \in Batches : StoreKeeps(c)
  <2>1. /\ pc[b] = "authed" /\ pc'[b] = "funded" /\ price'[b] = p /\ p <= db.bal[Payer[b]]
        /\ taken'[b] = taken[b] + p /\ returned' = returned
        /\ WriteSynced([db EXCEPT !.bal[Payer[b]] = @ - p])
    BY <1>2, <1>4 DEF Debit, Goto, DebitBalance, MemoryTypes, HistoryTypes
  <2>2. Payer[b] \in Keys /\ p \in Nat /\ taken[b] = 0 /\ returned[b] = 0
    BY <1>2, <2>1, BatchFacts, ConstantsAssumption DEF BatchInv, ControlSound, DebitCovers
  <2>3. db.bal[Payer[b]] - p \in Nat
    BY <1>2, <2>1, <2>2 DEF IsStore
  <2>4. \A c \in Batches : StoreKeeps(c)
    BY <1>2, <2>1, <2>2, <2>3, AccountWriteKeeps
  <2> QED
    BY <2>1, <2>2, <2>4 DEF PaidExactly
<1>5. ASSUME NEW a \in Nat, Payer[b] # NoKey, RefundBalance(b, a)
      PROVE  returned'[b] = returned[b] + a /\ \A c \in Batches : StoreKeeps(c)
  <2>1. Payer[b] \in Keys /\ db.bal[Payer[b]] + a \in Nat
    BY <1>2, <1>5, BatchFacts DEF IsStore
  <2> QED
    BY <1>2, <1>5, <2>1, AccountWriteKeeps DEF RefundBalance, HistoryTypes
<1>6. ASSUME RefundRejected(b)
      PROVE  PaidExactly(b)' /\ \A c \in Batches : StoreKeeps(c)
  <2>1. /\ Payer[b] # NoKey /\ pc[b] = "rejected" /\ pc'[b] = "repaid" /\ taken' = taken
        /\ RefundBalance(b, price[b])
    BY <1>2, <1>6 DEF RefundRejected, Goto, MemoryTypes
  <2>2. taken[b] = price[b] /\ returned[b] = 0
    BY <1>2, <2>1 DEF PaidExactly
  <2>3. PaidExactly(b)'
    BY <1>3, <1>5, <2>1, <2>2 DEF PaidExactly
  <2> QED
    BY <1>3, <1>5, <2>1, <2>3
<1>7. ASSUME RefundSurplus(b)
      PROVE  PaidExactly(b)' /\ \A c \in Batches : StoreKeeps(c)
  <2> DEFINE r == live[b]
             a == price[b] - r.paid
  <2>1. /\ Payer[b] # NoKey /\ pc[b] = "served" /\ pc'[b] = "charged" /\ taken' = taken
        /\ \/ r.paid < price[b] /\ RefundBalance(b, a)
           \/ ~(r.paid < price[b]) /\ UNCHANGED <<storeVars, returned>>
    BY <1>2, <1>7 DEF RefundSurplus, Goto, MemoryTypes
  <2>2. r \in BatchRecord(b) /\ r # NoBatch /\ r.paid <= price[b] /\ RecordSound(b, r)
        /\ settlements[b] \in {0, 1}
    BY <1>2, <1>3, <2>1 DEF BatchInv, ControlSound, RecordsSound
  <2>3. r.paid \in Nat /\ r.released \in Nat /\ r.refunded \in Nat /\ a \in Nat
    BY <1>3, <2>2 DEF BatchRecord
  <2>4. returned'[b] = returned[b] + a /\ \A c \in Batches : StoreKeeps(c)
    <3>1. CASE RefundBalance(b, a)
      <4> HIDE DEF a
      <4> QED
        BY <1>5, <2>1, <2>3, <3>1
    <3>2. CASE ~(r.paid < price[b]) /\ UNCHANGED <<storeVars, returned>>
      <4>1. a = 0
        BY <1>3, <2>2, <2>3, <3>2
      <4>2. returned' = returned /\ \A c \in Batches : StoreKeeps(c)
        BY <1>2, <3>2, AccountWriteKeeps
      <4> QED
        BY <1>3, <4>1, <4>2
    <3> QED
      BY <2>1, <3>1, <3>2
  <2>5. taken'[b] - returned'[b] = r.paid - returned[b]
    <3>1. taken[b] = price[b]
      BY <1>2, <2>1 DEF PaidExactly
    <3> QED
      BY <1>3, <2>1, <2>3, <2>4, <3>1
  <2>6. CASE settlements[b] = 0
    <3>1. returned[b] = 0 /\ \A s \in survivors : s.batch[b] # NoBatch => s.batch[b].paid = r.paid
      BY <1>2, <2>1, <2>6 DEF PaidExactly
    <3>2. taken'[b] - returned'[b] = r.paid
      BY <2>3, <2>5, <3>1
    <3>3. \A s \in survivors' : s.batch[b] # NoBatch => s.batch[b].paid = r.paid
      BY <2>4, <3>1 DEF StoreKeeps
    <3> QED
      BY <1>1, <2>1, <2>4, <2>6, <3>2, <3>3 DEF PaidExactly
  <2>7. CASE settlements[b] = 1
    <3>1. IsTerminal(r) /\ returned[b] = r.refunded
      BY <1>2, <2>1, <2>7 DEF PaidExactly
    <3>2. r.released + r.refunded = r.paid
      BY <2>2, <3>1, TerminalAccounts
    <3>3. taken'[b] - returned'[b] = r.released
      BY <2>3, <2>5, <3>1, <3>2
    <3>4. SettledRecord(b)' = r
      <4>1. Durable => db.batch[b] = r
        BY <1>2, <2>2, <2>7 DEF BatchInv, ControlSound, SettledSound
      <4> QED
        BY <1>1, <2>4, <4>1 DEF SettledRecord, StoreKeeps
    <3>5. PaidExactly(b)'
      BY <1>1, <2>1, <2>7, <3>1, <3>3, <3>4 DEF PaidExactly
    <3> QED
      BY <2>4, <3>5
  <2> QED
    BY <2>2, <2>6, <2>7
<1>8. PaidExactly(b)' /\ \A c \in Batches : StoreKeeps(c)
  BY <1>4, <1>6, <1>7
<1>9. SettledSound(b)' /\ Final(b)
  BY <1>1, <1>2, <1>8, SettledKept
<1> QED
  BY <1>1, <1>8, <1>9 DEF Stands, Rests

\* A batch that is not settled gets a snapshot, unsynced, or none.
LEMMA OpenSnapshot ==
  ASSUME EscrowInv, NEW b \in Batches, NEW r, SettledSound(b), settlements[b] = 0,
         PersistBatch(b, r) \/ UNCHANGED storeVars, TrueOutcome(live'[b])
  PROVE  /\ SettledSound(b)' /\ Final(b)
         /\ \A c \in Batches \ {b} : StoreKeeps(c)
         /\ \A s \in survivors' :
              s.batch[b] = r \/ \E t \in survivors : s.batch[b] = t.batch[b]
<1>1. b \notin db.settled
  BY NotSettledYet
<1>2. CASE UNCHANGED storeVars
  <2>1. \A c \in Batches : StoreKeeps(c)
    BY <1>2, AccountWriteKeeps
  <2> QED
    BY <1>1, <2>1, SettledKept DEF StoreKeeps
<1>3. CASE PersistBatch(b, r)
  <2>1. /\ \A c \in Batches \ {b} : StoreKeeps(c)
        /\ db'.batch[b] = r /\ db'.settled = db.settled /\ db'.owed = db.owed
        /\ \A s \in survivors' :
             \/ s \in survivors
             \/ s.batch[b] = r /\ s.owed = db.owed
    BY <1>3, SnapshotKeeps
  <2>2. TrueOutcome(live[b])'
    BY DEF TrueOutcome
  <2>3. SettledSound(b)'
    BY <1>1, <2>1, <2>2 DEF SettledSound
  <2> QED
    BY <1>1, <2>1, <2>3 DEF Final
<1> QED
  BY <1>2, <1>3

\* Storing a new batch.
LEMMA AcceptStands ==
  ASSUME StandInv, NEW b \in Batches, NEW q \in [Slots(b) -> Quotes], Accept(b, q)
  PROVE  Stands(b) /\ \A c \in Batches \ {b} : Rests(c)
<1> DEFINE r == NewRecord(b, q)
<1>1. /\ pc[b] = "funded" /\ pc' = [pc EXCEPT ![b] = "inserting"]
      /\ live' = [live EXCEPT ![b] = r] /\ price' = price
      /\ taken' = taken /\ returned' = returned /\ settlements' = settlements
      /\ PersistBatch(b, r) \/ UNCHANGED storeVars
  BY DEF Accept, Goto, historyVars
<1>2. r # NoBatch /\ ~IsTerminal(r)
  BY NewRecordSound
<1> HIDE DEF r
<1>3. EscrowInv /\ MemoryTypes /\ ControlSound(b) /\ SettledSound(b) /\ PaidExactly(b)
  BY DEF StandInv, EscrowInv, TypeOK, BatchInv
<1>4. /\ settlements[b] = 0 /\ \A s \in survivors : s.batch[b] = NoBatch
      /\ pc'[b] = "inserting" /\ live'[b] = r
  BY <1>1, <1>3 DEF ControlSound, BeforeAccept, MemoryTypes
<1>5. TrueOutcome(live'[b])
  BY <1>2, <1>4 DEF TrueOutcome
<1>6. /\ SettledSound(b)' /\ Final(b)
      /\ \A c \in Batches \ {b} : StoreKeeps(c)
      /\ \A s \in survivors' :
           s.batch[b] = r \/ \E t \in survivors : s.batch[b] = t.batch[b]
  BY <1>1, <1>3, <1>4, <1>5, OpenSnapshot
<1>7. PaidExactly(b)'
  BY <1>1, <1>3, <1>4, <1>6 DEF PaidExactly
<1>8. \A c \in Batches \ {b} : Rests(c)
  BY <1>1, <1>3, <1>6 DEF Rests, MemoryTypes
<1> QED
  BY <1>6, <1>7, <1>8 DEF Stands

\* The task edits a record and keeps its escrow.
LEMMA RecordEditStands ==
  ASSUME StandInv, NEW b \in Batches, NEW r,
         UNCHANGED <<storeVars, pc, price, historyVars>>,
         settlements[b] = 0, live[b] # NoBatch,
         live' = [live EXCEPT ![b] = r], r.paid = live[b].paid, TrueOutcome(r)
  PROVE  Stands(b) /\ \A c \in Batches \ {b} : Rests(c)
<1>1. /\ db' = db /\ survivors' = survivors /\ pc' = pc /\ price' = price
      /\ taken' = taken /\ returned' = returned /\ settlements' = settlements
  BY DEF storeVars, historyVars
<1>2. EscrowInv /\ MemoryTypes /\ SettledSound(b) /\ PaidExactly(b)
  BY DEF StandInv, EscrowInv, TypeOK
<1>3. live'[b] = r
  BY <1>2 DEF MemoryTypes
<1>4. \A c \in Batches : StoreKeeps(c)
  BY <1>2, AccountWriteKeeps
<1>5. SettledSound(b)' /\ Final(b)
  BY <1>2, <1>3, <1>4, NotSettledYet, SettledKept
<1>6. PaidExactly(b)'
  BY <1>1, <1>2, <1>3 DEF PaidExactly
<1>7. \A c \in Batches \ {b} : Rests(c)
  BY <1>1, <1>2, <1>4 DEF Rests, MemoryTypes
<1> QED
  BY <1>5, <1>6, <1>7 DEF Stands

\* The outcome of a finalized record is that of its slots.
LEMMA FinalizedOutcome ==
  ASSUME NEW b \in Batches, NEW r \in BatchRecord(b)
  PROVE  TrueOutcome(Finalized(b, r))
<1> DEFINE f == Finalized(b, r)
<1>1. f.status = Outcome(r) /\ f.slots = r.slots
  BY DEF Finalized, BatchRecord
<1> HIDE DEF f
<1>2. Outcome(f) = Outcome(r)
  BY <1>1 DEF Outcome, DoneSlots
<1> QED
  BY <1>1, <1>2 DEF TrueOutcome, f

LEMMA ReconciledOutcome ==
  ASSUME NEW b \in Batches, NEW r \in BatchRecord(b)
  PROVE  TrueOutcome(Reconciled(b, r))
<1> DEFINE sl == [i \in Slots(b) |-> IF r.slots[i] = "done" THEN "done" ELSE "errored"]
           t == [r EXCEPT !.slots = sl]
<1>1. sl \in [Slots(b) -> SlotState]
  BY DEF SlotState, TerminalSlot
<1>2. t \in BatchRecord(b)
  BY <1>1 DEF BatchRecord
<1> QED
  BY <1>2, FinalizedOutcome DEF Reconciled

\* The steps of a task before it settles.
LEMMA TaskStands ==
  ASSUME StandInv, NEW b \in Batches,
         \/ StartTask(b)
         \/ \E i \in Slots(b) : Dispatch(b, i)
         \/ \E i \in Slots(b), outcome \in TerminalSlot : FinishSlot(b, i, outcome)
         \/ Finalize(b)
         \/ Checkpoint(b)
         \/ SettleFails(b)
  PROVE  Stands(b) /\ \A c \in Batches \ {b} : Rests(c)
<1>1. /\ pc' = pc /\ price' = price /\ task[b] \in TaskPc \ {"none", "finished"}
      /\ UNCHANGED historyVars
      /\ task[b] = "settling" => SettleFails(b)
  BY DEF StartTask, Dispatch, FinishSlot, Finalize, Checkpoint, SettleFails, Step, TaskPc
<1>2. /\ EscrowInv /\ MemoryTypes /\ ControlSound(b) /\ RecordSound(b, live[b])
      /\ SettledSound(b) /\ PaidExactly(b)
  BY DEF StandInv, EscrowInv, TypeOK, BatchInv, RecordsSound
<1> DEFINE x == live[b]
<1>3. x \in BatchRecord(b) /\ x # NoBatch /\ settlements[b] = 0
      /\ (IsTerminal(x) => task[b] = "settling")
  BY <1>1, <1>2 DEF MemoryTypes, IsRecord, ControlSound
<1>4. /\ taken' = taken /\ returned' = returned /\ settlements' = settlements
  BY <1>1 DEF historyVars
<1>5. CASE \/ StartTask(b)
           \/ \E i \in Slots(b) : Dispatch(b, i)
           \/ \E i \in Slots(b), outcome \in TerminalSlot : FinishSlot(b, i, outcome)
  <2>1. UNCHANGED storeVars /\ task[b] # "settling"
    BY <1>5 DEF StartTask, Dispatch, FinishSlot, Step
  <2>2. PICK r : live' = [live EXCEPT ![b] = r]
                 /\ \/ r = [x EXCEPT !.status = "running"]
                    \/ \E i \in Slots(b), o \in SlotState : r = [x EXCEPT !.slots[i] = o]
    BY <1>5 DEF StartTask, Dispatch, FinishSlot, SlotState, Step
  <2>3. r.paid = x.paid /\ (r.status = x.status \/ r.status = "running")
    BY <1>3, <2>2 DEF BatchRecord
  <2>4. TrueOutcome(r)
    BY <1>3, <2>1, <2>3 DEF IsTerminal, TerminalStatus, TrueOutcome
  <2> HIDE DEF x
  <2> QED
    BY <1>1, <1>3, <2>1, <2>2, <2>3, <2>4, RecordEditStands DEF x
<1>6. CASE Finalize(b)
  <2> DEFINE r == Finalized(b, x)
  <2>1. UNCHANGED storeVars /\ live' = [live EXCEPT ![b] = r]
    BY <1>6 DEF Finalize
  <2>2. r.paid = x.paid
    BY <1>3 DEF Finalized, BatchRecord
  <2>3. TrueOutcome(r)
    BY <1>3, FinalizedOutcome
  <2> HIDE DEF x, r
  <2> QED
    BY <1>1, <1>3, <2>1, <2>2, <2>3, RecordEditStands DEF x
<1>7. CASE Checkpoint(b) \/ SettleFails(b)
  <2>1. live' = live /\ (PersistBatch(b, x) \/ UNCHANGED storeVars)
    BY <1>7 DEF Checkpoint, SettleFails
  <2>2. TrueOutcome(live'[b])
    BY <1>2, <2>1 DEF SettledSound
  <2>3. /\ SettledSound(b)' /\ Final(b)
        /\ \A c \in Batches \ {b} : StoreKeeps(c)
        /\ \A s \in survivors' :
             s.batch[b] = x \/ \E t \in survivors : s.batch[b] = t.batch[b]
    <3> HIDE DEF x
    <3> QED
      BY <1>2, <1>3, <2>1, <2>2, OpenSnapshot
  <2>4. PaidExactly(b)'
    BY <1>1, <1>2, <1>3, <1>4, <2>1, <2>3 DEF PaidExactly
  <2>5. \A c \in Batches \ {b} : Rests(c)
    BY <1>1, <1>4, <2>1, <2>3 DEF Rests
  <2> QED
    BY <2>3, <2>4, <2>5 DEF Stands
<1> QED
  BY <1>5, <1>6, <1>7

\* The first settlement of a batch in the durable store, by record r.
LEMMA FirstSettlement ==
  ASSUME EscrowInv, Durable, NEW b \in Batches, NEW r \in BatchRecord(b),
         SettledSound(b), PaidExactly(b), RecordSound(b, r), IsTerminal(r), TrueOutcome(r),
         settlements[b] = 0, pc[b] \in {"served", "charged", "unpaid", "dropped"},
         Payer[b] # NoKey /\ pc[b] = "charged" => taken[b] - returned[b] = r.paid,
         SettleDurably(b, r), pc' = pc, price' = price, taken' = taken, live'[b] = r
  PROVE  Stands(b) /\ \A c \in Batches \ {b} : StoreKeeps(c)
<1>1. b \notin db.settled
  BY NotSettledYet
<1>2. /\ \A c \in Batches \ {b} : StoreKeeps(c)
      /\ db'.batch[b] = r /\ b \in db'.settled /\ survivors' = {db'}
      /\ settlements'[b] = settlements[b] + 1
      /\ returned'[b] = returned[b] + (IF Payer[b] = NoKey THEN 0 ELSE r.refunded)
      /\ db'.owed[b] = IF r.refunded # 0 /\ Payer[b] = NoKey
                       THEN r.refunded ELSE db.owed[b]
  BY <1>1, SettleDurablyKeeps
<1>3. /\ r # NoBatch /\ r.paid \in Nat /\ r.released \in Nat /\ r.refunded \in Nat
      /\ r.released + r.refunded = r.paid /\ taken[b] \in Nat /\ returned[b] \in Nat
  BY RecordIsNotNoBatch, TerminalAccounts, Numbers DEF BatchRecord
<1>4. SettledSound(b)'
  <2>1. TrueOutcome(live[b])' /\ TrueOutcome(db.batch[b])'
    BY <1>2 DEF TrueOutcome
  <2>2. Payer[b] = NoKey => db'.owed[b] = r.refunded
    BY <1>1, <1>2 DEF SettledSound
  <2> QED
    BY <1>2, <1>3, <2>1, <2>2 DEF SettledSound
<1>5. PaidExactly(b)'
  <2> SUFFICES ASSUME Payer[b] # NoKey
               PROVE  PaidExactly(b)'
    BY DEF PaidExactly
  <2>1. returned'[b] = returned[b] + r.refunded /\ settlements'[b] = 1
    BY <1>2
  <2>2. SettledRecord(b)' = r /\ \A s \in survivors' : s.batch[b] = r
    BY <1>2 DEF SettledRecord
  <2>3. CASE pc[b] = "served"
    <3>1. returned[b] = 0 /\ taken[b] = price[b]
      BY <2>3 DEF PaidExactly
    <3>2. returned'[b] = r.refunded
      BY <1>3, <2>1, <3>1
    <3> QED
      BY <2>1, <2>2, <2>3, <3>1, <3>2 DEF PaidExactly
  <2>4. CASE pc[b] = "charged"
    <3>1. taken[b] - returned'[b] = r.released
      BY <1>3, <2>1, <2>4
    <3> QED
      BY <2>1, <2>2, <2>4, <3>1 DEF PaidExactly
  <2>5. CASE pc[b] \in {"unpaid", "dropped"}
    BY <2>5 DEF PaidExactly
  <2> QED
    BY <2>3, <2>4, <2>5
<1>6. Final(b)
  BY <1>1 DEF Final
<1> QED
  BY <1>2, <1>4, <1>5, <1>6 DEF Stands

\* settle_batch, in both stores.
LEMMA SettleBatchStands ==
  ASSUME StandInv, NEW b \in Batches, SettleBatch(b)
  PROVE  Stands(b) /\ \A c \in Batches \ {b} : Rests(c)
<1> DEFINE r == live[b]
<1>1. /\ task[b] = "settling" /\ pc' = pc /\ price' = price /\ live' = live
      /\ IF Durable THEN SettleDurably(b, r) ELSE SettleInMemory(b, r)
  BY DEF SettleBatch, Step
<1>2. /\ EscrowInv /\ MemoryTypes /\ HistoryTypes /\ IsStore(db) /\ ControlSound(b)
      /\ RecordSound(b, r) /\ SettledSound(b) /\ PaidExactly(b)
  BY DEF StandInv, EscrowInv, TypeOK, StoreTypes, BatchInv, RecordsSound
<1>3. /\ r \in BatchRecord(b) /\ r # NoBatch /\ IsTerminal(r) /\ TrueOutcome(r)
      /\ settlements[b] = 0 /\ pc[b] \in {"served", "charged", "unpaid", "dropped"}
  BY <1>1, <1>2 DEF MemoryTypes, IsRecord, ControlSound, TaskPc, RequestPc, BeforeAccept,
                    SettledSound
<1>4. Payer[b] # NoKey /\ pc[b] = "charged" => taken[b] - returned[b] = r.paid
  BY <1>2, <1>3 DEF PaidExactly
<1>5. CASE Durable
  <2>1. SettleDurably(b, r) /\ live'[b] = r
    BY <1>1, <1>5
  <2>2. /\ taken' = taken
        /\ \A c \in Batches \ {b} : returned'[c] = returned[c] /\ settlements'[c] = settlements[c]
    BY <1>2, <2>1 DEF SettleDurably, MarkBatchSettled, RecordRefundOwed, SettleBatchRefund,
                      CountSettlement, historyVars, HistoryTypes
  <2> HIDE DEF r
  <2>3. Stands(b) /\ \A c \in Batches \ {b} : StoreKeeps(c)
    BY <1>1, <1>2, <1>3, <1>4, <1>5, <2>1, <2>2, FirstSettlement
  <2> QED
    BY <1>1, <2>2, <2>3 DEF Rests
<1>6. CASE ~Durable
  <2>1. /\ taken' = taken /\ settlements' = [settlements EXCEPT ![b] = @ + 1]
        /\ IF r.refunded > 0 /\ Payer[b] # NoKey
           THEN RefundBalance(b, r.refunded)
           ELSE UNCHANGED <<storeVars, returned>>
    BY <1>1, <1>6 DEF SettleInMemory
  <2>2. /\ r.paid \in Nat /\ r.released \in Nat /\ r.refunded \in Nat
        /\ r.released + r.refunded = r.paid /\ taken[b] \in Nat /\ returned[b] \in Nat
    BY <1>2, <1>3, TerminalAccounts, Numbers DEF BatchRecord
  <2>3. /\ settlements'[b] = 1
        /\ \A c \in Batches \ {b} : settlements'[c] = settlements[c] /\ returned'[c] = returned[c]
    BY <1>2, <1>3, <2>1 DEF HistoryTypes, RefundBalance
  <2>4. \A c \in Batches : StoreKeeps(c)
    <3>1. CASE UNCHANGED storeVars
      BY <1>2, <3>1, AccountWriteKeeps
    <3>2. CASE Payer[b] # NoKey /\ RefundBalance(b, r.refunded)
      <4>1. Payer[b] \in Keys /\ db.bal[Payer[b]] + r.refunded \in Nat
        BY <1>2, <2>2, <3>2, BatchFacts DEF IsStore
      <4> QED
        BY <1>2, <3>2, <4>1, AccountWriteKeeps DEF RefundBalance
    <3> QED
      BY <2>1, <3>1, <3>2
  <2>5. Payer[b] # NoKey => returned'[b] = returned[b] + r.refunded
    BY <1>2, <2>1, <2>2 DEF RefundBalance, HistoryTypes
  <2>6. SettledSound(b)' /\ Final(b)
    BY <1>1, <1>2, <2>4, SettledKept
  <2>7. PaidExactly(b)'
    <3> SUFFICES ASSUME Payer[b] # NoKey
                 PROVE  PaidExactly(b)'
      BY DEF PaidExactly
    <3>1. SettledRecord(b)' = r
      BY <1>1, <1>6 DEF SettledRecord
    <3>2. CASE pc[b] = "served"
      <4>1. /\ returned[b] = 0 /\ taken[b] = price[b]
            /\ \A s \in survivors : s.batch[b] # NoBatch => s.batch[b].paid = r.paid
        BY <1>2, <1>3, <3>2 DEF PaidExactly
      <4>2. returned'[b] = r.refunded
        BY <2>2, <2>5, <4>1
      <4>3. \A s \in survivors' : s.batch[b] # NoBatch => s.batch[b].paid = r.paid
        BY <2>4, <4>1 DEF StoreKeeps
      <4> QED
        BY <1>1, <1>3, <2>1, <2>3, <3>2, <4>1, <4>2, <4>3 DEF PaidExactly
    <3>3. CASE pc[b] = "charged"
      <4>1. taken[b] - returned'[b] = r.released
        BY <1>4, <2>2, <2>5, <3>3
      <4> QED
        BY <1>1, <1>3, <2>1, <2>3, <3>1, <3>3, <4>1 DEF PaidExactly
    <3>4. CASE pc[b] \in {"unpaid", "dropped"}
      BY <1>1, <3>4 DEF PaidExactly
    <3> QED
      BY <1>3, <3>2, <3>3, <3>4
  <2> QED
    BY <1>1, <2>1, <2>3, <2>4, <2>6, <2>7 DEF Stands, Rests
<1> QED
  BY <1>5, <1>6

\* Recovery takes a settled batch as it is and settles an open one by what
\* its snapshot says.
LEMMA RecoverStands ==
  ASSUME StandInv, NEW b \in Batches, RecoverBatch(b) \/ RecoverBatchFails(b)
  PROVE  Stands(b) /\ \A c \in Batches \ {b} : Rests(c)
<1> DEFINE x == db.batch[b]
           rec == Reconciled(b, x)
<1>1. /\ phase = "recovering" /\ b \in todo /\ pc' = pc /\ price' = price
      /\ \/ /\ b \in db.settled /\ live' = [live EXCEPT ![b] = x]
            /\ UNCHANGED <<storeVars, historyVars>>
         \/ live' = [live EXCEPT ![b] = rec] /\ UNCHANGED <<storeVars, historyVars>>
         \/ live' = [live EXCEPT ![b] = rec] /\ SettleDurably(b, rec)
  BY DEF RecoverBatch, RecoverBatchFails
<1>2. /\ EscrowInv /\ MemoryTypes /\ HistoryTypes /\ ControlSound(b)
      /\ SettledSound(b) /\ PaidExactly(b)
  BY DEF StandInv, EscrowInv, TypeOK, BatchInv
<1>3. /\ Durable /\ x \in BatchRecord(b) /\ x # NoBatch /\ RecordSound(b, x)
      /\ x.paid = Total(x.quote, Size[b])
      /\ pc[b] \in {"charged", "unpaid", "dropped"} /\ db \in survivors
  BY <1>1, <1>2, Recovering
<1>4. /\ rec \in BatchRecord(b) /\ rec # NoBatch /\ RecordSound(b, rec) /\ IsTerminal(rec)
      /\ rec.paid = x.paid /\ TrueOutcome(rec)
  BY <1>3, ReconciledSound, ReconciledOutcome
<1>5. b \in db.settled => rec = x
  BY <1>2, <1>3, ReconciledAgain DEF SettledSound
<1>6. \A c \in Batches \ {b} : live'[c] = live[c]
  BY <1>1, <1>2 DEF MemoryTypes
<1>7. settlements[b] = (IF b \in db.settled THEN 1 ELSE 0)
  BY <1>2, <1>3 DEF ControlSound
<1> HIDE DEF rec, x
\* The store is not written.
<1>8. CASE UNCHANGED <<storeVars, historyVars>>
  <2>1. /\ db' = db /\ survivors' = survivors /\ taken' = taken
        /\ returned' = returned /\ settlements' = settlements
    BY <1>8 DEF storeVars, historyVars
  <2>2. \A c \in Batches : StoreKeeps(c)
    BY <1>2, <1>8, AccountWriteKeeps
  <2>3. \/ b \in db.settled /\ live'[b] = x
        \/ b \notin db.settled /\ live'[b] = rec
    BY <1>1, <1>2, <1>5 DEF MemoryTypes
  <2>4. SettledSound(b)' /\ Final(b)
    <3>1. CASE b \in db.settled /\ live'[b] = x
      <4>1. TrueOutcome(live[b])'
        BY <1>2, <3>1 DEF SettledSound, TrueOutcome, x
      <4> QED
        BY <1>2, <2>1, <3>1, <4>1 DEF SettledSound, Final, x, TrueOutcome
    <3>2. CASE b \notin db.settled /\ live'[b] = rec
      BY <1>2, <1>4, <2>2, <3>2, SettledKept
    <3> QED
      BY <2>3, <3>1, <3>2
  <2>5. PaidExactly(b)'
    BY <1>1, <1>2, <1>3, <1>4, <1>7, <2>1, <2>3 DEF PaidExactly, SettledRecord, x
  <2>6. \A c \in Batches \ {b} : Rests(c)
    BY <1>1, <1>6, <2>1, <2>2 DEF Rests
  <2> QED
    BY <2>4, <2>5, <2>6 DEF Stands
\* The batch is settled, for the first time or again.
<1>9. CASE live' = [live EXCEPT ![b] = rec] /\ SettleDurably(b, rec)
  <2>1. /\ taken' = taken /\ live'[b] = rec
        /\ \A c \in Batches \ {b} : returned'[c] = returned[c] /\ settlements'[c] = settlements[c]
    BY <1>2, <1>9 DEF SettleDurably, MarkBatchSettled, RecordRefundOwed, SettleBatchRefund,
                      CountSettlement, historyVars, HistoryTypes, MemoryTypes
  <2>2. CASE b \notin db.settled
    <3>1. Payer[b] # NoKey /\ pc[b] = "charged" => taken[b] - returned[b] = rec.paid
      BY <1>2, <1>3, <1>4, <1>7, <2>2 DEF PaidExactly, x
    <3>2. Stands(b) /\ \A c \in Batches \ {b} : StoreKeeps(c)
      BY <1>1, <1>2, <1>3, <1>4, <1>7, <1>9, <2>1, <2>2, <3>1, FirstSettlement
    <3> QED
      BY <1>1, <1>6, <2>1, <3>2 DEF Rests
  <2>3. CASE b \in db.settled
    <3>1. /\ \A c \in Batches \ {b} : StoreKeeps(c)
          /\ db'.batch[b] = rec /\ returned'[b] = returned[b] /\ b \in db'.settled
          /\ settlements'[b] = settlements[b]
          /\ db'.owed[b] = IF rec.refunded # 0 /\ Payer[b] = NoKey
                           THEN rec.refunded ELSE db.owed[b]
          /\ \A s \in survivors' :
               \/ s \in survivors /\ db'.owed = db.owed
               \/ s.batch[b] = rec /\ s.owed[b] = db'.owed[b]
      BY <1>2, <1>3, <1>4, <1>9, <2>3, SettleDurablyKeeps
    <3>2. rec = db.batch[b] /\ db'.owed[b] = db.owed[b]
      BY <1>2, <1>5, <2>3, <3>1 DEF SettledSound, x
    <3>3. \A s \in survivors' : s.batch[b] = db'.batch[b] /\ s.owed[b] = db'.owed[b]
      BY <1>2, <2>3, <3>1, <3>2 DEF SettledSound
    <3>4. SettledSound(b)' /\ Final(b)
      <4>1. TrueOutcome(live[b])' /\ TrueOutcome(db.batch[b])'
        BY <1>4, <2>1, <3>1 DEF TrueOutcome
      <4> QED
        BY <1>2, <1>4, <2>1, <2>3, <3>1, <3>2, <3>3, <4>1 DEF SettledSound, Final
    <3>5. PaidExactly(b)'
      <4>1. SettledRecord(b)' = SettledRecord(b)
        BY <1>3, <3>1, <3>2 DEF SettledRecord
      <4> QED
        BY <1>1, <1>2, <1>3, <1>7, <2>1, <2>3, <3>1, <4>1 DEF PaidExactly
    <3> QED
      BY <1>1, <1>6, <2>1, <3>1, <3>4, <3>5 DEF Stands, Rests
  <2> QED
    BY <2>2, <2>3
<1> QED
  BY <1>1, <1>8, <1>9 DEF rec, x

\* A crash or a power loss takes no settlement back.
LEMMA StopStands ==
  ASSUME StandInv, Crash \/ PowerLoss, NEW b \in Batches
  PROVE  Stands(b)
<1>1. /\ pc' = Interrupted /\ live' = [c \in Batches |-> NoBatch]
      /\ taken' = taken /\ returned' = returned /\ settlements' = settlements
  BY DEF Crash, PowerLoss, StopProcess, historyVars
<1>2. EscrowInv /\ StoresAgree /\ ControlSound(b) /\ SettledSound(b) /\ PaidExactly(b)
  BY DEF StandInv, EscrowInv, BatchInv
<1>3. db' \in survivors /\ survivors' \subseteq survivors /\ db \in survivors
  BY <1>2 DEF Crash, PowerLoss, LosePower, storeVars, StoresAgree
<1>4. db'.settled = db.settled /\ db'.owed[b] = db.owed[b]
  BY <1>2, <1>3 DEF StoresAgree, SettledSound
<1>5. b \in db.settled => db'.batch[b] = db.batch[b]
  BY <1>2, <1>3 DEF SettledSound
<1>6. /\ live'[b] = NoBatch
      /\ pc'[b] \in {"repaid", "charged"} => pc'[b] = pc[b]
      /\ pc'[b] \in Resting
  BY <1>1 DEF Interrupted, Resting
<1>7. SettledSound(b)' /\ Final(b)
  <2>1. TrueOutcome(live[b])'
    BY <1>6 DEF TrueOutcome
  <2>2. b \in db.settled => TrueOutcome(db.batch[b])'
    BY <1>2, <1>5 DEF SettledSound, TrueOutcome
  <2> QED
    BY <1>2, <1>3, <1>4, <1>5, <1>6, <2>1, <2>2 DEF SettledSound, Final
<1>8. PaidExactly(b)'
  <2>1. ~Durable => SettledRecord(b)' = NoBatch
    BY <1>6 DEF SettledRecord
  <2>2. Durable /\ settlements[b] = 1 => SettledRecord(b)' = SettledRecord(b)
    BY <1>2, <1>5 DEF SettledRecord, ControlSound
  <2> QED
    BY <1>1, <1>2, <1>3, <1>6, <2>1, <2>2, ConstantsAssumption DEF PaidExactly, Resting
<1> QED
  BY <1>7, <1>8 DEF Stands

LEMMA StandInit ==
  ASSUME Init
  PROVE  StandInv
<1>1. EscrowInv
  BY InitInv
<1>2. /\ db = EmptyStore /\ survivors = {EmptyStore}
      /\ EmptyStore.settled = {} /\ EmptyStore.owed = [b \in Batches |-> 0]
  BY DEF Init, EmptyStore
<1>3. ASSUME NEW b \in Batches
      PROVE  SettledSound(b) /\ PaidExactly(b)
  <2>1. live[b] = NoBatch /\ pc[b] = "new" /\ db.owed[b] = 0 /\ b \notin db.settled
    BY <1>2 DEF Init
  <2>2. SettledSound(b)
    BY <1>2, <2>1 DEF SettledSound, TrueOutcome
  <2>3. PaidExactly(b)
    BY <2>1 DEF PaidExactly
  <2> QED
    BY <2>2, <2>3
<1> QED
  BY <1>1, <1>3 DEF StandInv

\* Every step keeps the invariant and every settlement made.
LEMMA NextStands ==
  ASSUME StandInv, [Next]_vars
  PROVE  StandInv' /\ \A b \in Batches : Final(b)
<1>1. EscrowInv /\ EscrowInv' /\ IsStore(db)
  BY NextKeepsInv DEF StandInv, EscrowInv, TypeOK, StoreTypes
<1>2. ASSUME NEW b \in Batches, RequestStep(b)
      PROVE  StandInv' /\ \A c \in Batches : Final(c)
  <2>1. Stands(b) /\ \A c \in Batches \ {b} : Rests(c)
    BY <1>2, MiddlewareStands, DisconnectStands, LayerMoneyStands, AcceptStands DEF RequestStep
  <2> QED
    BY <1>1, <2>1, StepStands
<1>3. ASSUME NEW b \in Batches, TaskStep(b)
      PROVE  StandInv' /\ \A c \in Batches : Final(c)
  <2>1. Stands(b) /\ \A c \in Batches \ {b} : Rests(c)
    BY <1>3, TaskStands, SettleBatchStands DEF TaskStep
  <2> QED
    BY <1>1, <2>1, StepStands
<1>4. ASSUME NEW b \in Batches, RecoverBatch(b) \/ RecoverBatchFails(b)
      PROVE  StandInv' /\ \A c \in Batches : Final(c)
  <2>1. Stands(b) /\ \A c \in Batches \ {b} : Rests(c)
    BY <1>4, RecoverStands
  <2> QED
    BY <1>1, <2>1, StepStands
<1>5. CASE Crash \/ PowerLoss
  BY <1>1, <1>5, StopStands DEF StandInv, Stands
<1>6. ASSUME /\ UNCHANGED <<pc, price, live, historyVars>>
             /\ \/ UNCHANGED storeVars
                \/ \E k \in Keys : WriteSynced([db EXCEPT !.revoked = @ \cup {k}])
      PROVE  StandInv' /\ \A c \in Batches : Final(c)
  <2>1. \A c \in Batches : StoreKeeps(c)
    BY <1>1, <1>6, AccountWriteKeeps
  <2>2. \A c \in Batches : Rests(c)
    BY <1>6, <2>1 DEF Rests, historyVars
  <2>3. \A c \in Batches : Final(c)
    BY <2>1 DEF StoreKeeps, Final
  <2> QED
    BY <1>1, <2>2, <2>3, RestingStands DEF StandInv
<1>7. CASE Boot \/ Serve \/ (\E k \in Keys : Revoke(k)) \/ UNCHANGED vars
  BY <1>6, <1>7 DEF Boot, Serve, Revoke, vars, memVars
<1> QED
  BY <1>2, <1>3, <1>4, <1>5, <1>7 DEF Next, BootStep

LEMMA StandAlways == Spec => []StandInv
<1>1. Init => StandInv
  BY StandInit
<1>2. StandInv /\ [Next]_vars => StandInv'
  BY NextStands
<1> QED
  BY <1>1, <1>2, PTL DEF Spec

\* A settled batch has cost its key the quotes of its completed slots, polls
\* report what was settled, and an x402 payer is owed what the record says.
THEOREM SettlementsAlwaysStand == Spec => []SettlementsStand
<1>1. StandInv => SettlementsStand
  <2> SUFFICES ASSUME StandInv
               PROVE  SettlementsStand
    OBVIOUS
  <2>1. ReceiptBacked
    BY DEF StandInv, EscrowInv, TypeOK, StoreTypes, IsStore, SettledSound, ReceiptBacked
  <2>2. ASSUME NEW b \in Batches, Payer[b] # NoKey, pc[b] = "charged",
               settlements[b] > 0, SettledRecord(b) # NoBatch
        PROVE  taken[b] - returned[b]
                 = QuoteOf(b, SettledRecord(b), DoneSlots(SettledRecord(b)))
    <3> DEFINE r == SettledRecord(b)
    <3>1. BatchInv(b) /\ PaidExactly(b)
      BY DEF StandInv, EscrowInv
    <3>2. settlements[b] = 1
      BY <2>2, <3>1 DEF BatchInv, ControlSound
    <3>3. IsTerminal(r) /\ taken[b] - returned[b] = r.released
      BY <2>2, <3>1, <3>2 DEF PaidExactly
    <3>4. RecordSound(b, r)
      BY <3>1 DEF StandInv, EscrowInv, StoresAgree, BatchInv, RecordsSound, SettledRecord
    <3> HIDE DEF r
    <3>5. r.released = QuoteOf(b, r, DoneSlots(r))
      BY <2>2, <3>3, <3>4 DEF RecordSound, r
    <3> QED
      BY <3>3, <3>5 DEF r
  <2>3. BuyerPaysForDoneSlots
    BY <2>2 DEF BuyerPaysForDoneSlots, StandInv, PaidExactly
  <2> QED
    BY <2>1, <2>3 DEF SettlementsStand
<1> QED
  BY <1>1, StandAlways, PTL

\* No step, crash, power loss or repeated recovery takes a settlement back or
\* changes its outcome or its debt.
THEOREM SettlementsAreFinal == Spec => SettledIsFinal
<1>1. StandInv /\ [Next]_vars =>
        [\A b \in db.settled :
           /\ b \in db'.settled
           /\ db'.batch[b] = db.batch[b]
           /\ db'.owed[b] = db.owed[b]]_vars
  <2> SUFFICES ASSUME StandInv, [Next]_vars, NEW b \in db.settled
               PROVE  /\ b \in db'.settled
                      /\ db'.batch[b] = db.batch[b]
                      /\ db'.owed[b] = db.owed[b]
    OBVIOUS
  <2>1. b \in Batches
    BY DEF StandInv, EscrowInv, TypeOK, StoreTypes, IsStore
  <2> QED
    BY <2>1, NextStands DEF Final
<1> QED
  BY <1>1, StandAlways, PTL DEF Spec, SettledIsFinal

-----------------------------------------------------------------------------
(* No escrow is stranded.                                                  *)

\* With the durable store, when its calls succeed and the machine stays up.
Sheltered == Durable /\ ~StoreMayFail /\ ~PowerMayFail

\* A batch that was accepted has a snapshot, and until it is settled a task
\* works on it, or boot recovery has still to visit it.
InHand(b) ==
  /\ pc[b] \in {"inserting", "served", "charged"} => db.batch[b] # NoBatch
  /\ pc[b] \in {"served", "charged"} /\ settlements[b] = 0 =>
       /\ phase = "serving" => task[b] \notin {"none", "finished"}
       /\ phase = "recovering" => b \in todo

HandInv == StandInv /\ \A b \in Batches : InHand(b)

LEMMA RestingInHand ==
  ASSUME NEW c \in Batches, InHand(c), Rests(c), task'[c] = task[c], phase' = phase,
         c \in todo => c \in todo'
  PROVE  InHand(c)'
BY DEF InHand, Rests, StoreKeeps

\* A request's steps keep its snapshot; a new batch is handed to a task.
LEMMA RequestInHand ==
  ASSUME Sheltered, HandInv, NEW b \in Batches, RequestStep(b)
  PROVE  \A c \in Batches : InHand(c)'
<1>1. /\ StandInv /\ EscrowInv /\ MemoryTypes /\ IsStore(db) /\ InHand(b) /\ ControlSound(b)
  BY DEF HandInv, StandInv, EscrowInv, TypeOK, StoreTypes, BatchInv
<1>2. \A c \in Batches \ {b} : Rests(c)
  BY <1>1, MiddlewareStands, DisconnectStands, LayerMoneyStands, AcceptStands DEF RequestStep
<1>3. /\ phase = "serving" /\ phase' = phase /\ todo' = todo /\ settlements' = settlements
      /\ \/ task' = task
         \/ task' = [task EXCEPT ![b] = "submitted"] /\ Register(b)
      /\ pc'[b] = "served" => Register(b)
      /\ pc'[b] = "charged" => pc[b] = "served" /\ task' = task
      /\ pc'[b] = "inserting" => \E q \in [Slots(b) -> Quotes] : Accept(b, q)
  BY <1>1 DEF RequestStep, Authenticate, Debit, TurnAway, VerifyPayment, Reject, Accept, Register,
     RefundSurplus, RefundRejected, LayerRefundFails, SettlePayment, Disconnect, Goto,
     historyVars, MemoryTypes
<1>4. \A c \in Batches \ {b} : InHand(c)'
  <2>1. \A c \in Batches \ {b} : task'[c] = task[c]
    BY <1>1, <1>3 DEF MemoryTypes
  <2> QED
    BY <1>2, <1>3, <2>1, RestingInHand DEF HandInv
<1>5. ASSUME NEW q \in [Slots(b) -> Quotes], Accept(b, q)
      PROVE  InHand(b)'
  <2>1. PersistBatch(b, NewRecord(b, q)) /\ pc'[b] = "inserting"
    BY <1>1, <1>5 DEF Accept, Goto, Sheltered, MemoryTypes
  <2>2. db'.batch[b] # NoBatch
    BY <1>1, <2>1, SnapshotKeeps, NewRecordSound
  <2> QED
    BY <2>1, <2>2 DEF InHand
<1>6. ASSUME ~ \E q \in [Slots(b) -> Quotes] : Accept(b, q)
      PROVE  InHand(b)'
  <2>1. db' = db \/ (\E a : RefundBalance(b, a)) \/ (\E p : DebitBalance(b, p))
    BY <1>6 DEF RequestStep, Authenticate, Debit, TurnAway, VerifyPayment, Reject, Register,
       RefundSurplus, RefundRejected, LayerRefundFails, SettlePayment, Disconnect, storeVars
  <2>2. db'.batch = db.batch
    BY <1>1, <2>1 DEF RefundBalance, DebitBalance, WriteSynced, IsStore
  <2>3. pc'[b] = "served" => pc[b] = "inserting" /\ task'[b] = "submitted"
    BY <1>1, <1>3 DEF Register, Goto, MemoryTypes
  <2> QED
    BY <1>1, <1>3, <1>6, <2>2, <2>3 DEF InHand
<1> QED
  BY <1>4, <1>5, <1>6

\* A task lets go of its batch by settling it.
LEMMA TaskInHand ==
  ASSUME Sheltered, HandInv, NEW b \in Batches, TaskStep(b)
  PROVE  \A c \in Batches : InHand(c)'
<1>1. /\ StandInv /\ EscrowInv /\ MemoryTypes /\ IsStore(db) /\ InHand(b) /\ ControlSound(b)
  BY DEF HandInv, StandInv, EscrowInv, TypeOK, StoreTypes, BatchInv
<1>2. \A c \in Batches \ {b} : Rests(c)
  BY <1>1, TaskStands, SettleBatchStands DEF TaskStep
<1>3. /\ phase = "serving" /\ phase' = phase /\ todo' = todo /\ pc' = pc
      /\ task[b] \in TaskPc \ {"none", "finished"}
      /\ \A c \in Batches \ {b} : task'[c] = task[c]
      /\ task'[b] \in {"none", "finished"} => SettleBatch(b)
  BY <1>1 DEF TaskStep, StartTask, Dispatch, FinishSlot, Finalize, Checkpoint, SettleBatch,
     SettleFails, Step, Sheltered, MemoryTypes, TaskPc
<1>4. \A c \in Batches \ {b} : InHand(c)'
  BY <1>2, <1>3, RestingInHand DEF HandInv
<1>5. live[b] # NoBatch /\ live[b] \in BatchRecord(b) /\ settlements[b] = 0
  BY <1>1, <1>3 DEF ControlSound, MemoryTypes, IsRecord
<1>6. CASE SettleBatch(b)
  <2>1. SettleDurably(b, live[b]) /\ b \notin db.settled
    BY <1>1, <1>5, <1>6, NotSettledYet DEF SettleBatch, Sheltered
  <2>2. db'.batch[b] = live[b] /\ settlements'[b] = settlements[b] + 1
    BY <1>1, <1>5, <2>1, SettleDurablyKeeps DEF Sheltered
  <2>3. InHand(b)'
    BY <1>3, <1>5, <2>2 DEF InHand
  <2> QED
    BY <1>4, <2>3
<1>7. CASE ~SettleBatch(b)
  <2>1. settlements' = settlements /\ (db' = db \/ PersistBatch(b, live[b]))
    BY <1>7 DEF TaskStep, StartTask, Dispatch, FinishSlot, Finalize, Checkpoint, SettleFails,
                storeVars, historyVars
  <2>2. db'.batch[b] # NoBatch \/ db'.batch[b] = db.batch[b]
    BY <1>1, <1>5, <2>1, SnapshotKeeps
  <2>3. InHand(b)'
    BY <1>1, <1>3, <1>7, <2>1, <2>2 DEF InHand
  <2> QED
    BY <1>4, <2>3
<1> QED
  BY <1>6, <1>7

\* A stopped gateway finds every open batch among its snapshots and serves
\* only after it has settled them.
LEMMA BootInHand ==
  ASSUME Sheltered, HandInv,
         BootStep \/ Crash \/ PowerLoss \/ (\E k \in Keys : Revoke(k)) \/ UNCHANGED vars
  PROVE  \A c \in Batches : InHand(c)'
<1>1. StandInv /\ EscrowInv /\ MemoryTypes /\ IsStore(db) /\ \A c \in Batches : InHand(c)
  BY DEF HandInv, StandInv, EscrowInv, TypeOK, StoreTypes
<1>2. CASE Crash \/ PowerLoss
  <2>1. /\ db' = db /\ settlements' = settlements /\ phase' = "down" /\ pc' = Interrupted
    BY <1>2 DEF Crash, PowerLoss, StopProcess, Sheltered, storeVars, historyVars
  <2>2. \A c \in Batches : pc'[c] = "charged" => pc[c] = "charged"
    BY <2>1 DEF Interrupted
  <2>3. \A c \in Batches : pc'[c] \notin {"inserting", "served"}
    BY <2>1 DEF Interrupted
  <2> QED
    BY <1>1, <2>1, <2>2, <2>3 DEF InHand
<1>3. CASE Boot
  <2>1. /\ db' = db /\ pc' = pc /\ settlements' = settlements /\ phase' = "recovering"
        /\ todo' = {c \in Batches : db.batch[c] # NoBatch}
    BY <1>3 DEF Boot, Sheltered, storeVars, historyVars
  <2> QED
    BY <1>1, <2>1 DEF InHand
<1>4. CASE Serve
  <2>1. /\ db' = db /\ pc' = pc /\ settlements' = settlements /\ phase = "recovering"
        /\ todo = {}
    BY <1>4 DEF Serve, storeVars, historyVars
  <2> QED
    BY <1>1, <2>1 DEF InHand
<1>5. ASSUME NEW b \in Batches, RecoverBatch(b) \/ RecoverBatchFails(b)
      PROVE  \A c \in Batches : InHand(c)'
  <2>1. /\ phase = "recovering" /\ phase' = phase /\ b \in todo /\ todo' = todo \ {b}
        /\ pc' = pc /\ task' = task
        /\ \/ b \in db.settled /\ UNCHANGED <<storeVars, historyVars>>
           \/ b \notin db.settled /\ SettleDurably(b, Reconciled(b, db.batch[b]))
    BY <1>5 DEF RecoverBatch, RecoverBatchFails, Sheltered
  <2>2. \A c \in Batches \ {b} : Rests(c)
    BY <1>1, <1>5, RecoverStands
  <2>3. \A c \in Batches \ {b} : InHand(c)'
    BY <1>1, <2>1, <2>2, RestingInHand
  <2>4. /\ ControlSound(b) /\ db.batch[b] \in BatchRecord(b) /\ db.batch[b] # NoBatch
        /\ db.batch[b].paid = Total(db.batch[b].quote, Size[b])
    BY <1>1, <2>1, Recovering DEF EscrowInv, BatchInv
  <2>5. settlements'[b] # 0 /\ db'.batch[b] # NoBatch
    <3>1. CASE b \in db.settled /\ UNCHANGED <<storeVars, historyVars>>
      BY <2>4, <3>1 DEF storeVars, historyVars, ControlSound, Sheltered
    <3>2. CASE b \notin db.settled /\ SettleDurably(b, Reconciled(b, db.batch[b]))
      <4> DEFINE rec == Reconciled(b, db.batch[b])
      <4>1. rec \in BatchRecord(b) /\ rec # NoBatch
        BY <2>4, ReconciledSound
      <4> HIDE DEF rec
      <4>2. db'.batch[b] = rec /\ settlements'[b] = settlements[b] + 1
        BY <1>1, <3>2, <4>1, SettleDurablyKeeps DEF Sheltered, rec
      <4>3. settlements[b] \in {0, 1}
        BY <2>4 DEF ControlSound
      <4> QED
        BY <4>1, <4>2, <4>3
    <3> QED
      BY <2>1, <3>1, <3>2
  <2>6. InHand(b)'
    BY <2>5 DEF InHand
  <2> QED
    BY <2>3, <2>6
<1>6. CASE (\E k \in Keys : Revoke(k)) \/ UNCHANGED vars
  <2>1. /\ pc' = pc /\ task' = task /\ phase' = phase /\ todo' = todo
        /\ settlements' = settlements
    BY <1>6 DEF Revoke, vars, memVars, historyVars
  <2>2. db'.batch = db.batch
    BY <1>1, <1>6 DEF Revoke, WriteSynced, IsStore, vars, storeVars
  <2> QED
    BY <1>1, <2>1, <2>2 DEF InHand
<1> QED
  BY <1>2, <1>3, <1>4, <1>5, <1>6 DEF BootStep

\* A crash of the process, even one during the recovery from another, never
\* strands an escrow: once the gateway serves again, every batch that was
\* answered with a 200 is settled or in the hands of its task.
THEOREM NeverStranded ==
  ASSUME Sheltered
  PROVE  Spec => []EscrowNeverStranded
<1>1. Init => HandInv
  <2> SUFFICES ASSUME Init
               PROVE  HandInv
    OBVIOUS
  <2>1. \A b \in Batches : InHand(b)
    BY DEF Init, InHand
  <2> QED
    BY <2>1, StandInit DEF HandInv
<1>2. HandInv /\ [Next]_vars => HandInv'
  <2> SUFFICES ASSUME HandInv, [Next]_vars
               PROVE  HandInv'
    OBVIOUS
  <2>1. StandInv'
    BY NextStands DEF HandInv
  <2>2. \A c \in Batches : InHand(c)'
    BY RequestInHand, TaskInHand, BootInHand DEF Next
  <2> QED
    BY <2>1, <2>2 DEF HandInv
<1>3. HandInv => EscrowNeverStranded
  <2> SUFFICES ASSUME HandInv, NEW b \in Batches,
                      pc[b] = "charged", phase = "serving", task[b] = "none"
               PROVE  settlements[b] = 1
    BY DEF EscrowNeverStranded
  <2>1. InHand(b) /\ settlements[b] \in {0, 1}
    BY DEF HandInv, StandInv, EscrowInv, BatchInv, ControlSound
  <2> QED
    BY <2>1 DEF InHand
<1> QED
  BY <1>1, <1>2, <1>3, PTL DEF Spec
=============================================================================
