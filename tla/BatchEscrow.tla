---------------------------- MODULE BatchEscrow ----------------------------
(***************************************************************************)
(* The escrow of batch inference: POST /v1/batch from the debit of the     *)
(* payer's key to the settlement of the batch, across client disconnects,  *)
(* failing store writes, process crashes, power loss and boot recovery.    *)
(*                                                                         *)
(*   auth.rs      ApiKeyService::call debits the key, calls the handler    *)
(*                and refunds what the handler did not charge              *)
(*   batch.rs     submit_batch_handler quotes and stores the batch,        *)
(*                process_batch runs its slots one by one and settles,     *)
(*                BatchStore::recover settles at boot what a crash left    *)
(*   keystore.rs  debit_balance, refund_balance, persist_batch,            *)
(*                settle_batch_refund, record_refund_owed,                 *)
(*                mark_batch_settled                                       *)
(*   layer.rs     X402Service::call, for the payers without a key          *)
(*                                                                         *)
(* A batch is identified by the number of the request that submits it.     *)
(* Amounts are naturals: a quote total that overflows U256 is one of the   *)
(* reasons of Reject, and NoCreditBeyondDebit keeps every saturating_add   *)
(* of a refund away from its limit.                                        *)
(***************************************************************************)
EXTENDS Totals, RocksStore

CONSTANTS
  Keys,          \* prepaid API keys
  NoKey,         \* the payer of a batch that is paid through x402
  NumBatches,    \* requests 1..NumBatches may submit a batch each
  Payer,         \* Payer[b]: the key behind request b, or NoKey
  Size,          \* Size[b]: the number of slots of batch b
  Deposit,       \* Deposit[k]: the balance key k starts with
  Prices,        \* what the pricing strategy may ask for a request
  Quotes,        \* what the handler may quote for a slot
  Durable,       \* BatchStore::with_persistence (TRUE) or ::new (FALSE)
  StoreMayFail,  \* store calls may return an error
  PowerMayFail,  \* the machine, not only the process, may stop
  MaxCrashes     \* bound: crashes and power losses in a behaviour

Batches == 1..NumBatches
Slots(b) == 1..Size[b]

ASSUME ConstantsAssumption ==
  /\ NumBatches \in Nat
  /\ NoKey \notin Keys
  /\ Payer \in [Batches -> Keys \cup {NoKey}]
  /\ Size \in [Batches -> Nat \ {0}]
  /\ Deposit \in [Keys -> Nat]
  /\ Prices \subseteq Nat
  /\ Quotes \subseteq Nat
  /\ Durable \in BOOLEAN
  /\ StoreMayFail \in BOOLEAN
  /\ PowerMayFail \in BOOLEAN
  /\ MaxCrashes \in Nat

VARIABLES
  phase,        \* "down", "recovering" or "serving"
  crashes,      \* crashes so far
  pc,           \* where request b stands in the middleware stack
  seen,         \* balance that ApiKeyService read before pricing
  price,        \* amount debited up front (key) or signed for (x402)
  live,         \* BatchStore.batches: the in-memory batch records
  task,         \* where the processor task of a batch stands
  todo,         \* persisted batches that boot recovery has still to visit
  taken,        \* history: grains debited from Payer[b] for request b
  returned,     \* history: grains credited back to Payer[b] for request b
  settlements   \* history: settlements of batch b that took effect

memVars == <<phase, crashes, pc, seen, price, live, task, todo>>
historyVars == <<taken, returned, settlements>>
vars == <<storeVars, memVars, historyVars>>

-----------------------------------------------------------------------------
(* Batch records, in memory and as persisted snapshots.                    *)

NoBatch == [status |-> "none"]

\* RequestStatus and BatchStatus.
TerminalSlot == {"done", "errored"}
TerminalStatus == {"completed", "partial_failure", "failed"}
IsTerminal(r) == r.status \in TerminalStatus

DoneSlots(r) == {i \in DOMAIN r.slots : r.slots[i] = "done"}
ErroredSlots(r) == {i \in DOMAIN r.slots : r.slots[i] = "errored"}
OpenSlots(r) == DOMAIN r.slots \ (DoneSlots(r) \cup ErroredSlots(r))

\* The quotes of the slots in S, added up.
QuoteOf(b, r, S) == Total(Only(r.quote, Size[b], S), Size[b])

\* The record submit_batch_handler builds: the escrow is the quoted total.
NewRecord(b, q) ==
  [status   |-> "submitted",
   slots    |-> [i \in Slots(b) |-> "pending"],
   quote    |-> q,
   paid     |-> Total(q, Size[b]),
   released |-> 0,
   refunded |-> 0]

\* The outcome of a batch, from its slots.
Outcome(r) ==
  IF DoneSlots(r) = DOMAIN r.slots THEN "completed"
  ELSE IF DoneSlots(r) = {} THEN "failed"
  ELSE "partial_failure"

\* split_quoted_escrow and the terminal status, at the end of process_batch.
Finalized(b, r) ==
  [r EXCEPT !.status = Outcome(r),
            !.released = QuoteOf(b, r, DoneSlots(r)),
            !.refunded = QuoteOf(b, r, ErroredSlots(r))]

\* Mutant: slots that were in flight are neither released nor refunded.
ReconciledDoneOnly(b, r) == Finalized(b, r)

\* Boot recovery: what is not done is errored and refunded.
Reconciled(b, r) ==
  Finalized(b, [r EXCEPT !.slots =
    [i \in Slots(b) |-> IF r.slots[i] = "done" THEN "done" ELSE "errored"]])

-----------------------------------------------------------------------------
(* Operations of PersistentKeyStore and ApiKeyStore.                       *)

\* Mutant: a revocation that raced the request is not noticed.
DebitRevoked(b, amount) ==
  /\ amount <= db.bal[Payer[b]]
  /\ WriteSynced([db EXCEPT !.bal[Payer[b]] = @ - amount])
  /\ taken' = [taken EXCEPT ![b] = @ + amount]

\* debit_balance: check and deduct under the key's lock, synced.
DebitBalance(b, amount) ==
  LET k == Payer[b] IN
  /\ k \notin db.revoked
  /\ amount <= db.bal[k]
  /\ WriteSynced([db EXCEPT !.bal[k] = @ - amount])
  /\ taken' = [taken EXCEPT ![b] = @ + amount]

\* Mutant: the refund is written with default options.
RefundUnsynced(b, amount) ==
  /\ WriteUnsynced([db EXCEPT !.bal[Payer[b]] = @ + amount])
  /\ returned' = [returned EXCEPT ![b] = @ + amount]

\* refund_balance: synced, and blind to revocation.
RefundBalance(b, amount) ==
  /\ WriteSynced([db EXCEPT !.bal[Payer[b]] = @ + amount])
  /\ returned' = [returned EXCEPT ![b] = @ + amount]

\* persist_batch: the snapshot is written unsynced.
PersistBatch(b, r) == WriteUnsynced([db EXCEPT !.batch[b] = r])

\* settle_batch_refund: credit, terminal snapshot and marker in one synced
\* write; with the marker already there only the snapshot is refreshed.
SettleBatchRefund(b, r) ==
  IF b \in db.settled
  THEN /\ PersistBatch(b, r)
       /\ UNCHANGED historyVars
  ELSE /\ WriteSynced([db EXCEPT !.bal[Payer[b]] = @ + r.refunded,
                                 !.batch[b] = r,
                                 !.settled = @ \cup {b}])
       /\ returned' = [returned EXCEPT ![b] = @ + r.refunded]
       /\ settlements' = [settlements EXCEPT ![b] = @ + 1]
       /\ UNCHANGED taken

\* A marker that is written again settles nothing anew.
CountSettlement(b) ==
  settlements' = [settlements EXCEPT ![b] = IF b \in db.settled THEN @ ELSE @ + 1]

\* record_refund_owed: the debt to an x402 payer, the snapshot, the marker.
RecordRefundOwed(b, r) ==
  /\ WriteSynced([db EXCEPT !.batch[b] = r,
                            !.settled = @ \cup {b},
                            !.owed[b] = r.refunded])
  /\ CountSettlement(b)
  /\ UNCHANGED <<taken, returned>>

\* mark_batch_settled: nothing is owed.
MarkBatchSettled(b, r) ==
  /\ WriteSynced([db EXCEPT !.batch[b] = r, !.settled = @ \cup {b}])
  /\ CountSettlement(b)
  /\ UNCHANGED <<taken, returned>>

\* The three-way choice settle_batch and recover share.
SettleDurably(b, r) ==
  IF r.refunded = 0 THEN MarkBatchSettled(b, r)
  ELSE IF Payer[b] = NoKey THEN RecordRefundOwed(b, r)
  ELSE SettleBatchRefund(b, r)

\* settle_batch without a durable batch store: the only refund that can be
\* paid is a credit of the key; an x402 payer's refund is only logged.
SettleInMemory(b, r) ==
  /\ IF r.refunded > 0 /\ Payer[b] # NoKey
     THEN RefundBalance(b, r.refunded)
     ELSE UNCHANGED <<storeVars, returned>>
  /\ settlements' = [settlements EXCEPT ![b] = @ + 1]
  /\ UNCHANGED taken

-----------------------------------------------------------------------------
(* The middleware and the handler.                                         *)

Goto(b, from, to) ==
  /\ phase = "serving"
  /\ pc[b] = from
  /\ pc' = [pc EXCEPT ![b] = to]

\* ApiKeyService looks the key up: 401 if it is revoked, or not found
\* because the read failed.
Authenticate(b) ==
  /\ Payer[b] # NoKey
  /\ \/ /\ Payer[b] \in db.revoked \/ StoreMayFail
        /\ Goto(b, "new", "refused")
        /\ UNCHANGED seen
     \/ /\ Payer[b] \notin db.revoked
        /\ Goto(b, "new", "authed")
        /\ seen' = [seen EXCEPT ![b] = db.bal[Payer[b]]]
  /\ UNCHANGED <<storeVars, phase, crashes, price, live, task, todo, historyVars>>

\* The request is priced; a balance that was sufficient when it was read is
\* debited, if it still is.
Debit(b, p) ==
  /\ Goto(b, "authed", "funded")
  /\ p <= seen[b]
  /\ DebitBalance(b, p)
  /\ price' = [price EXCEPT ![b] = p]
  /\ UNCHANGED <<phase, crashes, seen, live, task, todo, returned, settlements>>

\* No debit: unreadable body, no price, too small a balance, a debit that
\* failed.  The request leaves through the x402 challenge or a 400.
TurnAway(b) ==
  /\ Goto(b, "authed", "refused")
  /\ UNCHANGED <<storeVars, phase, crashes, seen, price, live, task, todo,
                 historyVars>>

\* X402Service verified a signed authorization of p; nothing moves yet.
VerifyPayment(b, p) ==
  /\ Payer[b] = NoKey
  /\ Goto(b, "new", "funded")
  /\ price' = [price EXCEPT ![b] = p]
  /\ UNCHANGED <<storeVars, phase, crashes, seen, live, task, todo, historyVars>>

\* submit_batch_handler refuses: invalid request, no quote, quote overflow,
\* or a quote above what was paid.
Reject(b) ==
  /\ Goto(b, "funded", "rejected")
  /\ UNCHANGED <<storeVars, phase, crashes, seen, price, live, task, todo,
                 historyVars>>

\* Mutant: insert leaves the first snapshot to the first checkpoint.
AcceptInMemory(b, q) ==
  /\ Goto(b, "funded", "inserting")
  /\ Total(q, Size[b]) <= price[b]
  /\ live' = [live EXCEPT ![b] = NewRecord(b, q)]
  /\ UNCHANGED <<storeVars, phase, crashes, seen, price, task, todo, historyVars>>

\* submit_batch_handler accepts and BatchStore::insert writes the snapshot
\* through, ignoring an error.  Until Register the record is the handler's.
Accept(b, q) ==
  /\ Goto(b, "funded", "inserting")
  /\ Total(q, Size[b]) <= price[b]
  /\ live' = [live EXCEPT ![b] = NewRecord(b, q)]
  /\ \/ Durable /\ PersistBatch(b, NewRecord(b, q))
     \/ (~Durable \/ StoreMayFail) /\ UNCHANGED storeVars
  /\ UNCHANGED <<phase, crashes, seen, price, task, todo, historyVars>>

\* The record enters the map, the processor is spawned, 200 is returned.
Register(b) ==
  /\ Goto(b, "inserting", "served")
  /\ task' = [task EXCEPT ![b] = "submitted"]
  /\ UNCHANGED <<storeVars, phase, crashes, seen, price, live, todo, historyVars>>

\* Mutant: the charge is ignored and the over-estimate kept.
KeepSurplus(b) ==
  /\ Payer[b] # NoKey
  /\ Goto(b, "served", "charged")
  /\ UNCHANGED <<storeVars, phase, crashes, seen, price, live, task, todo, historyVars>>

\* Mutant: a success is refunded like a rejection.
RefundEverything(b) ==
  /\ Payer[b] # NoKey
  /\ Goto(b, "served", "charged")
  /\ RefundBalance(b, price[b])
  /\ UNCHANGED <<phase, crashes, seen, price, live, task, todo, taken, settlements>>

\* settle_api_key_response after a success: what was debited beyond the
\* charge (the escrow) is returned.
RefundSurplus(b) ==
  /\ Payer[b] # NoKey
  /\ Goto(b, "served", "charged")
  /\ IF live[b].paid < price[b]
     THEN RefundBalance(b, price[b] - live[b].paid)
     ELSE UNCHANGED <<storeVars, returned>>
  /\ UNCHANGED <<phase, crashes, seen, price, live, task, todo, taken, settlements>>

\* settle_api_key_response after a failure: all of the debit is returned.
RefundRejected(b) ==
  /\ Payer[b] # NoKey
  /\ Goto(b, "rejected", "repaid")
  /\ RefundBalance(b, price[b])
  /\ UNCHANGED <<phase, crashes, seen, price, live, task, todo, taken, settlements>>

\* A refund of the layer that the store refuses is only logged.
LayerRefundFails(b) ==
  /\ StoreMayFail /\ Payer[b] # NoKey
  /\ \/ Goto(b, "served", "dropped") /\ live[b].paid < price[b]
     \/ Goto(b, "rejected", "dropped")
  /\ UNCHANGED <<storeVars, phase, crashes, seen, price, live, task, todo,
                 historyVars>>

\* X402Service settles on chain after the handler's 200, and only then.
SettlePayment(b) ==
  /\ Payer[b] = NoKey
  /\ \/ Goto(b, "served", "charged")    \* transferred to the treasury
     \/ Goto(b, "served", "unpaid")     \* the settlement failed or was cut off
     \/ Goto(b, "rejected", "repaid")   \* not settled: nothing to return
  /\ UNCHANGED <<storeVars, phase, crashes, seen, price, live, task, todo,
                 historyVars>>

\* The client goes away while the middleware is suspended in an await and
\* the request's future is dropped: nothing after the await runs.
Disconnect(b) ==
  /\ \/ Goto(b, "funded", "dropped") /\ UNCHANGED live
     \/ /\ Goto(b, "inserting", "dropped")
        /\ live' \in {live, [live EXCEPT ![b] = NoBatch]}  \* in the map, or not yet
  /\ UNCHANGED <<storeVars, phase, crashes, seen, price, task, todo, historyVars>>

-----------------------------------------------------------------------------
(* process_batch.                                                          *)

Step(b, from, to) ==
  /\ phase = "serving"
  /\ task[b] = from
  /\ task' = [task EXCEPT ![b] = to]

StartTask(b) ==
  /\ Step(b, "submitted", "running")
  /\ live' = [live EXCEPT ![b].status = "running"]
  /\ UNCHANGED <<storeVars, phase, crashes, pc, seen, price, todo, historyVars>>

\* The loop takes the slots in order and skips the terminal ones.
Dispatch(b, i) ==
  /\ Step(b, "running", "dispatching")
  /\ i \in OpenSlots(live[b])
  /\ \A j \in OpenSlots(live[b]) : i <= j
  /\ live' = [live EXCEPT ![b].slots[i] = "dispatched"]
  /\ UNCHANGED <<storeVars, phase, crashes, pc, seen, price, todo, historyVars>>

\* run_dispatch returned.
FinishSlot(b, i, outcome) ==
  /\ Step(b, "dispatching", "checkpoint")
  /\ live[b].slots[i] = "dispatched"
  /\ live' = [live EXCEPT ![b].slots[i] = outcome]
  /\ UNCHANGED <<storeVars, phase, crashes, pc, seen, price, todo, historyVars>>

\* BatchStore::checkpoint: best effort, unsynced.
Checkpoint(b) ==
  /\ Step(b, "checkpoint", "running")
  /\ \/ Durable /\ PersistBatch(b, live[b])
     \/ (~Durable \/ StoreMayFail) /\ UNCHANGED storeVars
  /\ UNCHANGED <<phase, crashes, pc, seen, price, live, todo, historyVars>>

\* The terminal status and the split become visible to polls.
Finalize(b) ==
  /\ Step(b, "running", "settling")
  /\ OpenSlots(live[b]) = {}
  /\ live' = [live EXCEPT ![b] = Finalized(b, live[b])]
  /\ UNCHANGED <<storeVars, phase, crashes, pc, seen, price, todo, historyVars>>

SettleBatch(b) ==
  /\ Step(b, "settling", "finished")
  /\ IF Durable THEN SettleDurably(b, live[b]) ELSE SettleInMemory(b, live[b])
  /\ UNCHANGED <<phase, crashes, pc, seen, price, live, todo>>

\* A settlement that the store refuses is only logged.
SettleFails(b) ==
  /\ StoreMayFail
  /\ Step(b, "settling", "finished")
  /\ UNCHANGED <<storeVars, phase, crashes, pc, seen, price, live, todo, historyVars>>

-----------------------------------------------------------------------------
(* Crash, boot and BatchStore::recover.                                    *)

\* What a stopped process leaves of a request: nothing after its last step.
Interrupted ==
  [b \in Batches |->
     IF pc[b] \in {"new", "refused", "repaid", "charged", "unpaid", "dropped"}
     THEN pc[b] ELSE "dropped"]

StopProcess ==
  /\ phase # "down"
  /\ crashes < MaxCrashes
  /\ phase' = "down"
  /\ crashes' = crashes + 1
  /\ pc' = Interrupted
  /\ live' = [b \in Batches |-> NoBatch]
  /\ task' = [b \in Batches |-> "none"]
  /\ todo' = {}
  /\ UNCHANGED <<seen, price, historyVars>>

Crash == StopProcess /\ UNCHANGED storeVars

PowerLoss == PowerMayFail /\ StopProcess /\ LosePower

\* Mutant: recover is not called at boot.
BootUnrecovered ==
  /\ phase = "down"
  /\ phase' = "serving"
  /\ UNCHANGED <<storeVars, crashes, pc, seen, price, live, task, todo, historyVars>>

\* load_batches; a failure boots the gateway without recovery.
Boot ==
  /\ phase = "down"
  /\ \/ Durable /\ phase' = "recovering" /\ todo' = {b \in Batches : db.batch[b] # NoBatch}
     \/ (~Durable \/ StoreMayFail) /\ phase' = "serving" /\ todo' = {}
  /\ UNCHANGED <<storeVars, crashes, pc, seen, price, live, task, historyVars>>

\* One turn of the loop of recover.  A read of the settled marker that
\* fails counts as "not settled".
RecoverBatch(b) ==
  /\ phase = "recovering" /\ b \in todo
  /\ todo' = todo \ {b}
  /\ \/ /\ b \in db.settled
        /\ live' = [live EXCEPT ![b] = db.batch[b]]
        /\ UNCHANGED <<storeVars, historyVars>>
     \/ /\ b \notin db.settled \/ StoreMayFail
        /\ live' = [live EXCEPT ![b] = Reconciled(b, db.batch[b])]
        /\ SettleDurably(b, Reconciled(b, db.batch[b]))
  /\ UNCHANGED <<phase, crashes, pc, seen, price, task>>

\* A settlement that fails is logged; the batch is rehydrated all the same.
RecoverBatchFails(b) ==
  /\ StoreMayFail
  /\ phase = "recovering" /\ b \in todo
  /\ todo' = todo \ {b}
  /\ live' = [live EXCEPT ![b] = Reconciled(b, db.batch[b])]
  /\ UNCHANGED <<storeVars, phase, crashes, pc, seen, price, task, historyVars>>

Serve ==
  /\ phase = "recovering" /\ todo = {}
  /\ phase' = "serving"
  /\ UNCHANGED <<storeVars, crashes, pc, seen, price, live, task, todo, historyVars>>

\* An operator revokes a key: under its lock, synced.
Revoke(k) ==
  /\ k \notin db.revoked
  /\ WriteSynced([db EXCEPT !.revoked = @ \cup {k}])
  /\ UNCHANGED <<memVars, historyVars>>

-----------------------------------------------------------------------------
EmptyStore ==
  [bal     |-> Deposit,
   revoked |-> {},
   batch   |-> [b \in Batches |-> NoBatch],
   settled |-> {},
   owed    |-> [b \in Batches |-> 0]]

Init ==
  /\ db = EmptyStore
  /\ survivors = {EmptyStore}
  /\ phase = "serving"
  /\ crashes = 0
  /\ pc = [b \in Batches |-> "new"]
  /\ seen = [b \in Batches |-> 0]
  /\ price = [b \in Batches |-> 0]
  /\ live = [b \in Batches |-> NoBatch]
  /\ task = [b \in Batches |-> "none"]
  /\ todo = {}
  /\ taken = [b \in Batches |-> 0]
  /\ returned = [b \in Batches |-> 0]
  /\ settlements = [b \in Batches |-> 0]

RequestStep(b) ==
  \/ Authenticate(b)
  \/ \E p \in Prices : Debit(b, p)
  \/ TurnAway(b)
  \/ \E p \in Prices : VerifyPayment(b, p)
  \/ Reject(b)
  \/ \E q \in [Slots(b) -> Quotes] : Accept(b, q)
  \/ Register(b)
  \/ RefundSurplus(b)
  \/ RefundRejected(b)
  \/ LayerRefundFails(b)
  \/ SettlePayment(b)
  \/ Disconnect(b)

TaskStep(b) ==
  \/ StartTask(b)
  \/ \E i \in Slots(b) : Dispatch(b, i)
  \/ \E i \in Slots(b), outcome \in TerminalSlot : FinishSlot(b, i, outcome)
  \/ Checkpoint(b)
  \/ Finalize(b)
  \/ SettleBatch(b)
  \/ SettleFails(b)

BootStep ==
  \/ Boot
  \/ \E b \in Batches : RecoverBatch(b)
  \/ \E b \in Batches : RecoverBatchFails(b)
  \/ Serve

Next ==
  \/ \E b \in Batches : RequestStep(b)
  \/ \E b \in Batches : TaskStep(b)
  \/ BootStep
  \/ Crash
  \/ PowerLoss
  \/ \E k \in Keys : Revoke(k)

Spec == Init /\ [][Next]_vars

\* The runtime keeps polling spawned tasks (run_dispatch is bounded by the
\* provider timeouts) and the supervisor restarts a gateway that stopped.
Fairness ==
  /\ \A b \in Batches : WF_vars(TaskStep(b))
  /\ WF_vars(BootStep)

FairSpec == Spec /\ Fairness

-----------------------------------------------------------------------------
(* Properties.                                                             *)

RequestPc == {"new", "authed", "funded", "inserting", "served", "rejected",
              "refused", "repaid", "charged", "unpaid", "dropped"}
TaskPc == {"none", "submitted", "running", "dispatching", "checkpoint",
           "settling", "finished"}
SlotState == {"pending", "dispatched"} \cup TerminalSlot

BatchRecord(b) ==
  [status   : {"submitted", "running"} \cup TerminalStatus,
   slots    : [Slots(b) -> SlotState],
   quote    : [Slots(b) -> Nat],
   paid     : Nat,
   released : Nat,
   refunded : Nat]

IsRecord(b, r) == r = NoBatch \/ r \in BatchRecord(b)

IsStore(s) ==
  /\ DOMAIN s = {"bal", "revoked", "batch", "settled", "owed"}
  /\ s.bal \in [Keys -> Nat]
  /\ s.revoked \subseteq Keys
  /\ DOMAIN s.batch = Batches
  /\ \A b \in Batches : IsRecord(b, s.batch[b])
  /\ s.settled \subseteq Batches
  /\ s.owed \in [Batches -> Nat]

StoreTypes ==
  /\ IsStore(db)
  /\ \A s \in survivors : IsStore(s)

MemoryTypes ==
  /\ phase \in {"down", "recovering", "serving"}
  /\ crashes \in 0..MaxCrashes
  /\ pc \in [Batches -> RequestPc]
  /\ seen \in [Batches -> Nat]
  /\ price \in [Batches -> Nat]
  /\ DOMAIN live = Batches
  /\ \A b \in Batches : IsRecord(b, live[b])
  /\ task \in [Batches -> TaskPc]
  /\ todo \subseteq Batches

HistoryTypes ==
  /\ taken \in [Batches -> Nat]
  /\ returned \in [Batches -> Nat]
  /\ settlements \in [Batches -> Nat]

\* The store, the in-memory records and the counters have the shape the
\* Rust types give them.
TypeOK == StoreTypes /\ MemoryTypes /\ HistoryTypes

\* What key k has paid for request b and not got back.
Spent(k) == [b \in Batches |-> IF Payer[b] = k THEN taken[b] - returned[b] ELSE 0]

\* LedgerExact: whatever a crash or a power loss leaves of the store, the
\* balance of every key is its deposit minus what its requests were debited
\* plus what they were credited (debit_balance, refund_balance and
\* settle_batch_refund commit each movement exactly once).
LedgerExact ==
  \A s \in survivors : \A k \in Keys :
    s.bal[k] + Total(Spent(k), NumBatches) = Deposit[k]

\* ImplementsAccount: the debits, refunds, settlements, crashes and
\* recoveries of batches are, for the holder of a key, debits and credits
\* of a prepaid account, each of them all or nothing.
Account == INSTANCE PrepaidAccount
  WITH NumRequests <- NumBatches, balance <- db.bal, revoked <- db.revoked,
       debited <- taken, credited <- returned

ImplementsAccount == Account!Spec

\* NoCreditBeyondDebit: the refunds of a request, by the layer and by the
\* settlement of its batch together, never exceed what it was debited, and
\* a batch is settled at most once (batch.rs: "exactly-once").
NoCreditBeyondDebit ==
  \A b \in Batches :
    /\ returned[b] <= taken[b]
    /\ settlements[b] <= 1

\* EscrowBalances, TerminalBatchEscrowSettled and
\* TerminalImpliesAllRequestsTerminal of batch.rs, for one record.
EscrowAccounted(r) ==
  r # NoBatch =>
    /\ r.released + r.refunded <= r.paid
    /\ IsTerminal(r) =>
         /\ r.released + r.refunded = r.paid
         /\ OpenSlots(r) = {}

\* EscrowSettled: the records that polls see and the snapshots that any
\* crash or power loss leaves to recovery account for the whole escrow.
EscrowSettled ==
  \A b \in Batches :
    /\ EscrowAccounted(live[b])
    /\ \A s \in survivors : EscrowAccounted(s.batch[b])

\* The record by which a batch was settled.
SettledRecord(b) == IF Durable THEN db.batch[b] ELSE live[b]

\* BuyerPaysForDoneSlots: a key whose batch was accepted and settled has
\* paid exactly the quotes of the slots that completed, and a key whose
\* request was rejected has paid nothing (settle_api_key_response and
\* settle_batch together, whichever of the two comes first).
BuyerPaysForDoneSlots ==
  \A b \in Batches : Payer[b] # NoKey =>
    /\ pc[b] = "repaid" => taken[b] = returned[b]
    /\ pc[b] = "charged" /\ settlements[b] > 0 /\ SettledRecord(b) # NoBatch =>
         taken[b] - returned[b]
           = QuoteOf(b, SettledRecord(b), DoneSlots(SettledRecord(b)))

\* ReceiptBacked: once the settled marker of a batch is in the store, the
\* status that polls report is the one that was settled, and the refund it
\* reports to an x402 payer is the recorded obligation (batch.rs: "an
\* honest, reconcilable debt").
ReceiptBacked ==
  \A b \in db.settled :
    /\ IsTerminal(db.batch[b])
    /\ live[b] # NoBatch => live[b] = db.batch[b]
    /\ Payer[b] = NoKey => db.owed[b] = db.batch[b].refunded

\* SettlementsStand: what a settled batch cost its key, what polls report of
\* it and what is owed to an x402 payer are what its record says.
SettlementsStand == BuyerPaysForDoneSlots /\ ReceiptBacked

\* SettledIsFinal: no later step, crash, power loss or recovery takes back
\* a settlement, or changes the outcome or the debt it recorded.
SettledIsFinal ==
  [][\A b \in db.settled :
       /\ b \in db'.settled
       /\ db'.batch[b] = db.batch[b]
       /\ db'.owed[b] = db.owed[b]]_vars

\* RevokedKeyNeverSpends: after revoke returned, no request that passed the
\* layer's check earlier can still spend from the key, and no crash undoes
\* the revocation; refunds still arrive.
RevokedKeyNeverSpends ==
  [][\A k \in db.revoked :
       /\ k \in db'.revoked
       /\ db'.bal[k] >= db.bal[k]]_vars

\* EscrowNeverStranded: a batch accepted with a 200 is settled, or a
\* processor task or boot recovery still has it (batch.rs: "a crash
\* mid-batch never strands the buyer's escrow").
EscrowNeverStranded ==
  \A b \in Batches :
    pc[b] = "charged" /\ phase = "serving" /\ task[b] = "none"
      => settlements[b] = 1

-----------------------------------------------------------------------------
(* The inductive invariant behind LedgerExact, NoCreditBeyondDebit and     *)
(* EscrowSettled (BatchEscrow_proofs).                                     *)

\* Every write that is not synced is a snapshot of a batch: a power loss
\* cannot touch the balances, the markers and the debts.
StoresAgree ==
  /\ db \in survivors
  /\ \A s \in survivors :
       /\ s.bal = db.bal
       /\ s.revoked = db.revoked
       /\ s.settled = db.settled

\* A record splits its escrow by the outcome of its slots once it is
\* terminal, and not before.
RecordSound(b, r) ==
  r # NoBatch =>
    /\ r.paid = Total(r.quote, Size[b])
    /\ IsTerminal(r) => /\ r.released = QuoteOf(b, r, DoneSlots(r))
                        /\ r.refunded = QuoteOf(b, r, ErroredSlots(r))
                        /\ OpenSlots(r) = {}
    /\ ~IsTerminal(r) => r.released = 0 /\ r.refunded = 0

RecordsSound(b) ==
  /\ RecordSound(b, live[b])
  /\ \A s \in survivors : RecordSound(b, s.batch[b])

BeforeAccept == {"new", "authed", "funded", "rejected", "refused", "repaid"}
Resting == {"new", "refused", "repaid", "charged", "unpaid", "dropped"}

\* What the control state of request and batch b says about its records and
\* its marker.
ControlSound(b) ==
  /\ pc[b] = "authed" => Payer[b] # NoKey
  /\ pc[b] \in BeforeAccept =>
       /\ live[b] = NoBatch /\ task[b] = "none" /\ settlements[b] = 0
       /\ \A s \in survivors : s.batch[b] = NoBatch
  /\ pc[b] \in {"inserting", "served"} => live[b] # NoBatch /\ live[b].paid <= price[b]
  /\ pc[b] = "inserting" =>
       task[b] = "none" /\ settlements[b] = 0 /\ ~IsTerminal(live[b])
  /\ task[b] # "none" => live[b] # NoBatch
  /\ task[b] \in TaskPc \ {"none", "finished"} =>
       settlements[b] = 0 /\ (IsTerminal(live[b]) <=> task[b] = "settling")
  /\ settlements[b] \in {0, 1}
  /\ Durable => (settlements[b] = 1 <=> b \in db.settled)
  /\ ~Durable => b \notin db.settled /\ \A s \in survivors : s.batch[b] = NoBatch

\* What the layer may still return for request b.
LayerDue(b) ==
  IF pc[b] \in {"funded", "rejected"} THEN price[b]
  ELSE IF pc[b] \in {"inserting", "served"} THEN price[b] - live[b].paid
  ELSE 0

\* The debit of a request covers what was returned, what the layer may still
\* return, and the escrow of any record a settlement may still start from.
DebitCovers(b) ==
  /\ Payer[b] # NoKey => returned[b] + LayerDue(b) <= taken[b]
  /\ Payer[b] # NoKey /\ settlements[b] = 0 =>
       /\ live[b] # NoBatch => returned[b] + LayerDue(b) + live[b].paid <= taken[b]
       /\ \A s \in survivors : s.batch[b] # NoBatch =>
            returned[b] + LayerDue(b) + s.batch[b].paid <= taken[b]
  /\ pc[b] \in {"new", "authed", "refused"} \/ Payer[b] = NoKey =>
       taken[b] = 0 /\ returned[b] = 0

BatchInv(b) == RecordsSound(b) /\ ControlSound(b) /\ DebitCovers(b)

\* No request and no task is under way while the gateway is not serving.
QuietUntilServing ==
  /\ phase # "serving" => \A b \in Batches : task[b] = "none" /\ pc[b] \in Resting
  /\ \A b \in todo : db.batch[b] # NoBatch

\* EscrowInv: the invariant that every action preserves.
EscrowInv ==
  /\ TypeOK
  /\ StoresAgree
  /\ QuietUntilServing
  /\ LedgerExact
  /\ \A b \in Batches : BatchInv(b)
=============================================================================
