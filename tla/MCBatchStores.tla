--------------------------- MODULE MCBatchStores ---------------------------
(* A gateway over either batch store: the durable one of build_router, or  *)
(* the one in memory that build_router_with and _with_auth make.           *)

EXTENDS MCBatchEscrow

VARIABLE inMemory

eitherVars == <<vars, inMemory>>

InMemory == INSTANCE BatchEscrow WITH Durable <- FALSE, MaxCrashes <- 1

Either(durable, volatile) ==
  /\ inMemory' = inMemory
  /\ IF inMemory THEN volatile ELSE durable

EitherInit == Init /\ inMemory \in BOOLEAN
EitherNext == Either(Next, InMemory!Next)

\* Fairness of BatchEscrow, whichever the store.
EitherFairness ==
  /\ \A b \in Batches : WF_eitherVars(Either(TaskStep(b), InMemory!TaskStep(b)))
  /\ WF_eitherVars(Either(BootStep, InMemory!BootStep))

EitherSpec == EitherInit /\ [][EitherNext]_eitherVars /\ EitherFairness

\* NothingLostInEither: with the durable store no accepted batch is left to
\* nobody (EscrowNeverStranded); with either, a key has paid for the slots
\* that completed and for nothing else (settle_batch with and without
\* persistence).
NothingLostInEither ==
  IF inMemory THEN InMemory!BuyerPaysForDoneSlots
  ELSE BuyerPaysForDoneSlots /\ EscrowNeverStranded

\* BatchEventuallySettled: a batch that has entered the map is eventually
\* settled, by its task (process_batch) or by recovery (BatchStore::recover).
\* Only a crash that takes the store in memory with it excuses a gateway.
BatchEventuallySettled ==
  \A b \in Batches :
    (task[b] = "submitted") ~>
      IF inMemory THEN settlements[b] = 1 \/ live[b] = NoBatch ELSE b \in db.settled
=============================================================================
