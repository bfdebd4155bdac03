--------------------------- MODULE OperatorWallet ---------------------------
(***************************************************************************)
(* The operator's hot wallet (signer.rs): calls of dispatch_pool_compute   *)
(* and reclaim_expired_job that run concurrently over one spend cap and    *)
(* one nonce manager.  A call reads the chain's height, reserves its value *)
(* against the cap of that epoch, reserves an account nonce, signs and     *)
(* submits; when the submission fails it reads the chain's pending count   *)
(* and resets the nonce manager to it.  Each await is a step.  The node is *)
(* external: it queues transactions whose predecessors are still missing   *)
(* and refuses a nonce it has, and its answers may be lost.                *)
(***************************************************************************)
EXTENDS Naturals, FiniteSets

CONSTANTS
  NumCalls,         \* calls of the wallet
  Reclaims,         \* the calls that are reclaim_expired_job
  Amount,           \* Amount[c]: value that dispatch c sends
  Ceiling,          \* ceiling_wei
  BlocksPerEpoch,   \* blocks_per_epoch
  MaxHeight         \* bound: last block of a behaviour

Calls == 1..NumCalls
Heights == 0..MaxHeight
Epochs == 0..(MaxHeight \div BlocksPerEpoch)

WalletConstantsOK ==
  /\ NumCalls \in Nat
  /\ Reclaims \subseteq Calls
  /\ Amount \in [Calls -> Nat]
  /\ Ceiling \in Nat
  /\ BlocksPerEpoch \in Nat \ {0}
  /\ MaxHeight \in Nat

ASSUME WalletAssumption == WalletConstantsOK

VARIABLES
  height,     \* chain: the latest block
  accepted,   \* chain: nonces of the operator's transactions the node took
  step,       \* where call c stands
  block,      \* the height call c read
  nonce,      \* the nonce call c reserved
  count,      \* the pending count call c read to resync
  window,     \* SpendCap::inner: epoch and what was spent in it
  seeded,     \* NonceManager::inner is Some ...
  next,       \* ... of this nonce
  spent,      \* history: epoch -> value that passed the cap for it
  late,       \* history: a call reached the cap after a later epoch's did
  failures,   \* history: a submission failed
  dropped     \* history: a call gave its nonce up and did not resync

callVars == <<step, block, nonce, count>>
walletVars == <<window, seeded, next>>
walletHistory == <<spent, late, failures, dropped>>
allWalletVars == <<height, accepted, callVars, walletVars, walletHistory>>

Advance(c, from, to) ==
  /\ step[c] = from
  /\ step' = [step EXCEPT ![c] = to]

\* The account's pending transaction count: the first nonce that is missing.
Pending(n) == n \notin accepted /\ \A m \in 0..NumCalls : m < n => m \in accepted

-----------------------------------------------------------------------------
(* The calls.                                                              *)

\* eth_blockNumber, and nothing is reserved yet.  A reclaim skips the cap.
ReadBlock(c) ==
  /\ \/ c \notin Reclaims /\ Advance(c, "new", "capping")
     \/ c \in Reclaims /\ Advance(c, "new", "reserving")
  /\ block' = [block EXCEPT ![c] = height]
  /\ UNCHANGED <<height, accepted, nonce, count, walletVars, walletHistory>>

\* The window of the epoch that call c read: it starts over when it is not
\* the current one, whichever of the two is later.
RolledOver(e) == IF window.epoch # e THEN [epoch |-> e, spent |-> 0] ELSE window

\* Mutant: what is already spent is compared, not what would be.
TrySpendLate(c) ==
  LET e == block[c] \div BlocksPerEpoch
      w == RolledOver(e)
  IN /\ \/ /\ w.spent <= Ceiling
           /\ Advance(c, "capping", "reserving")
           /\ window' = [w EXCEPT !.spent = @ + Amount[c]]
           /\ spent' = [spent EXCEPT ![e] = @ + Amount[c]]
        \/ /\ w.spent > Ceiling
           /\ Advance(c, "capping", "failed")
           /\ window' = w
           /\ UNCHANGED spent
     /\ late' = (late \/ e < window.epoch)
     /\ UNCHANGED <<height, accepted, block, nonce, count, seeded, next, failures, dropped>>

\* SpendCap::try_spend.  The reservation is kept when the call fails later.
TrySpend(c) ==
  LET e == block[c] \div BlocksPerEpoch
      w == RolledOver(e)
  IN /\ \/ /\ w.spent + Amount[c] <= Ceiling
           /\ Advance(c, "capping", "reserving")
           /\ window' = [w EXCEPT !.spent = @ + Amount[c]]
           /\ spent' = [spent EXCEPT ![e] = @ + Amount[c]]
        \/ /\ w.spent + Amount[c] > Ceiling
           /\ Advance(c, "capping", "failed")
           /\ window' = w
           /\ UNCHANGED spent
     /\ late' = (late \/ e < window.epoch)
     /\ UNCHANGED <<height, accepted, block, nonce, count, seeded, next, failures, dropped>>

\* Mutant: the manager keeps the nonce it handed out.
ReserveAgain(c) ==
  \E n \in 0..NumCalls :
    /\ IF seeded THEN n = next ELSE Pending(n)
    /\ Advance(c, "reserving", "signing")
    /\ nonce' = [nonce EXCEPT ![c] = n]
    /\ seeded' = TRUE
    /\ next' = n
    /\ UNCHANGED <<height, accepted, block, count, window, walletHistory>>

\* NonceManager::reserve: the mutex is held across the seed.
Reserve(c) ==
  \E n \in 0..NumCalls :
    /\ IF seeded THEN n = next ELSE Pending(n)
    /\ Advance(c, "reserving", "signing")
    /\ nonce' = [nonce EXCEPT ![c] = n]
    /\ seeded' = TRUE
    /\ next' = n + 1
    /\ UNCHANGED <<height, accepted, block, count, window, walletHistory>>

\* The chain cannot be read: the call fails before it has a nonce.
ChainUnavailable(c) ==
  /\ \/ c \notin Reclaims /\ Advance(c, "new", "failed")
     \/ ~seeded /\ Advance(c, "reserving", "failed")
  /\ UNCHANGED <<height, accepted, block, nonce, count, walletVars, walletHistory>>

\* The transaction is signed, or the signer fails and the call returns.
Sign(c) ==
  /\ \/ Advance(c, "signing", "submitting") /\ UNCHANGED dropped
     \/ Advance(c, "signing", "failed") /\ dropped' = TRUE
  /\ UNCHANGED <<height, accepted, block, nonce, count, walletVars>>
  /\ UNCHANGED <<spent, late, failures>>

\* The node takes the transaction and says so.
SubmitSigned(c) ==
  /\ nonce[c] \notin accepted
  /\ Advance(c, "submitting", "done")
  /\ accepted' = accepted \cup {nonce[c]}
  /\ UNCHANGED <<height, block, nonce, count, walletVars, walletHistory>>

\* Mutant: the call returns the error and nothing else.
SubmitFailsFlat(c) ==
  /\ Advance(c, "submitting", "failed")
  /\ accepted' \in {accepted, accepted \cup {nonce[c]}}
  /\ failures' = TRUE
  /\ UNCHANGED <<height, block, nonce, count, walletVars, spent, late, dropped>>

\* submit_signed, Err: the node refuses, is not reached, or its answer to a
\* transaction it took is lost.
SubmitFails(c) ==
  /\ Advance(c, "submitting", "counting")
  /\ accepted' \in {accepted, accepted \cup {nonce[c]}}
  /\ failures' = TRUE
  /\ UNCHANGED <<height, block, nonce, count, walletVars, spent, late, dropped>>

\* eth_getTransactionCount(pending), before the manager's mutex is taken;
\* when it fails there is no resync.
ReadCount(c) ==
  /\ \/ \E n \in 0..NumCalls :
          /\ Pending(n)
          /\ Advance(c, "counting", "resyncing")
          /\ count' = [count EXCEPT ![c] = n]
          /\ UNCHANGED dropped
     \/ /\ Advance(c, "counting", "failed")
        /\ dropped' = TRUE
        /\ UNCHANGED count
  /\ UNCHANGED <<height, accepted, block, nonce, walletVars>>
  /\ UNCHANGED <<spent, late, failures>>

\* NonceManager::resync.
Resync(c) ==
  /\ Advance(c, "resyncing", "failed")
  /\ seeded' = TRUE
  /\ next' = count[c]
  /\ UNCHANGED <<height, accepted, block, nonce, count, window, walletHistory>>

\* The chain grows.
NewBlock ==
  /\ height < MaxHeight
  /\ height' = height + 1
  /\ UNCHANGED <<accepted, callVars, walletVars, walletHistory>>

-----------------------------------------------------------------------------
WalletInit ==
  /\ height = 0
  /\ accepted = {}
  /\ step = [c \in Calls |-> "new"]
  /\ block = [c \in Calls |-> 0]
  /\ nonce = [c \in Calls |-> 0]
  /\ count = [c \in Calls |-> 0]
  /\ window = [epoch |-> 0, spent |-> 0]
  /\ seeded = FALSE
  /\ next = 0
  /\ spent = [e \in Epochs |-> 0]
  /\ late = FALSE
  /\ failures = FALSE
  /\ dropped = FALSE

Call(c) ==
  \/ ReadBlock(c)
  \/ TrySpend(c)
  \/ Reserve(c)
  \/ ChainUnavailable(c)
  \/ Sign(c)
  \/ SubmitSigned(c)
  \/ SubmitFails(c)
  \/ ReadCount(c)
  \/ Resync(c)

WalletNext ==
  \/ \E c \in Calls : Call(c)
  \/ NewBlock

WalletSpec == WalletInit /\ [][WalletNext]_allWalletVars

-----------------------------------------------------------------------------
(* Properties.                                                             *)

CallPc == {"new", "capping", "reserving", "signing", "submitting", "counting",
           "resyncing", "done", "failed"}

\* The wallet's counters keep their types, and the window holds no more
\* than the ceiling.
WalletTypeOK ==
  /\ height \in Heights
  /\ accepted \subseteq Nat
  /\ step \in [Calls -> CallPc]
  /\ block \in [Calls -> Heights]
  /\ nonce \in [Calls -> Nat]
  /\ count \in [Calls -> Nat]
  /\ window \in [epoch : Epochs, spent : 0..Ceiling]
  /\ seeded \in BOOLEAN
  /\ next \in Nat
  /\ spent \in [Epochs -> Nat]
  /\ late \in BOOLEAN
  /\ failures \in BOOLEAN
  /\ dropped \in BOOLEAN

\* Calls that hold a nonce they may still submit, and calls that are about
\* to repair the manager.
HoldsNonce(c) == step[c] \in {"signing", "submitting"}
Repairing(c) == step[c] \in {"counting", "resyncing"}

\* A nonce that was handed out has reached the node, is held by a call that
\* will submit it, or some call is about to resync.
NoGap ==
  \A n \in 0..(next - 1) :
    \/ n \in accepted
    \/ \E c \in Calls : HoldsNonce(c) /\ nonce[c] = n
    \/ \E c \in Calls : Repairing(c)

\* NoLastingGap: unless a call gave its nonce up without a resync (its
\* signer failed, or the read of the count), a hole in the nonces is about
\* to be filled or repaired; so when the calls are over, the next nonce is
\* one the node can execute and no later dispatch waits behind a hole
\* (submit_signed: "so the reserved-but-unsent nonce isn't left as a gap").
NoLastingGap == ~dropped => NoGap

\* Calls whose nonce is theirs: handed out and not given up.
Owning(c) == step[c] \in {"signing", "submitting", "done"}

\* NonceNeverReused: no two calls have the same nonce (NonceManager:
\* "concurrent pool dispatches can never reuse or gap a nonce").
NonceNeverReused ==
  \A c, d \in Calls : c # d /\ Owning(c) /\ Owning(d) => nonce[c] # nonce[d]

\* ReuseOnlyAfterFailure: until a submission has failed, concurrent calls
\* never share a nonce, the first two that race for the seed included.
ReuseOnlyAfterFailure == ~failures => NonceNeverReused

\* SpendCapHolds: at most the ceiling is dispatched per epoch (SpendCap:
\* "at most `ceiling` wei of native value may be dispatched per
\* `blocks_per_epoch` window").
SpendCapHolds == \A e \in Epochs : spent[e] <= Ceiling

\* CapHoldsInOrder: the cap holds while the calls reach it in the order of
\* the epochs they read, however reading and spending interleave.
CapHoldsInOrder == ~late => SpendCapHolds
=============================================================================
