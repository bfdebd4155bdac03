--------------------------- MODULE MCBatchEscrow ---------------------------
(* Small instances of BatchEscrow for TLC. *)
EXTENDS BatchEscrow

CONSTANTS k1

\* Two batches of one key, whose deposit does not cover both; the first has
\* two slots.
SharedPayer == [b \in 1..2 |-> k1]
TwoAndOne == [b \in 1..2 |-> IF b = 1 THEN 2 ELSE 1]

\* One batch of a key and one of an x402 payer.
MixedPayer == [b \in 1..2 |-> IF b = 1 THEN k1 ELSE NoKey]
OneEach == [b \in 1..2 |-> 1]

DepositOfThree == [k \in {k1} |-> 3]
=============================================================================
