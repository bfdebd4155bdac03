--------------------------- MODULE MCChatPayment ---------------------------
(* A small instance of ChatPayment for TLC. *)
EXTENDS ChatPayment

CONSTANTS k1, m1, p1, p2

\* Two requests of one key for one model, whose deposit covers both only at
\* the lower price.
SharedPayer == [r \in 1..2 |-> k1]
SameModel == [r \in 1..2 |-> m1]
DepositOfThree == [k \in {k1} |-> 3]
=============================================================================
