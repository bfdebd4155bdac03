--------------------------- MODULE MCX402Payment ---------------------------
(* Small instances of X402Payment for TLC. *)
EXTENDS X402Payment, TLC

CONSTANTS c1, c2   \* request bodies

\* One offer covers a price of 2 and is valid for a second, the other does
\* not cover it, begins when the first one ends and outlives every challenge.
SomeOffers == {[value |-> 2, after |-> 0, before |-> 1], [value |-> 1, after |-> 1, before |-> 2]}

\* No action tells the bodies apart.
Bodies == Permutations({c1, c2})
=============================================================================
