------------------------------- MODULE Totals -------------------------------
(***************************************************************************)
(* Sums of amounts.  The gateway adds up quotes with a loop over the slots *)
(* of a batch; Total(q, n) is what such a loop computes for the amounts    *)
(* q[1] .. q[n].  It is a recursive function rather than a RECURSIVE       *)
(* operator so that the modules built on it can be reasoned about with     *)
(* TLAPS (see Totals_proofs).                                              *)
(***************************************************************************)
EXTENDS Integers

\* The accumulator of the loop after each of its n steps.
PrefixSum(q, n) ==
  LET acc[i \in 0..n] == IF i = 0 THEN 0 ELSE acc[i-1] + q[i]
  IN  acc

\* q[1] + ... + q[n].
Total(q, n) == PrefixSum(q, n)[n]

\* The amounts of the indices that satisfy a set, every other one as zero.
Only(q, n, S) == [i \in 1..n |-> IF i \in S THEN q[i] ELSE 0]
=============================================================================
