-------------------------- MODULE MCOperatorWallet --------------------------
(* Small instances of OperatorWallet for TLC. *)
EXTENDS OperatorWallet

\* The first call sends two units, the others one.
MixedAmounts == [c \in Calls |-> IF c = 1 THEN 2 ELSE 1]
=============================================================================
