---------------------------- MODULE MCStoreVault ----------------------------
(* A small instance of StoreVault for TLC. *)
EXTENDS StoreVault, TLC

CONSTANTS p1, p2, k1, k2

\* No action tells the processes apart, nor the generated keys.
Alike == Permutations({p1, p2}) \cup Permutations({k1, k2})
=============================================================================
