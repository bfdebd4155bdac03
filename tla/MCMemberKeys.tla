---------------------------- MODULE MCMemberKeys ----------------------------
(* A small instance of MemberKeys for TLC. *)
EXTENDS MemberKeys, TLC

CONSTANTS a1, a2, i1, i2

\* No action tells members or addresses apart.
Alike == Permutations({a1, a2}) \cup Permutations({i1, i2})
=============================================================================
