--------------------------- MODULE MCKeyMetering ---------------------------
(* Small instances of KeyMetering for TLC. *)
EXTENDS KeyMetering

CONSTANTS k1, k2, k3, k4

\* Two member keys, k1 with a daily quota of its own; a plain key k3 with a
\* rate limit and a daily quota, which has two requests; and a plain key k4
\* without limits.
FourKeys == <<k1, k2, k3, k3, k4>>
SomeRps == [k \in {k1, k2, k3, k4} |-> IF k = k3 THEN 1 ELSE 0]
SomeDaily == [k \in {k1, k2, k3, k4} |-> IF k \in {k1, k3} THEN 1 ELSE 0]

\* One key with a rate limit.
OneKey == <<k1, k1, k1>>
OneRps == [k \in {k1} |-> 1]
NoDaily == [k \in {k1} |-> 0]
=============================================================================
