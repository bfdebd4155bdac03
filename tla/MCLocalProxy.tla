---------------------------- MODULE MCLocalProxy ----------------------------
(* Small instances of LocalProxy for TLC.                                  *)
EXTENDS LocalProxy

CONSTANTS c1, c2, c3, c4, k1, k2

\* Three clients share a key, the fourth has a member key.
ThreeAndOne ==
  (c1 :> k1) @@ (c2 :> k1) @@ (c3 :> k1) @@ (c4 :> k2)
=============================================================================
