----------------------------- MODULE PayPerUse -----------------------------
(***************************************************************************)
(* What x402 promises a payer about one signed authorization, identified   *)
(* by its nonce: it admits at most one request, and it is charged at most  *)
(* once, and only after that request was answered with a success.          *)
(***************************************************************************)
CONSTANTS Nonces

VARIABLES
  admitted,   \* how many requests a nonce has admitted to the paid handler
  answered,   \* nonces whose request was answered with a 2xx
  charged     \* nonces whose authorization was executed on chain

vars == <<admitted, answered, charged>>

Init ==
  /\ admitted = [n \in Nonces |-> 0]
  /\ answered = {}
  /\ charged = {}

Admit(n) ==
  /\ admitted[n] = 0
  /\ admitted' = [admitted EXCEPT ![n] = 1]
  /\ UNCHANGED <<answered, charged>>

Answer(n) ==
  /\ admitted[n] = 1 /\ n \notin answered
  /\ answered' = answered \cup {n}
  /\ UNCHANGED <<admitted, charged>>

Charge(n) ==
  /\ n \in answered \ charged
  /\ charged' = charged \cup {n}
  /\ UNCHANGED <<admitted, answered>>

Next == \E n \in Nonces : Admit(n) \/ Answer(n) \/ Charge(n)

Spec == Init /\ [][Next]_vars
=============================================================================
