--------------------------- MODULE PrepaidAccount ---------------------------
(***************************************************************************)
(* What the gateway promises the holder of a prepaid API key, whichever    *)
(* endpoint is called and whatever fails: a request is debited at most     *)
(* once, never from a revoked key and never beyond the balance; it is      *)
(* credited at most what it was debited; nothing else moves the balance.   *)
(* Crashes, power losses and recoveries are not visible at this level.     *)
(***************************************************************************)
EXTENDS Totals

CONSTANTS Keys, NoKey, NumRequests, Payer, Deposit

Requests == 1..NumRequests

VARIABLES
  balance,   \* balance[k]: what key k can still spend
  revoked,   \* the keys that may not spend any more
  debited,   \* debited[r]: what request r took from Payer[r]
  credited   \* credited[r]: what request r gave back

vars == <<balance, revoked, debited, credited>>

Init ==
  /\ balance = Deposit
  /\ revoked = {}
  /\ debited = [r \in Requests |-> 0]
  /\ credited = [r \in Requests |-> 0]

Debit(r) ==
  /\ Payer[r] \in Keys \ revoked
  /\ debited[r] = 0
  /\ \E a \in 1..balance[Payer[r]] :
       /\ balance' = [balance EXCEPT ![Payer[r]] = @ - a]
       /\ debited' = [debited EXCEPT ![r] = a]
  /\ UNCHANGED <<revoked, credited>>

\* Revocation stops spending, not refunds.
Credit(r) ==
  /\ Payer[r] \in Keys
  /\ \E a \in 1..(debited[r] - credited[r]) :
       /\ balance' = [balance EXCEPT ![Payer[r]] = @ + a]
       /\ credited' = [credited EXCEPT ![r] = @ + a]
  /\ UNCHANGED <<revoked, debited>>

Revoke(k) ==
  /\ revoked' = revoked \cup {k}
  /\ UNCHANGED <<balance, debited, credited>>

Next ==
  \/ \E r \in Requests : Debit(r) \/ Credit(r)
  \/ \E k \in Keys : Revoke(k)

Spec == Init /\ [][Next]_vars
=============================================================================
