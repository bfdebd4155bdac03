------------------------- MODULE ChatPayment_proofs -------------------------
(***************************************************************************)
(* Proofs about ChatPayment, for any keys, models, providers, prices and   *)
(* requests and any number of crashes: the money of a chat request, its    *)
(* model budget, its usage row and its failover are accounted for at every *)
(* step, and the layer's debits and refunds implement PrepaidAccount.      *)
(***************************************************************************)
EXTENDS ChatPayment, Totals_proofs

Early == {"new", "arriving", "pricing", "debiting", "x402"}
Handling == {"quoting", "budgeting", "listing", "selecting", "calling", "recording",
             "charging", "confirming", "settling", "unbudgeting", "refunding"}
Budgeting == {"listing", "selecting", "calling", "recording", "settling", "unbudgeting"}

-----------------------------------------------------------------------------
(* The inductive invariant.  What holds of one request r is stated of its  *)
(* record s and of the amounts that belong to it: d debited, c credited,   *)
(* h held of its budget, a authorized, z its payment on chain, l the       *)
(* lapsed requests and b the budget row it uses.                           *)

\* Before the debit nothing was taken, and only the client has signed.
BeforeDebit(r, s, d, c, h, a, l) ==
  /\ s.bearer => Payer[r] \in Keys
  /\ s.pc \in {"pricing", "debiting"} => s.bearer
  /\ s.pc \in Early =>
       /\ d = 0 /\ c = 0 /\ h = 0 /\ r \notin l
       /\ ~s.context /\ ~s.budgeted /\ s.charge = 0 /\ s.signed = a

\* The handler works with the amount that was debited or signed.
InHandler(r, s, d, c, h, a, l) ==
  /\ s.pc \in Handling =>
       /\ c = 0
       /\ s.context => s.price = d
       /\ ~s.context => d = 0 /\ s.price <= a /\ ~s.budgeted
       /\ s.charge <= s.price
       /\ s.budgeted \/ h = 0
       /\ s.pc # "refunding" => r \notin l
  /\ s.pc \in {"quoting", "budgeting"} => ~s.budgeted
  /\ s.pc \in {"budgeting", "recording", "settling", "unbudgeting", "refunding"} => s.context
  /\ s.pc = "refunding" => h = 0 \/ r \in l

\* What a request in the handler holds of a capped budget is its charge.
HoldsCharge(s, h, b) ==
  /\ s.pc = "unbudgeting" => s.budgeted
  /\ s.pc \in Budgeting /\ s.budgeted => h = IF b = Uncapped THEN 0 ELSE s.charge

\* What a request has cost once it is answered.
AtTheEnd(r, s, d, c, h, z, l) ==
  /\ s.pc = "refused" => r \in l \/ (d = c /\ h = 0)
  /\ s.pc = "served" /\ s.context =>
       /\ s.charge <= d - c
       /\ r \in l \/ (d - c = s.charge /\ h \in {0, s.charge})
  /\ s.pc = "served" /\ ~s.context => d = 0 /\ (z.missed \/ s.charge <= z.settled)

\* Balance and x402 exclude each other.  A settlement is sent once, for what
\* was signed and after a 2xx.
OnePayment(r, s, d, c, a, z) ==
  /\ c <= d
  /\ a <= ClientCap
  /\ s.context \/ d > 0 => Payer[r] \in Keys
  /\ z.pending + z.settled <= a
  /\ z.pending + z.settled > 0 => z.due /\ d = 0
  /\ z.due => s.pc \in {"charging", "confirming", "served", "gone"}
  /\ z.missed => z.due
  /\ z.pending = 0 \/ z.settled = 0
  /\ s.pc = "served" /\ z.pending > 0 => z.missed
  /\ s.pc \in {"charging", "confirming"} => z.due /\ ~s.context
  /\ s.pc = "charging" => z.pending = 0 /\ z.settled = 0
  /\ s.pc = "confirming" => z.pending \in {0, s.price} /\ z.settled \in {0, s.price}

\* The providers that were called are no candidates any more, but for the
\* one whose answer is awaited.
Failover(s) ==
  /\ s.pc \notin {"selecting", "calling"} => s.tried = <<>>
  /\ Len(s.tried) <= MaxAttempts
  /\ \A i, j \in 1..Len(s.tried) : s.tried[i] = s.tried[j] => i = j
  /\ s.pc = "selecting" => \A i \in 1..Len(s.tried) : s.tried[i] \notin s.candidates
  /\ s.pc = "calling" =>
       /\ Len(s.tried) > 0
       /\ \A i \in 1..(Len(s.tried) - 1) : s.tried[i] \notin s.candidates

Local(r, s, d, c, h, a, z, l, b) ==
  /\ BeforeDebit(r, s, d, c, h, a, l)
  /\ InHandler(r, s, d, c, h, a, l)
  /\ HoldsCharge(s, h, b)
  /\ AtTheEnd(r, s, d, c, h, z, l)
  /\ OnePayment(r, s, d, c, a, z)
  /\ Failover(s)

Row(r) == <<Payer[r], ModelOf[r]>>

LocalPart ==
  \A r \in Requests :
    Local(r, req[r], debited[r], credited[r], held[r], authorized[r], payment[r],
          lapsed, budget[Row(r)])

\* A stopped gateway works on no request.
DownPart == ~up => \A r \in Requests : Over(r) \/ req[r].pc = "new"

\* The operator's caps are in force where there is a budget row.
BudgetPart ==
  /\ \A k \in Keys, m \in Models : cap[<<k, m>>] = Uncapped <=> budget[<<k, m>>] = Uncapped
  /\ BudgetAccounted

\* What the requests of a key that have recorded their usage will have cost.
Spent(k) ==
  [r \in Requests |->
     IF Payer[r] = k /\ req[r].context /\ req[r].pc \in {"settling", "served"}
     THEN req[r].charge ELSE 0]

UsagePart == \A k \in Keys : usage[k] <= Total(Spent(k), NumRequests)

IInv == TypeOK /\ LocalPart /\ DownPart /\ BudgetPart /\ UsagePart

Refined == [Account!Next]_<<balance, revoked, debited, credited>>

-----------------------------------------------------------------------------
(* Sums over the requests.                                                 *)

\* Amounts that are each at most another have at most its total.
LEMMA TotalMonotone ==
  ASSUME NEW n \in Nat, NEW p \in [1..n -> Nat], NEW q \in [1..n -> Nat],
         \A i \in 1..n : p[i] <= q[i]
  PROVE  Total(p, n) <= Total(q, n)
<1> DEFINE gap == [i \in 1..n |-> q[i] - p[i]]
<1>1. gap \in [1..n -> Nat]
  OBVIOUS
<1>2. \A i \in 1..n : q[i] = p[i] + gap[i]
  OBVIOUS
<1> HIDE DEF gap
<1>3. Total(q, n) = Total(p, n) + Total(gap, n)
  BY <1>1, <1>2, TotalSplit
<1>4. QED
  BY <1>1, <1>3, TotalType

\* The total after one amount has changed, as an equation of the functions.
LEMMA TotalChange ==
  ASSUME NEW n \in Nat, NEW p \in [1..n -> Nat], NEW q \in [1..n -> Nat], NEW j \in 1..n,
         \A i \in 1..n : i # j => q[i] = p[i]
  PROVE  Total(q, n) + p[j] = Total(p, n) + q[j]
<1>1. q = [p EXCEPT ![j] = q[j]]
  OBVIOUS
<1>2. q[j] \in Nat
  OBVIOUS
<1>3. Total([p EXCEPT ![j] = q[j]], n) + p[j] = Total(p, n) + q[j]
  BY <1>2, TotalUpdate
<1>4. QED
  BY <1>1, <1>3

-----------------------------------------------------------------------------
(* Frames.                                                                 *)

\* Types and parts of the invariant, by name.
LEMMA Parts ==
  ASSUME IInv
  PROVE  /\ TypeOK /\ LocalPart /\ DownPart /\ BudgetPart /\ UsagePart
         /\ NumRequests \in Nat /\ Requests = 1..NumRequests
BY ConstantsAssumption DEF IInv, Requests

\* A step for one request leaves the other ones as they are.
LEMMA FrameStep ==
  ASSUME IInv, NEW r \in Requests, up, NEW s \in RequestStates,
         req' = [req EXCEPT ![r] = s],
         UNCHANGED <<up, crashes, revoked, cap>>,
         balance' \in [Keys -> Nat],
         budget' \in [Keys \X Models -> Nat \cup {Uncapped}],
         usage' \in [Keys -> Nat],
         debited' \in [Requests -> Nat], credited' \in [Requests -> Nat],
         held' \in [Requests -> Nat], authorized' \in [Requests -> Nat],
         payment' \in [Requests -> Payments],
         lapsed' \subseteq Requests,
         \A q \in Requests : q # r =>
           /\ debited'[q] = debited[q] /\ credited'[q] = credited[q]
           /\ held'[q] = held[q] /\ authorized'[q] = authorized[q]
           /\ payment'[q] = payment[q] /\ (q \in lapsed' <=> q \in lapsed),
         \A x \in Keys \X Models : budget'[x] = Uncapped <=> budget[x] = Uncapped,
         Local(r, s, debited'[r], credited'[r], held'[r], authorized'[r], payment'[r],
               lapsed', budget'[Row(r)]),
         BudgetAccounted', UsagePart'
  PROVE  IInv'
<1>0. TypeOK /\ LocalPart /\ DownPart /\ BudgetPart /\ UsagePart
  BY Parts
<1>1. req' \in [Requests -> RequestStates] /\ req'[r] = s
      /\ \A q \in Requests : q # r => req'[q] = req[q]
  BY <1>0 DEF TypeOK
<1>2. TypeOK'
  BY <1>0, <1>1 DEF TypeOK
<1>3. LocalPart'
  <2>1. SUFFICES ASSUME NEW q \in Requests
                 PROVE  Local(q, req'[q], debited'[q], credited'[q], held'[q],
                              authorized'[q], payment'[q], lapsed', budget'[Row(q)])
    BY DEF LocalPart, Row
  <2>2. CASE q = r
    BY <1>1, <2>2
  <2>3. CASE q # r
    <3>1. Local(q, req[q], debited[q], credited[q], held[q], authorized[q], payment[q],
                lapsed, budget[Row(q)])
      BY <1>0 DEF LocalPart
    <3>2. /\ req'[q] = req[q] /\ debited'[q] = debited[q] /\ credited'[q] = credited[q]
          /\ held'[q] = held[q] /\ authorized'[q] = authorized[q]
          /\ payment'[q] = payment[q] /\ (q \in lapsed' <=> q \in lapsed)
      BY <1>1, <2>3
    <3>3. HoldsCharge(req[q], held[q], budget'[Row(q)])
      <4>1. CASE Payer[q] \in Keys
        <5>1. Row(q) \in Keys \X Models
          BY <4>1, ConstantsAssumption DEF Row
        <5>2. budget'[Row(q)] = Uncapped <=> budget[Row(q)] = Uncapped
          BY <5>1
        <5>3. QED
          BY <3>1, <5>2 DEF Local, HoldsCharge
      <4>2. CASE Payer[q] \notin Keys
        <5>1. req[q] \in RequestStates
          BY <1>0 DEF TypeOK
        <5>2. ~req[q].context
          BY <3>1, <4>2, <5>1 DEF Local, OnePayment, RequestStates
        <5>3. req[q].pc \in Budgeting => ~req[q].budgeted
          BY <3>1, <5>2 DEF Local, InHandler, Handling, Budgeting
        <5>4. QED
          BY <3>1, <5>3 DEF Local, HoldsCharge, Budgeting
      <4>3. QED
        BY <4>1, <4>2
    <3>4. QED
      BY <3>1, <3>2, <3>3 DEF Local, BeforeDebit, InHandler, AtTheEnd
  <2>4. QED
    BY <2>2, <2>3
<1>4. DownPart'
  BY DEF DownPart
<1>5. BudgetPart'
  BY <1>0 DEF BudgetPart
<1>6. QED
  BY <1>2, <1>3, <1>4, <1>5 DEF IInv

\* The sums are over amounts.
LEMMA SpentType ==
  ASSUME TypeOK, NEW k
  PROVE  Spent(k) \in [Requests -> Nat]
BY DEF TypeOK, RequestStates, Spent

\* The usage rows are backed as before if no recorded charge changes.
LEMMA UsageKept ==
  ASSUME UsagePart, usage' = usage, \A k \in Keys : Spent(k)' = Spent(k)
  PROVE  UsagePart'
<1>1. SUFFICES ASSUME NEW k \in Keys PROVE usage'[k] <= Total(Spent(k), NumRequests)'
  BY DEF UsagePart
<1>2. Total(Spent(k), NumRequests)' = Total(Spent(k), NumRequests)
  OBVIOUS
<1>3. QED
  BY <1>2 DEF UsagePart

\* A step that moves no money of the key: only the request goes on, its
\* client signs or the x402 layer settles.
LEMMA ControlStep ==
  ASSUME IInv, NEW r \in Requests, up, NEW s \in RequestStates,
         req[r].pc \notin {"settling", "served"},
         s.pc \notin {"settling", "served"} \/ ~s.context,
         req' = [req EXCEPT ![r] = s],
         UNCHANGED <<storeVars, usage, up, crashes, debited, credited, held, cap, lapsed>>,
         authorized' \in [Requests -> Nat], payment' \in [Requests -> Payments],
         \A q \in Requests : q # r => authorized'[q] = authorized[q] /\ payment'[q] = payment[q],
         Local(r, s, debited[r], credited[r], held[r], authorized'[r], payment'[r],
               lapsed, budget[Row(r)])
  PROVE  IInv' /\ Refined
<1> USE DEF storeVars
<1>0. TypeOK /\ BudgetPart /\ UsagePart
  BY Parts
<1>1. req'[r] = s /\ \A q \in Requests : q # r => req'[q] = req[q]
  BY <1>0 DEF TypeOK
<1>2. BudgetAccounted'
  BY <1>0 DEF BudgetPart, BudgetAccounted
<1>3. UsagePart'
  <2>1. SUFFICES ASSUME NEW k \in Keys PROVE usage'[k] <= Total(Spent(k), NumRequests)'
    BY DEF UsagePart
  <2>2. Spent(k)' = Spent(k)
    BY <1>1 DEF Spent
  <2>3. Total(Spent(k), NumRequests)' = Total(Spent(k), NumRequests)
    BY <2>2
  <2>4. QED
    BY <1>0, <2>3 DEF UsagePart
<1>4. Local(r, s, debited'[r], credited'[r], held'[r], authorized'[r], payment'[r],
            lapsed', budget'[Row(r)])
  OBVIOUS
<1>5. IInv'
  BY <1>0, <1>2, <1>3, <1>4, FrameStep DEF TypeOK
<1>6. QED
  BY <1>5 DEF Refined

\* The usual case of it.
LEMMA GotoStep ==
  ASSUME IInv, NEW r \in Requests, NEW from, NEW s \in RequestStates,
         Goto(r, from, s),
         from \notin {"settling", "served"},
         s.pc \notin {"settling", "served"},
         UNCHANGED <<storeVars, usage, up, crashes, historyVars>>,
         Local(r, s, debited[r], credited[r], held[r], authorized[r], payment[r],
               lapsed, budget[Row(r)])
  PROVE  IInv' /\ Refined
<1> USE DEF historyVars
<1>1. TypeOK
  BY Parts
<1>2. QED
  BY <1>1, ControlStep DEF Goto, TypeOK

\* What the invariant says of one request.
LEMMA Here ==
  ASSUME IInv, NEW r \in Requests
  PROVE  /\ Local(r, req[r], debited[r], credited[r], held[r], authorized[r], payment[r],
                  lapsed, budget[Row(r)])
         /\ req[r] \in RequestStates
         /\ debited[r] \in Nat /\ credited[r] \in Nat /\ held[r] \in Nat
         /\ authorized[r] \in Nat /\ payment[r] \in Payments
BY Parts DEF LocalPart, TypeOK

\* Nothing is sent to the chain for a request before its 2xx.
LEMMA NothingSent ==
  ASSUME IInv, NEW r \in Requests,
         req[r].pc \notin {"charging", "confirming", "served", "gone"}
  PROVE  /\ payment[r] \in Payments /\ ~payment[r].due /\ ~payment[r].missed
         /\ payment[r].pending = 0 /\ payment[r].settled = 0
<1>1. payment[r].pending \in Nat /\ payment[r].settled \in Nat
  BY Here DEF Payments
<1>2. ~payment[r].due
  BY Here DEF Local, OnePayment
<1>3. ~(payment[r].pending + payment[r].settled > 0) /\ ~payment[r].missed
  BY <1>2, Here DEF Local, OnePayment
<1>4. QED
  BY <1>1, <1>2, <1>3, Here

-----------------------------------------------------------------------------
(* Records of a request.                                                   *)

LEMMA NewRequestType == NewRequest \in RequestStates
BY DEF NewRequest, RequestStates, Awaiting

LEMMA PcUpdate ==
  ASSUME NEW s \in RequestStates, NEW pc,
         pc \in Awaiting \cup {"new", "debiting", "budgeting", "selecting", "settling",
                               "unbudgeting", "refunding", "served", "refused", "gone"}
  PROVE  /\ [s EXCEPT !.pc = pc] \in RequestStates
         /\ [s EXCEPT !.pc = pc].pc = pc
         /\ [s EXCEPT !.pc = pc].bearer = s.bearer
         /\ [s EXCEPT !.pc = pc].signed = s.signed
         /\ [s EXCEPT !.pc = pc].seen = s.seen
         /\ [s EXCEPT !.pc = pc].price = s.price
         /\ [s EXCEPT !.pc = pc].context = s.context
         /\ [s EXCEPT !.pc = pc].charge = s.charge
         /\ [s EXCEPT !.pc = pc].budgeted = s.budgeted
         /\ [s EXCEPT !.pc = pc].candidates = s.candidates
         /\ [s EXCEPT !.pc = pc].tried = s.tried
BY DEF RequestStates

\* The record of a request that is over.
LEMMA EndedIs ==
  ASSUME NEW o \in {"served", "refused", "gone"}
  PROVE  /\ Ended(o) \in RequestStates
         /\ Ended(o).pc = o /\ ~Ended(o).bearer /\ Ended(o).charge = 0
         /\ ~Ended(o).context /\ Ended(o).signed = 0 /\ ~Ended(o).budgeted /\ Ended(o).tried = <<>>
BY NewRequestType, PcUpdate DEF Ended, NewRequest

\* The record of a request that reaches the handler.
LEMMA PaidIs ==
  ASSUME NEW a \in Nat, NEW w \in BOOLEAN
  PROVE  /\ Paid(a, w) \in RequestStates
         /\ Paid(a, w).pc = "quoting" /\ ~Paid(a, w).bearer /\ Paid(a, w).charge = 0
         /\ Paid(a, w).price = a /\ Paid(a, w).context = w
         /\ ~Paid(a, w).budgeted /\ Paid(a, w).tried = <<>>
<1> DEFINE s == [NewRequest EXCEPT !.pc = "quoting"]
<1>1. /\ s \in RequestStates /\ s.pc = "quoting" /\ ~s.bearer /\ s.charge = 0
      /\ ~s.budgeted /\ s.tried = <<>>
  BY NewRequestType, PcUpdate DEF NewRequest, Awaiting
<1>2. Paid(a, w) = [[s EXCEPT !.price = a] EXCEPT !.context = w]
  BY NewRequestType DEF Paid, RequestStates
<1> HIDE DEF s
<1>3. QED
  BY <1>1, <1>2 DEF RequestStates

\* A request that ends early, before the handler or through a disconnect.
LEMMA GoneIsLocal ==
  ASSUME NEW r, NEW s, NEW d \in Nat, NEW c \in Nat, NEW h \in Nat, NEW a \in Nat,
         NEW z \in Payments, NEW l, NEW b, NEW b2,
         Local(r, s, d, c, h, a, z, l, b), s.pc # "served"
  PROVE  Local(r, Ended("gone"), d, c, h, a, z, l, b2)
<1>1. z.pending \in Nat /\ z.settled \in Nat
  BY DEF Payments
<1>2. Len(<<>>) = 0 /\ MaxAttempts \in Nat
  BY ConstantsAssumption
<1>3. QED
  BY <1>1, <1>2, EndedIs
     DEF Local, BeforeDebit, InHandler, HoldsCharge, AtTheEnd, OnePayment, Failover,
         Early, Handling, Budgeting

\* A request of a key got its response: what is left to show is its cost.
LEMMA AnsweredIsLocal ==
  ASSUME NEW r, NEW s \in RequestStates, s.pc \in {"served", "refused"},
         ~s.bearer, s.tried = <<>>,
         NEW d \in Nat, NEW c \in Nat, NEW h, NEW a \in Nat, NEW z, NEW l, NEW b,
         Payer[r] \in Keys, c <= d, a <= ClientCap,
         ~z.due, ~z.missed, z.pending = 0, z.settled = 0,
         AtTheEnd(r, s, d, c, h, z, l)
  PROVE  Local(r, s, d, c, h, a, z, l, b)
<1>1. Len(<<>>) = 0 /\ MaxAttempts \in Nat
  BY ConstantsAssumption
<1>2. OnePayment(r, s, d, c, a, z)
  BY DEF OnePayment
<1>3. QED
  BY <1>1, <1>2
     DEF Local, BeforeDebit, InHandler, HoldsCharge, Failover, Early, Handling, Budgeting

-----------------------------------------------------------------------------
(* The steps of a request that move no money.                              *)

\* A request that got nothing yet is refused.
LEMMA RefuseEarly ==
  ASSUME IInv, NEW r \in Requests, NEW from \in Early, Goto(r, from, Ended("refused")),
         UNCHANGED <<storeVars, usage, up, crashes, historyVars>>
  PROVE  IInv' /\ Refined
<1>1. req[r].pc = from
  BY DEF Goto
<1>2. Local(r, Ended("refused"), debited[r], credited[r], held[r], authorized[r], payment[r],
            lapsed, budget[Row(r)])
  <2>1. Len(<<>>) = 0 /\ MaxAttempts \in Nat
    BY ConstantsAssumption
  <2>2. QED
    BY <1>1, <2>1, Here, EndedIs
       DEF Local, BeforeDebit, InHandler, HoldsCharge, AtTheEnd, OnePayment, Failover,
           Early, Handling, Budgeting
<1>3. from \notin {"settling", "served"}
  BY DEF Early
<1>4. QED
  BY <1>2, <1>3, EndedIs, GotoStep

\* A request goes on before its debit, with the same amounts.
LEMMA EarlyStep ==
  ASSUME IInv, NEW r \in Requests, NEW from \in Early, NEW s \in RequestStates,
         Goto(r, from, s),
         s.pc \in Early,
         s.bearer => Payer[r] \in Keys,
         s.pc \in {"pricing", "debiting"} => s.bearer,
         s.context = req[r].context, s.charge = req[r].charge, s.signed = req[r].signed,
         s.budgeted = req[r].budgeted, s.tried = req[r].tried,
         UNCHANGED <<storeVars, usage, up, crashes, historyVars>>
  PROVE  IInv' /\ Refined
<1>1. req[r].pc = from
  BY DEF Goto
<1>2. Local(r, s, debited[r], credited[r], held[r], authorized[r], payment[r],
            lapsed, budget[Row(r)])
  BY <1>1, Here
     DEF Local, BeforeDebit, InHandler, HoldsCharge, AtTheEnd, OnePayment, Failover,
         Early, Handling, Budgeting
<1>3. from \notin {"settling", "served"} /\ s.pc \notin {"settling", "served"}
  BY DEF Early
<1>4. QED
  BY <1>2, <1>3, GotoStep

LEMMA SendStep ==
  ASSUME IInv, NEW r \in Requests, Send(r)
  PROVE  IInv' /\ Refined
<1>0. PICK w \in BOOLEAN : /\ Goto(r, "new", [At(r, "arriving") EXCEPT !.bearer = w])
                           /\ w => Payer[r] \in Keys
                           /\ UNCHANGED <<storeVars, usage, up, crashes, historyVars>>
  BY ConstantsAssumption DEF Send
<1>1. PICK s : s = [At(r, "arriving") EXCEPT !.bearer = w]
  OBVIOUS
<1>2. /\ s \in RequestStates /\ s.pc = "arriving" /\ s.bearer = w
      /\ s.charge = req[r].charge /\ s.signed = req[r].signed
      /\ s.context = req[r].context /\ s.budgeted = req[r].budgeted /\ s.tried = req[r].tried
  BY <1>1, Here DEF At, RequestStates, Awaiting
<1>3. Goto(r, "new", s)
  BY <1>0, <1>1
<1>4. QED
  BY <1>0, <1>2, <1>3, EarlyStep DEF Early

LEMMA LookupStep ==
  ASSUME IInv, NEW r \in Requests, Lookup(r)
  PROVE  IInv' /\ Refined
<1>0. UNCHANGED <<storeVars, usage, up, crashes, historyVars>>
  BY DEF Lookup
<1>1. CASE Goto(r, "arriving", Ended("refused"))
  BY <1>0, <1>1, RefuseEarly DEF Early
<1>2. CASE ~req[r].bearer /\ Goto(r, "arriving", At(r, "x402"))
  <2>1. PICK s : s = At(r, "x402")
    OBVIOUS
  <2>2. /\ s \in RequestStates /\ s.pc = "x402" /\ ~s.bearer
        /\ s.charge = req[r].charge /\ s.signed = req[r].signed
        /\ s.context = req[r].context /\ s.budgeted = req[r].budgeted /\ s.tried = req[r].tried
    BY <1>2, <2>1, Here DEF At, RequestStates, Awaiting
  <2>3. Goto(r, "arriving", s)
    BY <1>2, <2>1
  <2>4. QED
    BY <1>0, <2>2, <2>3, EarlyStep DEF Early
<1>3. CASE /\ req[r].bearer
           /\ Goto(r, "arriving", [At(r, "pricing") EXCEPT !.seen = balance[Payer[r]]])
  <2>1. Payer[r] \in Keys
    BY <1>3, Here DEF Local, BeforeDebit
  <2>2. PICK n \in Nat : n = balance[Payer[r]]
    BY <2>1, Parts DEF TypeOK
  <2>3. PICK s : s = [At(r, "pricing") EXCEPT !.seen = n]
    OBVIOUS
  <2>4. /\ s \in RequestStates /\ s.pc = "pricing" /\ s.bearer
        /\ s.charge = req[r].charge /\ s.signed = req[r].signed
        /\ s.context = req[r].context /\ s.budgeted = req[r].budgeted /\ s.tried = req[r].tried
    BY <1>3, <2>3, Here DEF At, RequestStates, Awaiting
  <2>5. Goto(r, "arriving", s)
    BY <1>3, <2>2, <2>3
  <2>6. QED
    BY <1>0, <2>1, <2>4, <2>5, EarlyStep DEF Early
<1>4. QED
  BY <1>1, <1>2, <1>3 DEF Lookup

LEMMA PriceForStep ==
  ASSUME IInv, NEW r \in Requests, PriceFor(r)
  PROVE  IInv' /\ Refined
<1>0. UNCHANGED <<storeVars, usage, up, crashes, historyVars>>
  BY DEF PriceFor
<1>1. CASE Goto(r, "pricing", Ended("refused"))
  BY <1>0, <1>1, RefuseEarly DEF Early
<1>2. CASE Goto(r, "pricing", [At(r, "x402") EXCEPT !.seen = 0])
  <2>1. PICK s : s = [At(r, "x402") EXCEPT !.seen = 0]
    OBVIOUS
  <2>2. /\ s \in RequestStates /\ s.pc = "x402" /\ s.bearer = req[r].bearer
        /\ s.charge = req[r].charge /\ s.signed = req[r].signed
        /\ s.context = req[r].context /\ s.budgeted = req[r].budgeted /\ s.tried = req[r].tried
    BY <2>1, Here DEF At, RequestStates, Awaiting
  <2>3. Goto(r, "pricing", s) /\ (s.bearer => Payer[r] \in Keys)
    BY <1>2, <2>1, <2>2, Here DEF Local, BeforeDebit
  <2>4. QED
    BY <1>0, <2>2, <2>3, EarlyStep DEF Early
<1>3. CASE \E p \in Prices :
             Goto(r, "pricing", [At(r, "debiting") EXCEPT !.seen = 0, !.price = p])
  <2>1. PICK p \in Prices :
          Goto(r, "pricing", [At(r, "debiting") EXCEPT !.seen = 0, !.price = p])
    BY <1>3
  <2>2. p \in Nat
    BY ConstantsAssumption
  <2>3. PICK s : s = [At(r, "debiting") EXCEPT !.seen = 0, !.price = p]
    OBVIOUS
  <2>4. /\ s \in RequestStates /\ s.pc = "debiting" /\ s.bearer = req[r].bearer
        /\ s.charge = req[r].charge /\ s.signed = req[r].signed
        /\ s.context = req[r].context /\ s.budgeted = req[r].budgeted /\ s.tried = req[r].tried
    <3>1. PICK t : t = [At(r, "debiting") EXCEPT !.seen = 0]
      OBVIOUS
    <3>2. /\ t \in RequestStates /\ t.pc = "debiting" /\ t.bearer = req[r].bearer
          /\ t.charge = req[r].charge /\ t.signed = req[r].signed
          /\ t.context = req[r].context /\ t.budgeted = req[r].budgeted /\ t.tried = req[r].tried
      BY <3>1, Here DEF At, RequestStates, Awaiting
    <3>3. s = [t EXCEPT !.price = p]
      BY <2>3, <3>1
    <3>4. QED
      BY <2>2, <3>2, <3>3 DEF RequestStates
  <2>5. req[r].bearer /\ Payer[r] \in Keys
    BY <2>1, Here DEF Goto, Local, BeforeDebit
  <2>6. Goto(r, "pricing", s)
    BY <2>1, <2>3
  <2>7. QED
    BY <1>0, <2>4, <2>5, <2>6, EarlyStep DEF Early
<1>4. QED
  BY <1>1, <1>2, <1>3 DEF PriceFor

LEMMA ChallengeStep ==
  ASSUME IInv, NEW r \in Requests, Challenge(r)
  PROVE  IInv' /\ Refined
<1> USE DEF historyVars
<1>0. /\ req[r].signed = 0
      /\ UNCHANGED <<storeVars, usage, up, crashes, debited, credited, held, cap, payment, lapsed>>
  BY DEF Challenge
<1>1. CASE Goto(r, "x402", Ended("refused")) /\ UNCHANGED authorized
  BY <1>0, <1>1, RefuseEarly DEF Early
<1>2. CASE \E p \in Prices :
             /\ p > 0 /\ p <= ClientCap
             /\ Goto(r, "x402", [At(r, "arriving") EXCEPT !.signed = p])
             /\ authorized' = [authorized EXCEPT ![r] = @ + p]
  <2>1. PICK p \in Prices :
          /\ p > 0 /\ p <= ClientCap
          /\ Goto(r, "x402", [At(r, "arriving") EXCEPT !.signed = p])
          /\ authorized' = [authorized EXCEPT ![r] = @ + p]
    BY <1>2
  <2>2. p \in Nat
    BY ConstantsAssumption
  <2>3. PICK s : s = [At(r, "arriving") EXCEPT !.signed = p]
    OBVIOUS
  <2>4. /\ s \in RequestStates /\ s.pc = "arriving" /\ s.bearer = req[r].bearer
        /\ s.charge = req[r].charge /\ s.signed = p
        /\ s.context = req[r].context /\ s.budgeted = req[r].budgeted /\ s.tried = req[r].tried
    BY <2>2, <2>3, Here DEF At, RequestStates, Awaiting
  <2>5. up /\ req[r].pc = "x402" /\ req' = [req EXCEPT ![r] = s]
    BY <2>1, <2>3 DEF Goto
  <2>6. authorized[r] = 0
    BY <1>0, <2>5, Here DEF Local, BeforeDebit, Early
  <2>7. /\ authorized' \in [Requests -> Nat] /\ authorized'[r] = p
        /\ \A q \in Requests : q # r => authorized'[q] = authorized[q]
    BY <2>1, <2>2, <2>6, Parts DEF TypeOK
  <2>8. Local(r, s, debited[r], credited[r], held[r], authorized'[r], payment[r],
              lapsed, budget[Row(r)])
    <3>1. OnePayment(r, s, debited[r], credited[r], authorized'[r], payment[r])
      <4>1. /\ ~payment[r].due /\ ~payment[r].missed
            /\ payment[r].pending = 0 /\ payment[r].settled = 0
        BY <2>5, NothingSent
      <4>2. QED
        BY <2>1, <2>2, <2>4, <2>7, <4>1, Here DEF Local, OnePayment
    <3>2. QED
      BY <2>4, <2>5, <2>7, <3>1, Here
         DEF Local, BeforeDebit, InHandler, HoldsCharge, AtTheEnd, Failover,
             Early, Handling, Budgeting
  <2>9. QED
    BY <1>0, <2>4, <2>5, <2>7, <2>8, ControlStep, Parts DEF TypeOK
<1>3. QED
  BY <1>1, <1>2 DEF Challenge

LEMMA VerifyPaymentStep ==
  ASSUME IInv, NEW r \in Requests, VerifyPayment(r)
  PROVE  IInv' /\ Refined
<1>0. UNCHANGED <<storeVars, usage, up, crashes, historyVars>>
  BY DEF VerifyPayment
<1>1. CASE Goto(r, "x402", Ended("refused"))
  BY <1>0, <1>1, RefuseEarly DEF Early
<1>2. CASE Goto(r, "x402", Paid(req[r].signed, FALSE))
  <2>1. PICK n \in Nat : n = req[r].signed
    BY Here DEF RequestStates
  <2>2. PICK s : s = Paid(n, FALSE)
    OBVIOUS
  <2>3. Goto(r, "x402", s) /\ req[r].pc = "x402"
    BY <1>2, <2>1, <2>2 DEF Goto
  <2>4. /\ s \in RequestStates /\ s.pc = "quoting" /\ ~s.bearer /\ s.charge = 0
        /\ s.price = n /\ ~s.context /\ ~s.budgeted /\ s.tried = <<>>
    BY <2>2, PaidIs
  <2>5. Local(r, s, debited[r], credited[r], held[r], authorized[r], payment[r],
              lapsed, budget[Row(r)])
    BY <2>1, <2>3, <2>4, Here
       DEF Local, BeforeDebit, InHandler, HoldsCharge, AtTheEnd, OnePayment, Failover,
           Early, Handling, Budgeting
  <2>6. QED
    BY <1>0, <2>3, <2>4, <2>5, GotoStep
<1>3. QED
  BY <1>1, <1>2 DEF VerifyPayment

\* Where an error of the handler leads.
LEMMA AfterErrorStep ==
  ASSUME IInv, NEW r \in Requests,
         NEW from \in {"quoting", "budgeting", "listing", "selecting"},
         Goto(r, from, AfterError(r)),
         UNCHANGED <<storeVars, usage, up, crashes, historyVars>>
  PROVE  IInv' /\ Refined
<1>1. PICK s : s = AfterError(r)
  OBVIOUS
<1>2. PICK t : t = [req[r] EXCEPT !.candidates = {}, !.tried = <<>>]
  OBVIOUS
<1>3. /\ t \in RequestStates /\ t.bearer = req[r].bearer /\ t.tried = <<>>
      /\ t.charge = req[r].charge /\ t.price = req[r].price
      /\ t.context = req[r].context /\ t.budgeted = req[r].budgeted
  <2>1. PICK u : u = [req[r] EXCEPT !.candidates = {}]
    OBVIOUS
  <2>2. /\ u \in RequestStates /\ u.bearer = req[r].bearer
        /\ u.charge = req[r].charge /\ u.price = req[r].price
        /\ u.context = req[r].context /\ u.budgeted = req[r].budgeted
    BY <2>1, Here DEF RequestStates
  <2>3. t = [u EXCEPT !.tried = <<>>]
    BY <1>2, <2>1
  <2>4. PICK e \in Seq(Providers) : e = <<>>
    <3>1. <<>> \in Seq(Providers)
      OBVIOUS
    <3>2. QED
      BY <3>1, Zenon
  <2>5. QED
    BY <2>2, <2>3, <2>4 DEF RequestStates
<1>4. \/ req[r].budgeted /\ s = [t EXCEPT !.pc = "unbudgeting"]
      \/ ~req[r].budgeted /\ req[r].context /\ s = [t EXCEPT !.pc = "refunding"]
      \/ ~req[r].budgeted /\ ~req[r].context /\ s = Ended("refused")
  BY <1>1, <1>2 DEF AfterError, HasContext
<1>5. Goto(r, from, s) /\ req[r].pc = from
  BY <1>1 DEF Goto
<1>6. Len(<<>>) = 0 /\ MaxAttempts \in Nat
  BY ConstantsAssumption
<1>7. CASE req[r].budgeted /\ s = [t EXCEPT !.pc = "unbudgeting"]
  <2>1. /\ s \in RequestStates /\ s.pc = "unbudgeting" /\ s.bearer = req[r].bearer
        /\ s.tried = <<>> /\ s.charge = req[r].charge /\ s.price = req[r].price
        /\ s.context = req[r].context /\ s.budgeted = req[r].budgeted
    BY <1>3, <1>7, PcUpdate
  <2>2. Local(r, s, debited[r], credited[r], held[r], authorized[r], payment[r],
              lapsed, budget[Row(r)])
    <3>1. req[r].context
      BY <1>5, <1>7, Here DEF Local, InHandler, Handling
    <3>2. HoldsCharge(s, held[r], budget[Row(r)])
      BY <1>5, <1>7, <2>1, Here DEF Local, InHandler, HoldsCharge, Budgeting
    <3>3. BeforeDebit(r, s, debited[r], credited[r], held[r], authorized[r], lapsed)
      BY <2>1, Here DEF Local, BeforeDebit, Early
    <3>4. InHandler(r, s, debited[r], credited[r], held[r], authorized[r], lapsed)
      BY <1>5, <1>7, <2>1, <3>1, Here DEF Local, InHandler, Handling
    <3>5. OnePayment(r, s, debited[r], credited[r], authorized[r], payment[r])
      BY <1>5, <2>1, Here DEF Local, OnePayment
    <3>6. QED
      BY <1>6, <2>1, <3>2, <3>3, <3>4, <3>5 DEF Local, AtTheEnd, Failover
  <2>3. QED
    BY <1>5, <2>1, <2>2, GotoStep
<1>8. CASE ~req[r].budgeted /\ req[r].context /\ s = [t EXCEPT !.pc = "refunding"]
  <2>1. /\ s \in RequestStates /\ s.pc = "refunding" /\ s.bearer = req[r].bearer
        /\ s.tried = <<>> /\ s.charge = req[r].charge /\ s.price = req[r].price
        /\ s.context = req[r].context /\ s.budgeted = req[r].budgeted
    BY <1>3, <1>8, PcUpdate
  <2>2. Local(r, s, debited[r], credited[r], held[r], authorized[r], payment[r],
              lapsed, budget[Row(r)])
    <3>1. BeforeDebit(r, s, debited[r], credited[r], held[r], authorized[r], lapsed)
      BY <2>1, Here DEF Local, BeforeDebit, Early
    <3>2. InHandler(r, s, debited[r], credited[r], held[r], authorized[r], lapsed)
      BY <1>5, <1>8, <2>1, Here DEF Local, InHandler, Handling
    <3>3. OnePayment(r, s, debited[r], credited[r], authorized[r], payment[r])
      BY <1>5, <2>1, Here DEF Local, OnePayment
    <3>4. QED
      BY <1>6, <2>1, <3>1, <3>2, <3>3
         DEF Local, HoldsCharge, AtTheEnd, Failover, Budgeting
  <2>3. QED
    BY <1>5, <2>1, <2>2, GotoStep
<1>9. CASE ~req[r].budgeted /\ ~req[r].context /\ s = Ended("refused")
  <2>1. Local(r, s, debited[r], credited[r], held[r], authorized[r], payment[r],
              lapsed, budget[Row(r)])
    BY <1>5, <1>6, <1>9, EndedIs, Here
       DEF Local, BeforeDebit, InHandler, HoldsCharge, AtTheEnd, OnePayment, Failover,
           Early, Handling, Budgeting
  <2>2. s \in RequestStates /\ s.pc = "refused"
    BY <1>9, EndedIs
  <2>3. QED
    BY <1>5, <2>1, <2>2, GotoStep
<1>10. QED
  BY <1>4, <1>7, <1>8, <1>9

LEMMA QuoteStep ==
  ASSUME IInv, NEW r \in Requests, Quote(r)
  PROVE  IInv' /\ Refined
<1>0. UNCHANGED <<storeVars, usage, up, crashes, historyVars>>
  BY DEF Quote
<1>1. CASE Goto(r, "quoting", AfterError(r))
  BY <1>0, <1>1, AfterErrorStep
<1>2. CASE \E q \in Prices :
             /\ q <= req[r].price
             /\ Goto(r, "quoting",
                  [At(r, IF HasContext(r) THEN "budgeting" ELSE "listing") EXCEPT !.charge = q])
  <2>1. PICK q \in Prices, pc \in {"budgeting", "listing"} :
          /\ q <= req[r].price
          /\ pc = "budgeting" <=> req[r].context
          /\ Goto(r, "quoting", [At(r, pc) EXCEPT !.charge = q])
    BY <1>2 DEF HasContext
  <2>2. q \in Nat
    BY ConstantsAssumption
  <2>3. PICK s : s = [At(r, pc) EXCEPT !.charge = q]
    OBVIOUS
  <2>4. /\ s \in RequestStates /\ s.pc = pc /\ s.bearer = req[r].bearer
        /\ s.charge = q /\ s.price = req[r].price
        /\ s.context = req[r].context /\ s.budgeted = req[r].budgeted /\ s.tried = req[r].tried
    <3>1. PICK t : t = [req[r] EXCEPT !.pc = pc]
      OBVIOUS
    <3>2. /\ t \in RequestStates /\ t.pc = pc /\ t.bearer = req[r].bearer
          /\ t.price = req[r].price
          /\ t.context = req[r].context /\ t.budgeted = req[r].budgeted /\ t.tried = req[r].tried
      <4>1. pc \in Awaiting \cup {"new", "debiting", "budgeting", "selecting", "settling",
                                 "unbudgeting", "refunding", "served", "refused", "gone"}
        BY DEF Awaiting
      <4>2. req[r] \in RequestStates
        BY Here
      <4>3. QED
        BY <3>1, <4>1, <4>2, PcUpdate
    <3>3. s = [t EXCEPT !.charge = q]
      BY <2>3, <3>1 DEF At
    <3>4. QED
      BY <2>2, <3>2, <3>3 DEF RequestStates
  <2>5. Goto(r, "quoting", s) /\ req[r].pc = "quoting"
    BY <2>1, <2>3 DEF Goto
  <2>6. Local(r, s, debited[r], credited[r], held[r], authorized[r], payment[r],
              lapsed, budget[Row(r)])
    BY <2>1, <2>4, <2>5, Here
       DEF Local, BeforeDebit, InHandler, HoldsCharge, AtTheEnd, OnePayment, Failover,
           Early, Handling, Budgeting
  <2>7. QED
    BY <1>0, <2>4, <2>5, <2>6, GotoStep
<1>3. QED
  BY <1>1, <1>2 DEF Quote

LEMMA ListProvidersStep ==
  ASSUME IInv, NEW r \in Requests, ListProviders(r)
  PROVE  IInv' /\ Refined
<1>0. UNCHANGED <<storeVars, usage, up, crashes, historyVars>>
  BY DEF ListProviders
<1>1. CASE Goto(r, "listing", AfterError(r))
  BY <1>0, <1>1, AfterErrorStep
<1>2. CASE \E C \in SUBSET Providers :
             Goto(r, "listing", [At(r, "selecting") EXCEPT !.candidates = C])
  <2>1. PICK C \in SUBSET Providers :
          Goto(r, "listing", [At(r, "selecting") EXCEPT !.candidates = C])
    BY <1>2
  <2>2. PICK s : s = [At(r, "selecting") EXCEPT !.candidates = C]
    OBVIOUS
  <2>3. /\ s \in RequestStates /\ s.pc = "selecting" /\ s.bearer = req[r].bearer
        /\ s.charge = req[r].charge /\ s.price = req[r].price
        /\ s.context = req[r].context /\ s.budgeted = req[r].budgeted /\ s.tried = req[r].tried
    <3>1. PICK t : t = [req[r] EXCEPT !.pc = "selecting"]
      OBVIOUS
    <3>2. /\ t \in RequestStates /\ t.pc = "selecting" /\ t.bearer = req[r].bearer
          /\ t.charge = req[r].charge /\ t.price = req[r].price
          /\ t.context = req[r].context /\ t.budgeted = req[r].budgeted /\ t.tried = req[r].tried
      BY <3>1, Here, PcUpdate
    <3>3. s = [t EXCEPT !.candidates = C]
      BY <2>2, <3>1 DEF At
    <3>4. QED
      BY <3>2, <3>3 DEF RequestStates
  <2>4. Goto(r, "listing", s) /\ req[r].pc = "listing"
    BY <2>1, <2>2 DEF Goto
  <2>5. s.tried = <<>> /\ 1..Len(<<>>) = {}
    BY <2>3, <2>4, Here DEF Local, Failover
  <2>6. Failover(s)
    BY <2>3, <2>5, ConstantsAssumption DEF Failover
  <2>7. Local(r, s, debited[r], credited[r], held[r], authorized[r], payment[r],
              lapsed, budget[Row(r)])
    BY <2>3, <2>4, <2>6, Here
       DEF Local, BeforeDebit, InHandler, HoldsCharge, AtTheEnd, OnePayment,
           Early, Handling, Budgeting
  <2>8. QED
    BY <1>0, <2>3, <2>4, <2>7, GotoStep
<1>3. QED
  BY <1>1, <1>2 DEF ListProviders

\* The next provider is a candidate, so it was not called before.
LEMMA SelectProviderStep ==
  ASSUME IInv, NEW r \in Requests, SelectProvider(r)
  PROVE  IInv' /\ Refined
<1>0. UNCHANGED <<storeVars, usage, up, crashes, historyVars>>
  BY DEF SelectProvider
<1>1. CASE Goto(r, "selecting", AfterError(r))
  BY <1>0, <1>1, AfterErrorStep
<1>2. CASE \E p \in req[r].candidates :
             /\ Len(req[r].tried) < MaxAttempts
             /\ Goto(r, "selecting", [At(r, "calling") EXCEPT !.tried = Append(@, p)])
  <2>1. PICK p \in req[r].candidates :
             /\ Len(req[r].tried) < MaxAttempts
             /\ Goto(r, "selecting", [At(r, "calling") EXCEPT !.tried = Append(@, p)])
    BY <1>2
  <2>2. PICK t : t = [req[r] EXCEPT !.pc = "calling"]
    OBVIOUS
  <2>3. /\ t \in RequestStates /\ t.pc = "calling" /\ t.bearer = req[r].bearer
        /\ t.charge = req[r].charge /\ t.price = req[r].price
        /\ t.context = req[r].context /\ t.budgeted = req[r].budgeted /\ t.tried = req[r].tried
        /\ t.candidates = req[r].candidates
    BY <2>2, Here, PcUpdate DEF Awaiting
  <2>4. PICK s : s = [t EXCEPT !.tried = Append(t.tried, p)]
    OBVIOUS
  <2>5. /\ p \in Providers /\ t.tried \in Seq(Providers) /\ p \in t.candidates
    BY <2>1, <2>3 DEF RequestStates
  <2>6. PICK u \in Seq(Providers) : u = Append(t.tried, p)
    <3>1. PICK w \in Seq(Providers) : w = t.tried
      BY <2>5
    <3>2. Append(w, p) \in Seq(Providers)
      BY <2>5
    <3>3. QED
      BY <3>1, <3>2
  <2>7. /\ s \in RequestStates /\ s.pc = "calling" /\ s.bearer = req[r].bearer
        /\ s.charge = req[r].charge /\ s.price = req[r].price
        /\ s.context = req[r].context /\ s.budgeted = req[r].budgeted /\ s.tried = u
        /\ s.candidates = t.candidates
    BY <2>3, <2>4, <2>6 DEF RequestStates
  <2>8. Goto(r, "selecting", s) /\ req[r].pc = "selecting"
    <3>1. s = [At(r, "calling") EXCEPT !.tried = Append(@, p)]
      BY <2>2, <2>4 DEF At
    <3>2. QED
      BY <2>1, <3>1 DEF Goto
  <2>9. /\ Len(u) = Len(t.tried) + 1 /\ Len(t.tried) \in Nat
        /\ u[Len(u)] = p
        /\ \A i \in 1..Len(t.tried) : u[i] = t.tried[i]
    BY <2>5, <2>6
  <2>10. \A i \in 1..Len(t.tried) : t.tried[i] \notin t.candidates
    BY <2>3, <2>8, Here DEF Local, Failover
  <2>11. \A i, j \in 1..Len(t.tried) : t.tried[i] = t.tried[j] => i = j
    BY <2>3, Here DEF Local, Failover
  <2>12. \A i \in 1..Len(u) : i \in 1..Len(t.tried) \/ i = Len(u)
    BY <2>9
  <2>13. \A i, j \in 1..Len(u) : u[i] = u[j] => i = j
    BY <2>5, <2>9, <2>10, <2>11, <2>12
  <2>14. Failover(s)
    BY <2>1, <2>3, <2>7, <2>9, <2>10, <2>13, ConstantsAssumption DEF Failover
  <2>15. Local(r, s, debited[r], credited[r], held[r], authorized[r], payment[r],
               lapsed, budget[Row(r)])
    BY <2>7, <2>8, <2>14, Here
       DEF Local, BeforeDebit, InHandler, HoldsCharge, AtTheEnd, OnePayment,
           Early, Handling, Budgeting
  <2>16. QED
    BY <1>0, <2>7, <2>8, <2>15, GotoStep
<1>3. QED
  BY <1>1, <1>2 DEF SelectProvider

\* A provider that failed is no candidate any more.
LEMMA FailStep ==
  ASSUME IInv, NEW r \in Requests, Fail(r)
  PROVE  IInv' /\ Refined
<1>0. /\ Goto(r, "calling",
           [At(r, "selecting") EXCEPT !.candidates = @ \ {req[r].tried[Len(req[r].tried)]}])
      /\ UNCHANGED <<storeVars, usage, up, crashes, historyVars>>
  BY DEF Fail
<1>1. PICK t : t = [req[r] EXCEPT !.pc = "selecting"]
  OBVIOUS
<1>2. /\ t \in RequestStates /\ t.pc = "selecting" /\ t.bearer = req[r].bearer
      /\ t.charge = req[r].charge /\ t.price = req[r].price
      /\ t.context = req[r].context /\ t.budgeted = req[r].budgeted /\ t.tried = req[r].tried
      /\ t.candidates = req[r].candidates
  BY <1>1, Here, PcUpdate DEF Awaiting
<1>3. PICK last : last = t.tried[Len(t.tried)]
  OBVIOUS
<1>4. PICK s : s = [t EXCEPT !.candidates = t.candidates \ {last}]
  OBVIOUS
<1>5. /\ s \in RequestStates /\ s.pc = "selecting" /\ s.bearer = req[r].bearer
      /\ s.charge = req[r].charge /\ s.price = req[r].price
      /\ s.context = req[r].context /\ s.budgeted = req[r].budgeted /\ s.tried = t.tried
      /\ s.candidates = t.candidates \ {last}
  BY <1>2, <1>4 DEF RequestStates
<1>6. Goto(r, "calling", s) /\ req[r].pc = "calling"
  <2>1. s = [At(r, "selecting") EXCEPT !.candidates = @ \ {req[r].tried[Len(req[r].tried)]}]
    BY <1>1, <1>2, <1>3, <1>4 DEF At
  <2>2. QED
    BY <1>0, <2>1 DEF Goto
<1>7. Len(t.tried) \in Nat
  BY <1>2 DEF RequestStates
<1>8. \A i \in 1..Len(t.tried) : t.tried[i] \notin s.candidates
  <2>1. \A i \in 1..(Len(t.tried) - 1) : t.tried[i] \notin t.candidates
    BY <1>2, <1>6, Here DEF Local, Failover
  <2>2. \A i \in 1..Len(t.tried) : i \in 1..(Len(t.tried) - 1) \/ i = Len(t.tried)
    BY <1>7
  <2>3. QED
    BY <1>3, <1>5, <2>1, <2>2
<1>9. Failover(s)
  BY <1>2, <1>5, <1>8, Here DEF Local, Failover
<1>10. Local(r, s, debited[r], credited[r], held[r], authorized[r], payment[r],
             lapsed, budget[Row(r)])
  BY <1>5, <1>6, <1>9, Here
     DEF Local, BeforeDebit, InHandler, HoldsCharge, AtTheEnd, OnePayment,
         Early, Handling, Budgeting
<1>11. QED
  BY <1>0, <1>5, <1>6, <1>10, GotoStep

\* The record of a request that was served.
LEMMA ServedIs ==
  ASSUME NEW q \in Nat
  PROVE  /\ [Ended("served") EXCEPT !.charge = q] \in RequestStates
         /\ [Ended("served") EXCEPT !.charge = q].pc = "served"
         /\ ~[Ended("served") EXCEPT !.charge = q].bearer
         /\ ~[Ended("served") EXCEPT !.charge = q].context
         /\ [Ended("served") EXCEPT !.charge = q].charge = q
         /\ [Ended("served") EXCEPT !.charge = q].tried = <<>>
<1>1. PICK t : t = Ended("served")
  OBVIOUS
<1>2. /\ t \in RequestStates /\ t.pc = "served" /\ ~t.bearer /\ ~t.context
      /\ t.tried = <<>>
  BY <1>1, EndedIs
<1>3. /\ [t EXCEPT !.charge = q] \in RequestStates
      /\ [t EXCEPT !.charge = q].pc = "served"
      /\ ~[t EXCEPT !.charge = q].bearer /\ ~[t EXCEPT !.charge = q].context
      /\ [t EXCEPT !.charge = q].charge = q
      /\ [t EXCEPT !.charge = q].tried = <<>>
  BY <1>2 DEF RequestStates
<1>4. QED
  BY <1>1, <1>3

\* An answer is recorded for a key, or is to be settled through x402.
LEMMA AnswerStep ==
  ASSUME IInv, NEW r \in Requests, Answer(r)
  PROVE  IInv' /\ Refined
<1> USE DEF historyVars
<1>0. /\ UNCHANGED <<storeVars, usage, up, crashes, debited, credited, held, cap,
                     authorized, lapsed>>
      /\ up /\ req[r].pc = "calling"
  BY DEF Answer, Goto
<1>1. Len(<<>>) = 0 /\ MaxAttempts \in Nat
  BY ConstantsAssumption
<1>2. PICK pc \in {"recording", "charging"} :
        /\ pc = "recording" <=> req[r].context
        /\ Goto(r, "calling", [At(r, pc) EXCEPT !.candidates = {}, !.tried = <<>>])
        /\ payment' = IF pc = "recording" THEN payment
                      ELSE [payment EXCEPT ![r].due = TRUE]
  <2>1. CASE req[r].context
    BY <2>1 DEF Answer, HasContext
  <2>2. CASE ~req[r].context
    BY <2>2 DEF Answer, HasContext
  <2>3. QED
    BY <2>1, <2>2
<1>3. PICK t : t = [At(r, pc) EXCEPT !.candidates = {}]
  OBVIOUS
<1>4. /\ t \in RequestStates /\ t.pc = pc /\ t.bearer = req[r].bearer
      /\ t.charge = req[r].charge /\ t.price = req[r].price
      /\ t.context = req[r].context /\ t.budgeted = req[r].budgeted
  BY <1>3, Here DEF At, RequestStates, Awaiting
<1>5. PICK e \in Seq(Providers) : e = <<>>
  <2>1. <<>> \in Seq(Providers)
    OBVIOUS
  <2>2. QED
    BY <2>1, Zenon
<1>6. PICK s : s = [t EXCEPT !.tried = e]
  OBVIOUS
<1>7. /\ s \in RequestStates /\ s.pc = pc /\ s.bearer = req[r].bearer
      /\ s.charge = req[r].charge /\ s.price = req[r].price
      /\ s.context = req[r].context /\ s.budgeted = req[r].budgeted /\ s.tried = <<>>
  BY <1>4, <1>5, <1>6 DEF RequestStates
<1>8. Goto(r, "calling", s) /\ req' = [req EXCEPT ![r] = s]
  <2>1. s = [At(r, pc) EXCEPT !.candidates = {}, !.tried = <<>>]
    BY <1>3, <1>5, <1>6
  <2>2. QED
    BY <1>2, <2>1 DEF Goto
<1>9. CASE pc = "recording"
  <2>1. Local(r, s, debited[r], credited[r], held[r], authorized[r], payment[r],
              lapsed, budget[Row(r)])
    BY <1>0, <1>1, <1>2, <1>7, <1>9, Here
       DEF Local, BeforeDebit, InHandler, HoldsCharge, AtTheEnd, OnePayment, Failover,
           Early, Handling, Budgeting
  <2>2. QED
    BY <1>0, <1>2, <1>7, <1>8, <1>9, <2>1, GotoStep
<1>10. CASE pc = "charging"
  <2>1. PICK z \in Payments : z = [payment[r] EXCEPT !.due = TRUE]
    BY Here DEF Payments
  <2>2. /\ z.due /\ z.pending = payment[r].pending /\ z.settled = payment[r].settled
        /\ z.missed = payment[r].missed
    BY <2>1, Here DEF Payments
  <2>3. payment' = [payment EXCEPT ![r] = z]
    BY <1>2, <1>10, <2>1
  <2>4. /\ payment' \in [Requests -> Payments] /\ payment'[r] = z
        /\ \A q \in Requests : q # r => payment'[q] = payment[q]
    BY <2>3, Parts DEF TypeOK
  <2>5. z.pending = 0 /\ z.settled = 0
    BY <1>0, <2>2, Here DEF Local, OnePayment, Payments
  <2>6. Local(r, s, debited[r], credited[r], held[r], authorized[r], z,
              lapsed, budget[Row(r)])
    BY <1>0, <1>1, <1>2, <1>7, <1>10, <2>2, <2>5, Here
       DEF Local, BeforeDebit, InHandler, HoldsCharge, AtTheEnd, OnePayment, Failover,
           Early, Handling, Budgeting
  <2>7. QED
    BY <1>0, <1>7, <1>8, <1>10, <2>4, <2>6, ControlStep, Parts DEF TypeOK
<1>11. QED
  BY <1>9, <1>10

\* A step of settle_paid_path, which moves no money of the key.
LEMMA SettlementStep ==
  ASSUME IInv, NEW r \in Requests, up, req[r].pc \in {"charging", "confirming"},
         NEW s \in RequestStates, NEW z \in Payments,
         s.pc \notin {"settling", "served"} \/ ~s.context,
         req' = [req EXCEPT ![r] = s],
         payment' = [payment EXCEPT ![r] = z],
         UNCHANGED <<storeVars, usage, up, crashes, debited, credited, held, cap,
                     authorized, lapsed>>,
         Local(r, s, debited[r], credited[r], held[r], authorized[r], z, lapsed, budget[Row(r)])
  PROVE  IInv' /\ Refined
<1>1. /\ payment' \in [Requests -> Payments] /\ payment'[r] = z
      /\ \A q \in Requests : q # r => payment'[q] = payment[q]
  BY Parts DEF TypeOK
<1>2. QED
  BY <1>1, ControlStep, Parts DEF TypeOK

\* The response of a request that paid through x402, whatever became of it.
LEMMA ServedIsLocal ==
  ASSUME IInv, NEW r \in Requests, req[r].pc \in {"charging", "confirming"},
         NEW z \in Payments, z.due,
         z.missed \/ (z.pending = 0 /\ req[r].charge <= z.settled),
         z.pending = 0 \/ z.settled = 0,
         z.pending + z.settled <= authorized[r]
  PROVE  /\ Served(r) \in RequestStates /\ ~Served(r).context
         /\ Local(r, Served(r), debited[r], credited[r], held[r], authorized[r], z,
                  lapsed, budget[Row(r)])
<1>1. PICK q \in Nat : q = req[r].charge
  BY Here DEF RequestStates
<1>2. PICK s : s = [Ended("served") EXCEPT !.charge = q]
  OBVIOUS
<1>3. /\ s \in RequestStates /\ s.pc = "served" /\ ~s.bearer /\ ~s.context
      /\ s.charge = q /\ s.tried = <<>>
  BY <1>2, ServedIs
<1>4. Len(<<>>) = 0 /\ MaxAttempts \in Nat
  BY ConstantsAssumption
<1>5. debited[r] = 0 /\ credited[r] = 0 /\ authorized[r] <= ClientCap
  BY Here DEF Local, InHandler, OnePayment, Handling
<1>6. z.pending \in Nat /\ z.settled \in Nat
  BY DEF Payments
<1>7. AtTheEnd(r, s, debited[r], credited[r], held[r], z, lapsed)
  BY <1>1, <1>3, <1>5 DEF AtTheEnd
<1>8. OnePayment(r, s, debited[r], credited[r], authorized[r], z)
  BY <1>3, <1>5, <1>6 DEF OnePayment
<1>9. Local(r, s, debited[r], credited[r], held[r], authorized[r], z, lapsed, budget[Row(r)])
  BY <1>3, <1>4, <1>7, <1>8
     DEF Local, BeforeDebit, InHandler, HoldsCharge, Failover, Early, Handling, Budgeting
<1>10. Served(r) = s
  BY <1>1, <1>2 DEF Served
<1>11. QED
  BY <1>3, <1>9, <1>10

\* What is sent is what was signed, and nothing was sent before.
LEMMA SendSettlementStep ==
  ASSUME IInv, NEW r \in Requests, SendSettlement(r)
  PROVE  IInv' /\ Refined
<1>0. /\ up /\ req[r].pc = "charging"
      /\ UNCHANGED <<storeVars, usage, up, crashes, debited, credited, held, cap,
                     authorized, lapsed>>
  BY DEF SendSettlement, Goto
<1>1. /\ ~req[r].context /\ req[r].price <= authorized[r] /\ req[r].price \in Nat
      /\ payment[r] \in Payments /\ payment[r].due
      /\ payment[r].pending = 0 /\ payment[r].settled = 0
  BY <1>0, Here DEF Local, InHandler, OnePayment, Handling, RequestStates
<1>2. CASE /\ Goto(r, "charging", At(r, "confirming"))
           /\ payment' = [payment EXCEPT ![r].pending = req[r].price]
  <2>1. PICK z : z = [payment[r] EXCEPT !.pending = req[r].price]
    OBVIOUS
  <2>2. /\ z \in Payments /\ z.due /\ z.pending = req[r].price /\ z.settled = 0
        /\ z.missed = payment[r].missed
    BY <1>1, <2>1 DEF Payments
  <2>3. payment' = [payment EXCEPT ![r] = z]
    BY <1>2, <2>1
  <2>4. PICK s : s = At(r, "confirming")
    OBVIOUS
  <2>5. /\ s \in RequestStates /\ s.pc = "confirming" /\ s.bearer = req[r].bearer
        /\ s.charge = req[r].charge /\ s.price = req[r].price
        /\ s.context = req[r].context /\ s.budgeted = req[r].budgeted /\ s.tried = req[r].tried
    BY <2>4, Here, PcUpdate DEF At, Awaiting
  <2>6. Local(r, s, debited[r], credited[r], held[r], authorized[r], z, lapsed, budget[Row(r)])
    <3>1. /\ BeforeDebit(r, s, debited[r], credited[r], held[r], authorized[r], lapsed)
          /\ HoldsCharge(s, held[r], budget[Row(r)])
          /\ AtTheEnd(r, s, debited[r], credited[r], held[r], z, lapsed)
      BY <1>1, <2>5, Here
         DEF Local, BeforeDebit, HoldsCharge, AtTheEnd, Early, Budgeting
    <3>2. InHandler(r, s, debited[r], credited[r], held[r], authorized[r], lapsed)
      BY <1>0, <1>1, <2>5, Here DEF Local, InHandler, Handling
    <3>3. OnePayment(r, s, debited[r], credited[r], authorized[r], z)
      <4>1. debited[r] = 0 /\ credited[r] = 0
        BY <1>0, <1>1, Here DEF Local, InHandler, Handling
      <4>2. QED
        BY <1>1, <2>2, <2>5, <4>1, Here DEF Local, OnePayment
    <3>4. Failover(s)
      BY <1>0, <2>5, Here DEF Local, Failover
    <3>5. QED
      BY <3>1, <3>2, <3>3, <3>4 DEF Local
  <2>7. req' = [req EXCEPT ![r] = s]
    BY <1>2, <2>4 DEF Goto
  <2>8. QED
    BY <1>0, <2>2, <2>3, <2>5, <2>6, <2>7, SettlementStep
<1>3. CASE /\ Goto(r, "charging", Served(r))
           /\ \E p \in {0, req[r].price} :
                payment' = [payment EXCEPT ![r].pending = p, ![r].missed = TRUE]
  <2>1. PICK p \in {0, req[r].price} :
          payment' = [payment EXCEPT ![r].pending = p, ![r].missed = TRUE]
    BY <1>3
  <2>2. PICK z : z = [payment[r] EXCEPT !.pending = p, !.missed = TRUE]
    OBVIOUS
  <2>3. /\ z \in Payments /\ z.due /\ z.pending = p /\ z.settled = 0 /\ z.missed
    <3>1. PICK y : y = [payment[r] EXCEPT !.pending = p]
      OBVIOUS
    <3>2. /\ y \in Payments /\ y.due /\ y.pending = p /\ y.settled = 0
      BY <1>1, <2>1, <3>1 DEF Payments
    <3>3. z = [y EXCEPT !.missed = TRUE]
      BY <2>2, <3>1
    <3>4. QED
      BY <3>2, <3>3 DEF Payments
  <2>4. payment' = [payment EXCEPT ![r] = z]
    BY <2>1, <2>2, Parts DEF TypeOK
  <2>5. z.pending + z.settled <= authorized[r]
    BY <1>1, <2>1, <2>3, Here
  <2>6. req' = [req EXCEPT ![r] = Served(r)]
    BY <1>3 DEF Goto
  <2>7. QED
    BY <1>0, <2>3, <2>4, <2>5, <2>6, ServedIsLocal, SettlementStep
<1>4. QED
  BY <1>2, <1>3 DEF SendSettlement

\* The response goes out with a receipt, or the settlement counts as missed.
LEMMA AwaitReceiptStep ==
  ASSUME IInv, NEW r \in Requests, AwaitReceipt(r)
  PROVE  IInv' /\ Refined
<1>0. /\ up /\ req[r].pc = "confirming" /\ req' = [req EXCEPT ![r] = Served(r)]
      /\ UNCHANGED <<storeVars, usage, up, crashes, debited, credited, held, cap,
                     authorized, lapsed>>
  BY DEF AwaitReceipt, Goto
<1>1. /\ payment[r] \in Payments /\ payment[r].due
      /\ payment[r].settled \in {0, req[r].price} /\ req[r].charge <= req[r].price
      /\ payment[r].pending + payment[r].settled <= authorized[r]
      /\ payment[r].pending = 0 \/ payment[r].settled = 0
  BY <1>0, Here DEF Local, InHandler, OnePayment, Handling
<1>2. CASE payment[r].settled > 0 /\ UNCHANGED payment
  <2>1. payment' = [payment EXCEPT ![r] = payment[r]]
    BY <1>2, Parts DEF TypeOK
  <2>2. payment[r].pending = 0 /\ req[r].charge <= payment[r].settled
    BY <1>1, <1>2, Here DEF Payments, RequestStates
  <2>3. QED
    BY <1>0, <1>1, <2>1, <2>2, ServedIsLocal, SettlementStep
<1>3. CASE payment' = [payment EXCEPT ![r].missed = TRUE]
  <2>1. PICK z : z = [payment[r] EXCEPT !.missed = TRUE]
    OBVIOUS
  <2>2. /\ z \in Payments /\ z.due /\ z.missed
        /\ z.pending = payment[r].pending /\ z.settled = payment[r].settled
    BY <1>1, <2>1 DEF Payments
  <2>3. payment' = [payment EXCEPT ![r] = z]
    BY <1>3, <2>1
  <2>4. QED
    BY <1>0, <1>1, <2>2, <2>3, ServedIsLocal, SettlementStep
<1>4. QED
  BY <1>2, <1>3 DEF AwaitReceipt

\* Mine: whenever it happens, the chain takes what was sent, once.
LEMMA MineStep ==
  ASSUME IInv, NEW r \in Requests, Mine(r)
  PROVE  IInv' /\ Refined
<1> USE DEF storeVars
<1>0. PICK n \in {0, payment[r].pending} :
        /\ payment[r].pending > 0
        /\ payment' = [payment EXCEPT ![r].pending = 0, ![r].settled = n]
        /\ UNCHANGED <<storeVars, usage, up, crashes, req, debited, credited, held, cap,
                       authorized, lapsed>>
  BY DEF Mine
<1>1. PICK z : z = [payment[r] EXCEPT !.pending = 0, !.settled = n]
  OBVIOUS
<1>2. payment[r] \in Payments
  BY Here
<1>3. /\ z \in Payments /\ z.due = payment[r].due /\ z.missed = payment[r].missed
      /\ z.pending = 0 /\ z.settled = n
  <2>1. PICK y : y = [payment[r] EXCEPT !.pending = 0]
    OBVIOUS
  <2>2. /\ y \in Payments /\ y.due = payment[r].due /\ y.missed = payment[r].missed
        /\ y.pending = 0
    BY <1>2, <2>1 DEF Payments
  <2>3. z = [y EXCEPT !.settled = n] /\ n \in Nat
    BY <1>0, <1>1, <1>2, <2>1 DEF Payments
  <2>4. QED
    BY <2>2, <2>3 DEF Payments
<1>4. payment' = [payment EXCEPT ![r] = z]
  BY <1>0, <1>1, Parts DEF TypeOK
<1>5. /\ payment' \in [Requests -> Payments] /\ payment'[r] = z
      /\ \A q \in Requests : q # r => payment'[q] = payment[q]
  BY <1>3, <1>4, Parts DEF TypeOK
<1>6. TypeOK'
  BY <1>0, <1>5, Parts DEF TypeOK
<1>7. Local(r, req[r], debited[r], credited[r], held[r], authorized[r], z, lapsed,
            budget[Row(r)])
  <2>1. OnePayment(r, req[r], debited[r], credited[r], authorized[r], z)
    BY <1>0, <1>2, <1>3, Here DEF Local, OnePayment, Payments
  <2>2. AtTheEnd(r, req[r], debited[r], credited[r], held[r], z, lapsed)
    <3>1. req[r].pc = "served" => z.missed
      BY <1>0, <1>3, Here DEF Local, OnePayment
    <3>2. QED
      BY <3>1, Here DEF Local, AtTheEnd
  <2>3. QED
    BY <2>1, <2>2, Here DEF Local
<1>8. LocalPart'
  <2>1. SUFFICES ASSUME NEW q \in Requests
                 PROVE  Local(q, req[q], debited[q], credited[q], held[q], authorized[q],
                              payment'[q], lapsed, budget[Row(q)])
    BY <1>0 DEF LocalPart, Row
  <2>2. QED
    BY <1>5, <1>7, Here
<1>9. DownPart' /\ BudgetPart'
  BY <1>0, Parts DEF DownPart, BudgetPart, BudgetAccounted, Over
<1>10. UsagePart'
  <2>1. \A x \in Keys : Spent(x)' = Spent(x)
    BY <1>0 DEF Spent
  <2>2. QED
    BY <1>0, <2>1, Parts, UsageKept
<1>11. QED
  BY <1>0, <1>6, <1>8, <1>9, <1>10 DEF IInv, Refined

LEMMA DisconnectStep ==
  ASSUME IInv, NEW r \in Requests, Disconnect(r)
  PROVE  IInv' /\ Refined
<1>1. PICK from \in Awaiting : /\ Goto(r, from, Ended("gone")) /\ req[r].pc = from
                               /\ UNCHANGED <<storeVars, usage, up, crashes, historyVars>>
  BY DEF Disconnect
<1>2. from \notin {"settling", "served"}
  BY DEF Awaiting
<1>3. Local(r, Ended("gone"), debited[r], credited[r], held[r], authorized[r], payment[r],
            lapsed, budget[Row(r)])
  BY <1>1, <1>2, Here, GoneIsLocal
<1>4. QED
  BY <1>1, <1>2, <1>3, EndedIs, GotoStep

-----------------------------------------------------------------------------
(* The steps that move money.                                              *)

\* debit takes the price from the balance, once.
LEMMA DebitStep ==
  ASSUME IInv, NEW r \in Requests, Debit(r)
  PROVE  IInv' /\ Refined
<1> USE DEF storeVars, historyVars
<1>0. UNCHANGED <<revoked, budget, usage, up, crashes, credited, held, cap, authorized,
                  payment, lapsed>>
  BY DEF Debit
<1>1. up /\ req[r].pc = "debiting"
  BY DEF Debit, Goto
<1>2. Payer[r] \in Keys /\ debited[r] = 0
  BY <1>1, Here DEF Local, BeforeDebit, Early
<1>3. PICK p \in Nat : p = req[r].price
  BY Here DEF RequestStates
<1>4. PICK k \in Keys : k = Payer[r]
  BY <1>2
<1>5. CASE /\ Goto(r, "debiting", [At(r, "x402") EXCEPT !.price = 0])
           /\ UNCHANGED <<balance, debited>>
  <2>1. PICK s : s = [At(r, "x402") EXCEPT !.price = 0]
    OBVIOUS
  <2>2. /\ s \in RequestStates /\ s.pc = "x402"
        /\ s.charge = req[r].charge /\ s.signed = req[r].signed
        /\ s.context = req[r].context /\ s.budgeted = req[r].budgeted /\ s.tried = req[r].tried
    BY <2>1, Here DEF At, RequestStates, Awaiting
  <2>3. Goto(r, "debiting", s)
    BY <1>5, <2>1
  <2>4. QED
    BY <1>0, <1>2, <1>5, <2>2, <2>3, EarlyStep DEF Early
<1>6. CASE /\ Goto(r, "debiting", Paid(p, TRUE))
           /\ CanDebit(k, p)
           /\ balance' = [balance EXCEPT ![k] = @ - p]
           /\ debited' = [debited EXCEPT ![r] = p]
  <2>1. PICK s : s = Paid(p, TRUE)
    OBVIOUS
  <2>2. /\ s \in RequestStates /\ s.pc = "quoting" /\ ~s.bearer /\ s.charge = 0
        /\ s.price = p /\ s.context /\ ~s.budgeted /\ s.tried = <<>>
    BY <2>1, PaidIs
  <2>3. req' = [req EXCEPT ![r] = s]
    BY <1>6, <2>1 DEF Goto
  <2>4. req'[r] = s /\ \A q \in Requests : q # r => req'[q] = req[q]
    BY <2>3, Parts DEF TypeOK
  <2>5. /\ debited' \in [Requests -> Nat] /\ debited'[r] = p
        /\ \A q \in Requests : q # r => debited'[q] = debited[q]
    BY <1>6, Parts DEF TypeOK
  <2>6. /\ k \notin revoked /\ balance[k] \in Nat /\ balance[k] >= p
        /\ balance' \in [Keys -> Nat]
    BY <1>6, Parts DEF TypeOK, CanDebit
  <2>7. Local(r, s, debited'[r], credited'[r], held'[r], authorized'[r], payment'[r],
              lapsed', budget'[Row(r)])
    <3>1. Local(r, s, p, credited[r], held[r], authorized[r], payment[r],
                lapsed, budget[Row(r)])
      BY <1>1, <1>2, <1>3, <2>2, Here
         DEF Local, BeforeDebit, InHandler, HoldsCharge, AtTheEnd, OnePayment, Failover,
             Early, Handling, Budgeting
    <3>2. QED
      BY <1>0, <2>5, <3>1
  <2>8. \A x \in Keys : Spent(x)' = Spent(x)
    BY <1>1, <2>2, <2>4, <2>5 DEF Spent
  <2>9. UsagePart'
    BY <1>0, <2>8, Parts, UsageKept
  <2>10. BudgetAccounted'
    BY <1>0, Parts DEF BudgetPart, BudgetAccounted
  <2>11. IInv'
    BY <1>0, <1>1, <2>2, <2>3, <2>5, <2>6, <2>7, <2>9, <2>10, Parts, FrameStep DEF TypeOK
  <2>12. CASE p = 0
    <3>1. balance' = balance /\ debited' = debited
      BY <1>2, <1>6, <2>5, <2>6, <2>12, Parts DEF TypeOK
    <3>2. QED
      BY <1>0, <2>11, <3>1 DEF Refined
  <2>13. CASE p # 0
    <3>1. p \in 1..balance[Payer[r]]
      BY <1>4, <2>6, <2>13
    <3>2. /\ balance' = [balance EXCEPT ![Payer[r]] = @ - p]
          /\ debited' = [debited EXCEPT ![r] = p]
      BY <1>4, <1>6
    <3>3. Payer[r] \in Keys \ revoked
      BY <1>4, <2>6
    <3>4. Account!Debit(r)
      BY <1>0, <1>2, <3>1, <3>2, <3>3 DEF Account!Debit
    <3>5. QED
      BY <2>11, <3>4 DEF Refined, Account!Next, Account!Requests, Requests
  <2>14. QED
    BY <2>12, <2>13
<1>7. QED
  BY <1>3, <1>4, <1>5, <1>6 DEF Debit

\* A budget row and what one request holds of it change by the same amount.
LEMMA BudgetMove ==
  ASSUME IInv, NEW r \in Requests, Payer[r] \in Keys,
         NEW b \in Nat, NEW v \in Nat,
         budget[Row(r)] \in Nat, b + v = budget[Row(r)] + held[r],
         budget' = [budget EXCEPT ![Row(r)] = b],
         held' = [held EXCEPT ![r] = v],
         cap' = cap
  PROVE  BudgetAccounted'
<1>0. TypeOK /\ BudgetAccounted /\ NumRequests \in Nat /\ Requests = 1..NumRequests
  BY Parts DEF BudgetPart
<1>1. SUFFICES ASSUME NEW k \in Keys, NEW m \in Models, cap[<<k, m>>] # Uncapped
               PROVE  budget'[<<k, m>>]
                        + Total(Only(held', NumRequests,
                                     {q \in Requests : Payer[q] = k /\ ModelOf[q] = m}),
                                NumRequests) = cap[<<k, m>>]
  BY DEF BudgetAccounted
<1> DEFINE S == {q \in Requests : Payer[q] = k /\ ModelOf[q] = m}
           old == Only(held, NumRequests, S)
           new == Only(held', NumRequests, S)
<1>2. budget[<<k, m>>] + Total(old, NumRequests) = cap[<<k, m>>]
  BY <1>0, <1>1 DEF BudgetAccounted
<1>3. /\ old \in [1..NumRequests -> Nat] /\ new \in [1..NumRequests -> Nat]
      /\ \A i \in 1..NumRequests : i # r => new[i] = old[i]
      /\ r \in S => old[r] = held[r] /\ new[r] = v
      /\ r \notin S => old[r] = 0 /\ new[r] = 0
  BY <1>0 DEF Only, TypeOK
<1>4. Row(r) \in Keys \X Models /\ <<k, m>> \in Keys \X Models
  BY ConstantsAssumption DEF Row
<1>5. r \in S <=> Row(r) = <<k, m>>
  BY DEF Row
<1>6. held[r] \in Nat /\ budget[<<k, m>>] \in Nat \cup {Uncapped}
  BY <1>0, <1>4 DEF TypeOK
<1> HIDE DEF S, old, new
<1>7. Total(new, NumRequests) + old[r] = Total(old, NumRequests) + new[r]
  BY <1>0, <1>3, TotalChange
<1>8. Total(new, NumRequests) \in Nat /\ Total(old, NumRequests) \in Nat
  BY <1>0, <1>3, TotalType
<1>9. CASE r \in S
  <2>1. budget[<<k, m>>] = budget[Row(r)] /\ budget'[<<k, m>>] = b
    BY <1>0, <1>4, <1>5, <1>9 DEF TypeOK
  <2>2. b + Total(new, NumRequests) = cap[<<k, m>>]
    <3>1. PICK x \in Nat, y \in Nat, z \in Nat, h \in Nat :
            /\ x = Total(new, NumRequests) /\ y = Total(old, NumRequests)
            /\ z = budget[Row(r)] /\ h = held[r]
      BY <1>6, <1>8
    <3>2. x + h = y + v /\ b + v = z + h
      BY <1>3, <1>7, <1>9, <3>1
    <3>3. z + y = cap[<<k, m>>]
      BY <1>2, <2>1, <3>1
    <3>4. b + x = z + y
      BY <3>2
    <3>5. QED
      BY <3>1, <3>3, <3>4
  <2>3. QED
    BY <2>1, <2>2 DEF new, S
<1>10. CASE r \notin S
  <2>1. budget'[<<k, m>>] = budget[<<k, m>>]
    BY <1>0, <1>4, <1>5, <1>10 DEF TypeOK
  <2>2. Total(new, NumRequests) = Total(old, NumRequests)
    BY <1>3, <1>7, <1>8, <1>10
  <2>3. QED
    BY <1>2, <2>1, <2>2 DEF new, S
<1>11. QED
  BY <1>9, <1>10

\* debit_model_budget: the request holds what it takes from the row.
LEMMA DebitModelBudgetStep ==
  ASSUME IInv, NEW r \in Requests, DebitModelBudget(r)
  PROVE  IInv' /\ Refined
<1> USE DEF storeVars, historyVars
<1>0. UNCHANGED <<balance, revoked, usage, up, crashes, debited, credited, cap, authorized,
                  payment, lapsed>>
  BY DEF DebitModelBudget
<1>1. up /\ req[r].pc = "budgeting"
  BY DEF DebitModelBudget, Goto
<1>2. /\ req[r].context /\ Payer[r] \in Keys /\ held[r] = 0 /\ ~req[r].budgeted
  BY <1>1, Here DEF Local, InHandler, OnePayment, Handling
<1>3. Row(r) \in Keys \X Models
  BY <1>2, ConstantsAssumption DEF Row
<1>4. PICK s : s = [At(r, "listing") EXCEPT !.budgeted = TRUE]
  OBVIOUS
<1>5. /\ s \in RequestStates /\ s.pc = "listing" /\ s.bearer = req[r].bearer
      /\ s.charge = req[r].charge /\ s.price = req[r].price
      /\ s.context = req[r].context /\ s.budgeted = TRUE /\ s.tried = req[r].tried
  BY <1>4, Here DEF At, RequestStates, Awaiting
<1>6. CASE Goto(r, "budgeting", AfterError(r)) /\ UNCHANGED <<budget, held>>
  BY <1>0, <1>6, AfterErrorStep
<1>7. CASE Goto(r, "budgeting", At(r, "listing")) /\ UNCHANGED <<budget, held>>
  <2>1. PICK t : t = At(r, "listing")
    OBVIOUS
  <2>2. /\ t \in RequestStates /\ t.pc = "listing" /\ t.bearer = req[r].bearer
        /\ t.charge = req[r].charge /\ t.price = req[r].price
        /\ t.context = req[r].context /\ t.budgeted = req[r].budgeted /\ t.tried = req[r].tried
    BY <2>1, Here, PcUpdate DEF At, Awaiting
  <2>3. Local(r, t, debited[r], credited[r], held[r], authorized[r], payment[r],
              lapsed, budget[Row(r)])
    BY <1>1, <1>2, <2>2, Here
       DEF Local, BeforeDebit, InHandler, HoldsCharge, AtTheEnd, OnePayment, Failover,
           Early, Handling, Budgeting
  <2>4. Goto(r, "budgeting", t)
    BY <1>7, <2>1
  <2>5. QED
    BY <1>0, <1>7, <2>2, <2>3, <2>4, GotoStep
<1>8. CASE Goto(r, "budgeting", s) /\ budget[Row(r)] = Uncapped /\ UNCHANGED <<budget, held>>
  <2>1. Local(r, s, debited[r], credited[r], held[r], authorized[r], payment[r],
              lapsed, budget[Row(r)])
    BY <1>1, <1>2, <1>5, <1>8, Here
       DEF Local, BeforeDebit, InHandler, HoldsCharge, AtTheEnd, OnePayment, Failover,
           Early, Handling, Budgeting
  <2>2. QED
    BY <1>0, <1>5, <1>8, <2>1, GotoStep
<1>9. CASE /\ Goto(r, "budgeting", s)
           /\ Covers(budget[Row(r)], req[r].charge)
           /\ budget' = [budget EXCEPT ![Row(r)] = @ - req[r].charge]
           /\ held' = [held EXCEPT ![r] = req[r].charge]
  <2>1. PICK v \in Nat : v = req[r].charge
    BY Here DEF RequestStates
  <2>2. budget[Row(r)] \in Nat /\ budget[Row(r)] # Uncapped /\ budget[Row(r)] >= v
    BY <1>3, <1>9, <2>1, Parts DEF Covers, TypeOK
  <2>3. PICK b \in Nat : b = budget[Row(r)] - v
    BY <2>2
  <2>4. budget' = [budget EXCEPT ![Row(r)] = b] /\ held' = [held EXCEPT ![r] = v]
    BY <1>9, <2>1, <2>3
  <2>5. b + v = budget[Row(r)] + held[r]
    BY <1>2, <2>2, <2>3
  <2>6. BudgetAccounted'
    BY <1>0, <1>2, <2>2, <2>4, <2>5, BudgetMove
  <2>7. /\ budget' \in [Keys \X Models -> Nat \cup {Uncapped}]
        /\ budget'[Row(r)] = b /\ b # Uncapped
        /\ \A x \in Keys \X Models : budget'[x] = Uncapped <=> budget[x] = Uncapped
    BY <1>3, <2>2, <2>4, Parts, ConstantsAssumption DEF TypeOK
  <2>8. /\ held' \in [Requests -> Nat] /\ held'[r] = v
        /\ \A q \in Requests : q # r => held'[q] = held[q]
    BY <2>4, Parts DEF TypeOK
  <2>9. Local(r, s, debited[r], credited[r], v, authorized[r], payment[r], lapsed, b)
    BY <1>1, <1>2, <1>5, <2>1, <2>7, Here
       DEF Local, BeforeDebit, InHandler, HoldsCharge, AtTheEnd, OnePayment, Failover,
           Early, Handling, Budgeting
  <2>10. Local(r, s, debited'[r], credited'[r], held'[r], authorized'[r], payment'[r],
               lapsed', budget'[Row(r)])
    BY <1>0, <2>7, <2>8, <2>9
  <2>11. req' = [req EXCEPT ![r] = s]
    BY <1>9 DEF Goto
  <2>12. req'[r] = s /\ \A q \in Requests : q # r => req'[q] = req[q]
    BY <2>11, Parts DEF TypeOK
  <2>13. \A x \in Keys : Spent(x)' = Spent(x)
    BY <1>0, <1>1, <1>5, <2>12 DEF Spent
  <2>14. UsagePart'
    BY <1>0, <2>13, Parts, UsageKept
  <2>15. IInv'
    BY <1>0, <1>1, <1>5, <2>6, <2>7, <2>8, <2>10, <2>11, <2>14, Parts, FrameStep DEF TypeOK
  <2>16. QED
    BY <1>0, <2>15 DEF Refined
<1>10. QED
  BY <1>4, <1>6, <1>7, <1>8, <1>9 DEF DebitModelBudget, Row

\* UsageStore::record adds the charge that the request will have cost.
LEMMA RecordUsageStep ==
  ASSUME IInv, NEW r \in Requests, RecordUsage(r)
  PROVE  IInv' /\ Refined
<1> USE DEF storeVars, historyVars
<1>0. /\ up /\ req[r].pc = "recording"
      /\ UNCHANGED <<storeVars, up, crashes, historyVars>>
  BY DEF RecordUsage, Goto
<1>1. req[r].context /\ Payer[r] \in Keys
  BY <1>0, Here DEF Local, InHandler, OnePayment
<1>2. PICK s : s = At(r, "settling")
  OBVIOUS
<1>3. /\ s \in RequestStates /\ s.pc = "settling" /\ s.bearer = req[r].bearer
      /\ s.charge = req[r].charge /\ s.price = req[r].price
      /\ s.context = req[r].context /\ s.budgeted = req[r].budgeted /\ s.tried = req[r].tried
  BY <1>2, Here, PcUpdate DEF At
<1>4. PICK v \in Nat : v = req[r].charge
  BY Here DEF RequestStates
<1>5. req' = [req EXCEPT ![r] = s] /\ usage' = [usage EXCEPT ![Payer[r]] = @ + v]
  BY <1>2, <1>4 DEF RecordUsage, Goto, AcceptedCharge
<1>6. req'[r] = s /\ \A q \in Requests : q # r => req'[q] = req[q]
  BY <1>5, Parts DEF TypeOK
<1>7. /\ usage' \in [Keys -> Nat] /\ usage \in [Keys -> Nat]
      /\ \A k \in Keys : usage'[k] = IF k = Payer[r] THEN usage[k] + v ELSE usage[k]
  BY <1>1, <1>5, Parts DEF TypeOK
<1>8. Local(r, s, debited'[r], credited'[r], held'[r], authorized'[r], payment'[r],
            lapsed', budget'[Row(r)])
  <2>1. Local(r, s, debited[r], credited[r], held[r], authorized[r], payment[r],
              lapsed, budget[Row(r)])
    BY <1>0, <1>1, <1>3, Here
       DEF Local, BeforeDebit, InHandler, HoldsCharge, AtTheEnd, OnePayment, Failover,
           Early, Handling, Budgeting
  <2>2. QED
    BY <1>0, <2>1
<1>9. UsagePart'
  <2>1. SUFFICES ASSUME NEW k \in Keys PROVE usage'[k] <= Total(Spent(k)', NumRequests)
    BY DEF UsagePart
  <2>2. usage[k] <= Total(Spent(k), NumRequests)
    BY Parts DEF UsagePart
  <2>3. /\ \A q \in Requests : Spent(k)'[q] = IF q = r /\ Payer[r] = k THEN v ELSE Spent(k)[q]
        /\ Spent(k)[r] = 0
        /\ Spent(k)' \in [Requests -> Nat] /\ Spent(k) \in [Requests -> Nat]
    <3>1. Spent(k) \in [Requests -> Nat]
      BY SpentType, Parts
    <3>2. \A q \in Requests : Spent(k)'[q] = IF q = r /\ Payer[r] = k THEN v ELSE Spent(k)[q]
      BY <1>0, <1>1, <1>3, <1>4, <1>6 DEF Spent
    <3>3. Spent(k)[r] = 0
      BY <1>0 DEF Spent
    <3>4. Spent(k)' \in [Requests -> Nat]
      <4>1. Spent(k)' = [q \in Requests |-> Spent(k)'[q]]
        BY DEF Spent
      <4>2. \A q \in Requests : Spent(k)'[q] \in Nat
        BY <3>1, <3>2
      <4>3. QED
        BY <4>1, <4>2
    <3>5. QED
      BY <3>1, <3>2, <3>3, <3>4
  <2>4. PICK f, g : f = Spent(k) /\ g = Spent(k)'
    OBVIOUS
  <2>5. /\ f \in [1..NumRequests -> Nat] /\ g \in [1..NumRequests -> Nat]
        /\ \A i \in 1..NumRequests : i # r => g[i] = f[i]
        /\ f[r] = 0 /\ g[r] = IF Payer[r] = k THEN v ELSE 0
        /\ NumRequests \in Nat /\ r \in 1..NumRequests
    BY <2>3, <2>4, Parts
  <2>6. Total(g, NumRequests) + f[r] = Total(f, NumRequests) + g[r]
    BY <2>5, TotalChange
  <2>7. Total(g, NumRequests) \in Nat /\ Total(f, NumRequests) \in Nat
    BY <2>5, TotalType
  <2>8. usage'[k] <= Total(g, NumRequests)
    BY <1>7, <2>2, <2>4, <2>5, <2>6, <2>7
  <2>9. QED
    BY <2>4, <2>8
<1>10. BudgetAccounted'
  BY <1>0, Parts DEF BudgetPart, BudgetAccounted
<1>11. IInv'
  BY <1>0, <1>3, <1>5, <1>7, <1>8, <1>9, <1>10, Parts, FrameStep DEF TypeOK
<1>12. QED
  BY <1>0, <1>11 DEF Refined

\* refund_model_budget: what was held goes back to the row.
LEMMA RefundModelBudgetStep ==
  ASSUME IInv, NEW r \in Requests, RefundModelBudget(r)
  PROVE  IInv' /\ Refined
<1> USE DEF storeVars, historyVars
<1>0. UNCHANGED <<balance, revoked, usage, up, crashes, debited, credited, cap,
                  authorized, payment>>
  BY DEF RefundModelBudget
<1>1. up /\ req[r].pc = "unbudgeting"
  BY DEF RefundModelBudget, Goto
<1>2. /\ req[r].context /\ Payer[r] \in Keys /\ req[r].budgeted
      /\ held[r] = IF budget[Row(r)] = Uncapped THEN 0 ELSE req[r].charge
  BY <1>1, Here DEF Local, InHandler, HoldsCharge, OnePayment, Budgeting
<1>3. Row(r) \in Keys \X Models
  BY <1>2, ConstantsAssumption DEF Row
<1>4. PICK s : s = At(r, "refunding")
  OBVIOUS
<1>5. /\ s \in RequestStates /\ s.pc = "refunding" /\ s.bearer = req[r].bearer
      /\ s.charge = req[r].charge /\ s.price = req[r].price
      /\ s.context = req[r].context /\ s.budgeted = req[r].budgeted /\ s.tried = req[r].tried
  BY <1>4, Here, PcUpdate DEF At
<1>6. req' = [req EXCEPT ![r] = s]
  BY <1>4 DEF RefundModelBudget, Goto
<1>7. req'[r] = s /\ \A q \in Requests : q # r => req'[q] = req[q]
  BY <1>6, Parts DEF TypeOK
<1>8. UsagePart'
  <2>1. \A x \in Keys : Spent(x)' = Spent(x)
    BY <1>0, <1>1, <1>5, <1>7 DEF Spent
  <2>2. QED
    BY <1>0, <2>1, Parts, UsageKept
<1>9. CASE /\ budget' = IF budget[Row(r)] = Uncapped THEN budget
                        ELSE [budget EXCEPT ![Row(r)] = @ + req[r].charge]
           /\ held' = [held EXCEPT ![r] = 0]
           /\ UNCHANGED lapsed
  <2>1. /\ held' \in [Requests -> Nat] /\ held'[r] = 0
        /\ \A q \in Requests : q # r => held'[q] = held[q]
    BY <1>9, Parts DEF TypeOK
  <2>2. Local(r, s, debited'[r], credited'[r], held'[r], authorized'[r], payment'[r],
              lapsed', budget'[Row(r)])
    <3>1. Local(r, s, debited[r], credited[r], 0, authorized[r], payment[r],
                lapsed, budget'[Row(r)])
      BY <1>1, <1>2, <1>5, Here
         DEF Local, BeforeDebit, InHandler, HoldsCharge, AtTheEnd, OnePayment, Failover,
             Early, Handling, Budgeting
    <3>2. QED
      BY <1>0, <1>9, <2>1, <3>1
  <2>3. CASE budget[Row(r)] = Uncapped
    <3>1. held' = held /\ budget' = budget
      BY <1>2, <1>9, <2>1, <2>3, Parts DEF TypeOK
    <3>2. BudgetAccounted'
      BY <1>0, <3>1, Parts DEF BudgetPart, BudgetAccounted
    <3>3. IInv'
      BY <1>0, <1>1, <1>5, <1>6, <1>8, <1>9, <2>1, <2>2, <3>1, <3>2, Parts, FrameStep
         DEF TypeOK
    <3>4. QED
      BY <1>0, <3>3 DEF Refined
  <2>4. CASE budget[Row(r)] # Uncapped
    <3>1. PICK v \in Nat : v = req[r].charge /\ v = held[r]
      BY <1>2, <2>4, Here DEF RequestStates
    <3>2. budget[Row(r)] \in Nat
      BY <1>3, <2>4, Parts DEF TypeOK
    <3>3. PICK b \in Nat : b = budget[Row(r)] + v
      BY <3>2
    <3>4. budget' = [budget EXCEPT ![Row(r)] = b] /\ held' = [held EXCEPT ![r] = 0]
      BY <1>9, <2>4, <3>1, <3>3
    <3>5. b + 0 = budget[Row(r)] + held[r]
      BY <3>1, <3>2, <3>3
    <3>6. BudgetAccounted'
      BY <1>0, <1>2, <3>2, <3>4, <3>5, BudgetMove
    <3>7. /\ budget' \in [Keys \X Models -> Nat \cup {Uncapped}]
          /\ \A x \in Keys \X Models : budget'[x] = Uncapped <=> budget[x] = Uncapped
      BY <1>3, <2>4, <3>4, Parts, ConstantsAssumption DEF TypeOK
    <3>8. IInv'
      BY <1>0, <1>1, <1>5, <1>6, <1>8, <1>9, <2>1, <2>2, <3>6, <3>7, Parts, FrameStep
         DEF TypeOK
    <3>9. QED
      BY <1>0, <3>8 DEF Refined
  <2>5. QED
    BY <2>3, <2>4
<1>10. CASE lapsed' = lapsed \cup {r} /\ UNCHANGED <<budget, held>>
  <2>1. Local(r, s, debited[r], credited[r], held[r], authorized[r], payment[r],
              lapsed', budget[Row(r)])
    BY <1>1, <1>2, <1>5, <1>10, Here
       DEF Local, BeforeDebit, InHandler, HoldsCharge, AtTheEnd, OnePayment, Failover,
           Early, Handling, Budgeting
  <2>2. Local(r, s, debited'[r], credited'[r], held'[r], authorized'[r], payment'[r],
              lapsed', budget'[Row(r)])
    BY <1>0, <1>10, <2>1
  <2>3. /\ lapsed' \subseteq Requests
        /\ \A q \in Requests : q # r => (q \in lapsed' <=> q \in lapsed)
    BY <1>10, Parts DEF TypeOK
  <2>4. BudgetAccounted'
    BY <1>0, <1>10, Parts DEF BudgetPart, BudgetAccounted
  <2>5. IInv'
    BY <1>0, <1>1, <1>5, <1>6, <1>8, <1>10, <2>2, <2>3, <2>4, Parts, FrameStep DEF TypeOK
  <2>6. QED
    BY <1>0, <2>5 DEF Refined
<1>11. QED
  BY <1>9, <1>10 DEF RefundModelBudget, Row, AcceptedCharge

\* store.refund gives back at most what was debited, or the request lapses.
LEMMA RefundStep ==
  ASSUME IInv, NEW r \in Requests, NEW s \in RequestStates, NEW n \in Nat, up,
         req' = [req EXCEPT ![r] = s],
         Payer[r] \in Keys, credited[r] = 0, n <= debited[r],
         Refund(r, n),
         \A x \in Keys : Spent(x)' = Spent(x),
         UNCHANGED <<revoked, budget, usage, up, crashes, debited, held, cap,
                     authorized, payment>>,
         Local(r, s, debited[r], n, held[r], authorized[r], payment[r],
               lapsed, budget[Row(r)]),
         n > 0 => Local(r, s, debited[r], 0, held[r], authorized[r], payment[r],
                        lapsed \cup {r}, budget[Row(r)])
  PROVE  IInv' /\ Refined
<1>1. UsagePart'
  BY Parts, UsageKept
<1>2. BudgetAccounted'
  BY Parts DEF BudgetPart, BudgetAccounted
<1>3. PICK k \in Keys : k = Payer[r]
  OBVIOUS
<1>4. CASE /\ balance' = [balance EXCEPT ![k] = @ + n]
           /\ credited' = [credited EXCEPT ![r] = @ + n]
           /\ UNCHANGED lapsed
  <2>1. /\ balance' \in [Keys -> Nat] /\ balance \in [Keys -> Nat]
        /\ credited' \in [Requests -> Nat] /\ credited'[r] = n
        /\ \A q \in Requests : q # r => credited'[q] = credited[q]
    BY <1>4, Parts DEF TypeOK
  <2>2. Local(r, s, debited'[r], credited'[r], held'[r], authorized'[r], payment'[r],
              lapsed', budget'[Row(r)])
    BY <1>4, <2>1
  <2>3. IInv'
    BY <1>1, <1>2, <1>4, <2>1, <2>2, Parts, FrameStep DEF TypeOK
  <2>4. CASE n = 0
    <3>1. balance' = balance /\ credited' = credited
      BY <1>4, <2>1, <2>4, Parts DEF TypeOK
    <3>2. QED
      BY <2>3, <3>1 DEF Refined
  <2>5. CASE n # 0
    <3>1. n \in 1..(debited[r] - credited[r])
      BY <2>5, Here
    <3>2. Account!Credit(r)
      BY <1>3, <1>4, <3>1 DEF Account!Credit
    <3>3. QED
      BY <2>3, <3>2 DEF Refined, Account!Next, Account!Requests, Requests
  <2>6. QED
    BY <2>4, <2>5
<1>5. CASE n > 0 /\ lapsed' = lapsed \cup {r} /\ UNCHANGED <<balance, credited>>
  <2>1. /\ lapsed' \subseteq Requests
        /\ \A q \in Requests : q # r => (q \in lapsed' <=> q \in lapsed)
    BY <1>5, Parts DEF TypeOK
  <2>2. Local(r, s, debited'[r], credited'[r], held'[r], authorized'[r], payment'[r],
              lapsed', budget'[Row(r)])
    BY <1>5
  <2>3. IInv'
    BY <1>1, <1>2, <1>5, <2>1, <2>2, Parts, FrameStep DEF TypeOK
  <2>4. QED
    BY <1>5, <2>3 DEF Refined
<1>6. QED
  BY <1>3, <1>4, <1>5 DEF Refund

\* settle_api_key_response: a 2xx keeps the charge, an error nothing.
LEMMA SettleStep ==
  ASSUME IInv, NEW r \in Requests, Settle(r)
  PROVE  IInv' /\ Refined
<1>0. UNCHANGED <<revoked, budget, usage, up, crashes, debited, held, cap, authorized, payment>>
  BY DEF Settle
<1>1. authorized[r] \in Nat /\ authorized[r] <= ClientCap
  BY Here DEF Local, OnePayment
<1>2. CASE /\ Goto(r, "settling", [Served(r) EXCEPT !.context = TRUE])
           /\ Refund(r, debited[r] - req[r].charge)
  <2>1. up /\ req[r].pc = "settling"
    BY <1>2 DEF Goto
  <2>2. /\ req[r].context /\ credited[r] = 0 /\ req[r].charge <= debited[r]
        /\ Payer[r] \in Keys /\ r \notin lapsed
    BY <2>1, Here DEF Local, InHandler, OnePayment, Handling
  <2>3. PICK q \in Nat : q = req[r].charge
    BY Here DEF RequestStates
  <2>4. PICK n \in Nat : n = debited[r] - q
    BY <2>2, <2>3, Here
  <2>5. PICK s : s = [Ended("served") EXCEPT !.charge = q, !.context = TRUE]
    OBVIOUS
  <2>6. /\ s \in RequestStates /\ s.pc = "served" /\ ~s.bearer /\ s.context
        /\ s.charge = q /\ s.tried = <<>>
    <3>1. PICK t : t = [Ended("served") EXCEPT !.charge = q]
      OBVIOUS
    <3>2. /\ t \in RequestStates /\ t.pc = "served" /\ ~t.bearer
          /\ t.charge = q /\ t.tried = <<>>
      BY <3>1, ServedIs
    <3>3. s = [t EXCEPT !.context = TRUE]
      BY <2>5, <3>1
    <3>4. QED
      BY <3>2, <3>3 DEF RequestStates
  <2>7. req' = [req EXCEPT ![r] = s] /\ Refund(r, n)
    BY <1>2, <2>3, <2>4, <2>5 DEF Goto, Served
  <2>8. req'[r] = s /\ \A p \in Requests : p # r => req'[p] = req[p]
    BY <2>7, Parts DEF TypeOK
  <2>9. \A x \in Keys : Spent(x)' = Spent(x)
    BY <1>0, <2>1, <2>2, <2>3, <2>6, <2>8 DEF Spent
  <2>10. /\ held[r] \in {0, q}
        /\ payment[r] \in Payments /\ ~payment[r].due
        /\ payment[r].pending = 0 /\ payment[r].settled = 0 /\ ~payment[r].missed
    BY <2>1, <2>2, <2>3, Here, NothingSent
       DEF Local, InHandler, HoldsCharge, Handling, Budgeting
  <2>11. Local(r, s, debited[r], n, held[r], authorized[r], payment[r], lapsed, budget[Row(r)])
    <3>1. AtTheEnd(r, s, debited[r], n, held[r], payment[r], lapsed)
      BY <2>2, <2>3, <2>4, <2>6, <2>10, Here DEF AtTheEnd
    <3>2. QED
      BY <1>1, <2>2, <2>3, <2>4, <2>6, <2>10, <3>1, Here, AnsweredIsLocal
  <2>12. Local(r, s, debited[r], 0, held[r], authorized[r], payment[r],
               lapsed \cup {r}, budget[Row(r)])
    <3>1. AtTheEnd(r, s, debited[r], 0, held[r], payment[r], lapsed \cup {r})
      BY <2>2, <2>3, <2>6, Here DEF AtTheEnd
    <3>2. debited[r] \in Nat /\ 0 \in Nat /\ 0 <= debited[r]
      BY Here
    <3>3. QED
      BY <1>1, <2>2, <2>6, <2>10, <3>1, <3>2, AnsweredIsLocal
  <2>13. n <= debited[r]
    BY <2>4, Here
  <2>14. QED
    BY <1>0, <2>1, <2>2, <2>6, <2>7, <2>9, <2>11, <2>12, <2>13, RefundStep
<1>3. CASE /\ Goto(r, "refunding", Ended("refused"))
           /\ Refund(r, debited[r])
  <2>1. up /\ req[r].pc = "refunding"
    BY <1>3 DEF Goto
  <2>2. /\ req[r].context /\ credited[r] = 0 /\ Payer[r] \in Keys
        /\ held[r] = 0 \/ r \in lapsed
        /\ payment[r] \in Payments /\ ~payment[r].due
        /\ payment[r].pending = 0 /\ payment[r].settled = 0 /\ ~payment[r].missed
    BY <2>1, Here, NothingSent DEF Local, InHandler, OnePayment, Handling
  <2>3. PICK n \in Nat : n = debited[r]
    BY Here
  <2>4. PICK s : s = Ended("refused")
    OBVIOUS
  <2>5. s \in RequestStates /\ s.pc = "refused" /\ ~s.bearer /\ ~s.context /\ s.tried = <<>>
    BY <2>4, EndedIs
  <2>6. req' = [req EXCEPT ![r] = s] /\ Refund(r, n)
    BY <1>3, <2>3, <2>4 DEF Goto
  <2>7. req'[r] = s /\ \A p \in Requests : p # r => req'[p] = req[p]
    BY <2>6, Parts DEF TypeOK
  <2>8. \A x \in Keys : Spent(x)' = Spent(x)
    BY <1>0, <2>1, <2>5, <2>7 DEF Spent
  <2>9. Local(r, s, debited[r], n, held[r], authorized[r], payment[r], lapsed, budget[Row(r)])
    <3>1. AtTheEnd(r, s, debited[r], n, held[r], payment[r], lapsed)
      BY <2>2, <2>3, <2>5 DEF AtTheEnd
    <3>2. QED
      BY <1>1, <2>2, <2>3, <2>5, <3>1, Here, AnsweredIsLocal
  <2>10. Local(r, s, debited[r], 0, held[r], authorized[r], payment[r],
               lapsed \cup {r}, budget[Row(r)])
    <3>1. AtTheEnd(r, s, debited[r], 0, held[r], payment[r], lapsed \cup {r})
      BY <2>5 DEF AtTheEnd
    <3>2. QED
      BY <1>1, <2>2, <2>5, <3>1, Here, AnsweredIsLocal
  <2>11. n <= debited[r]
    BY <2>3
  <2>12. QED
    BY <1>0, <2>1, <2>2, <2>5, <2>6, <2>8, <2>9, <2>10, <2>11, RefundStep
<1>4. QED
  BY <1>2, <1>3 DEF Settle

-----------------------------------------------------------------------------
(* Stops and the operator.                                                 *)

\* Crash: what was in flight is gone, what was taken stays accounted for.
LEMMA CrashStep ==
  ASSUME IInv, Crash
  PROVE  IInv' /\ Refined
<1> USE DEF storeVars, historyVars
<1>0. /\ up' = FALSE /\ crashes < MaxCrashes /\ crashes' = crashes + 1
      /\ usage' = [k \in Keys |-> 0]
      /\ req' = [r \in Requests |->
                   IF Over(r) \/ req[r].pc = "new" THEN req[r] ELSE Ended("gone")]
      /\ UNCHANGED <<storeVars, historyVars>>
  BY DEF Crash
<1>1. \A r \in Requests : req'[r] = IF Over(r) \/ req[r].pc = "new" THEN req[r] ELSE Ended("gone")
  BY <1>0
<1>2. req' \in [Requests -> RequestStates]
  <2>1. \A r \in Requests : (IF Over(r) \/ req[r].pc = "new" THEN req[r] ELSE Ended("gone"))
                              \in RequestStates
    BY Parts, EndedIs DEF TypeOK
  <2>2. QED
    BY <1>0, <2>1
<1>3. TypeOK'
  <2>1. crashes' \in 0..MaxCrashes
    BY <1>0, Parts, ConstantsAssumption DEF TypeOK
  <2>2. usage' \in [Keys -> Nat]
    BY <1>0
  <2>3. QED
    BY <1>0, <1>2, <2>1, <2>2, Parts DEF TypeOK
<1>4. LocalPart'
  <2>1. SUFFICES ASSUME NEW r \in Requests
                 PROVE  Local(r, req'[r], debited[r], credited[r], held[r], authorized[r],
                              payment[r], lapsed, budget[Row(r)])
    BY <1>0 DEF LocalPart, Row
  <2>2. CASE Over(r) \/ req[r].pc = "new"
    BY <1>1, <2>2, Here
  <2>3. CASE ~(Over(r) \/ req[r].pc = "new")
    <3>1. req'[r] = Ended("gone") /\ req[r].pc # "served"
      BY <1>1, <2>3 DEF Over
    <3>2. QED
      BY <3>1, Here, GoneIsLocal
  <2>4. QED
    BY <2>2, <2>3
<1>5. DownPart'
  BY <1>1, EndedIs DEF DownPart, Over
<1>6. BudgetPart'
  BY <1>0, Parts DEF BudgetPart, BudgetAccounted
<1>7. UsagePart'
  <2>1. SUFFICES ASSUME NEW k \in Keys PROVE 0 <= Total(Spent(k)', NumRequests)
    BY <1>0 DEF UsagePart
  <2>2. Spent(k)' \in [1..NumRequests -> Nat] /\ NumRequests \in Nat
    BY <1>3, Parts DEF TypeOK, RequestStates, Spent
  <2>3. Total(Spent(k)', NumRequests) \in Nat
    BY <2>2, TotalType
  <2>4. QED
    BY <2>3
<1>8. QED
  BY <1>0, <1>3, <1>4, <1>5, <1>6, <1>7 DEF IInv, Refined

LEMMA RestartStep ==
  ASSUME IInv, Restart
  PROVE  IInv' /\ Refined
<1> USE DEF storeVars, historyVars
<1>0. up' = TRUE /\ UNCHANGED <<storeVars, usage, crashes, req, historyVars>>
  BY DEF Restart
<1>1. TypeOK'
  BY <1>0, Parts DEF TypeOK
<1>2. LocalPart'
  BY <1>0, Parts DEF LocalPart, Row
<1>3. DownPart' /\ BudgetPart'
  BY <1>0, Parts DEF DownPart, BudgetPart, BudgetAccounted
<1>4. UsagePart'
  <2>1. \A x \in Keys : Spent(x)' = Spent(x)
    BY <1>0 DEF Spent
  <2>2. QED
    BY <1>0, <2>1, Parts, UsageKept
<1>5. QED
  BY <1>0, <1>1, <1>2, <1>3, <1>4 DEF IInv, Refined

LEMMA RevokeStep ==
  ASSUME IInv, NEW k \in Keys, Revoke(k)
  PROVE  IInv' /\ Refined
<1> USE DEF historyVars
<1>0. /\ revoked' = revoked \cup {k}
      /\ UNCHANGED <<balance, budget, usage, up, crashes, req, historyVars>>
  BY DEF Revoke
<1>1. TypeOK'
  BY <1>0, Parts DEF TypeOK
<1>2. LocalPart'
  BY <1>0, Parts DEF LocalPart, Row
<1>3. DownPart' /\ BudgetPart'
  BY <1>0, Parts DEF DownPart, BudgetPart, BudgetAccounted, Over
<1>4. UsagePart'
  <2>1. \A x \in Keys : Spent(x)' = Spent(x)
    BY <1>0 DEF Spent
  <2>2. QED
    BY <1>0, <2>1, Parts, UsageKept
<1>5. Account!Revoke(k)
  BY <1>0 DEF Account!Revoke
<1>6. QED
  BY <1>1, <1>2, <1>3, <1>4, <1>5 DEF IInv, Refined, Account!Next

\* set-model-budget: no request is in flight, and the row starts anew.
LEMMA SetModelBudgetStep ==
  ASSUME IInv, NEW k \in Keys, NEW m \in Models, NEW amount \in Caps,
         SetModelBudget(k, m, amount)
  PROVE  IInv' /\ Refined
<1>0. /\ ~up
      /\ budget' = [budget EXCEPT ![<<k, m>>] = amount]
      /\ cap' = [cap EXCEPT ![<<k, m>>] = amount]
      /\ held' = [r \in Requests |-> IF Payer[r] = k /\ ModelOf[r] = m THEN 0 ELSE held[r]]
      /\ UNCHANGED <<balance, revoked, usage, up, crashes, req, debited, credited,
                     authorized, payment, lapsed>>
  BY DEF SetModelBudget
<1>1. amount \in Nat /\ amount # Uncapped /\ <<k, m>> \in Keys \X Models
  BY ConstantsAssumption
<1>2. TypeOK'
  BY <1>0, <1>1, Parts DEF TypeOK
<1>3. LocalPart'
  <2>1. SUFFICES ASSUME NEW r \in Requests
                 PROVE  Local(r, req[r], debited[r], credited[r], held'[r], authorized[r],
                              payment[r], lapsed, budget'[Row(r)])
    BY <1>0 DEF LocalPart, Row
  <2>2. req[r].pc \in {"new", "served", "refused", "gone"}
    BY <1>0, Parts DEF DownPart, Over
  <2>3. held'[r] = 0 \/ held'[r] = held[r]
    BY <1>0
  <2>4. QED
    BY <2>2, <2>3, Here
       DEF Local, BeforeDebit, InHandler, HoldsCharge, AtTheEnd, OnePayment, Failover,
           Early, Handling, Budgeting
<1>4. DownPart'
  BY <1>0, Parts DEF DownPart, Over
<1>5. BudgetPart'
  <2>1. \A x \in Keys \X Models :
          /\ budget'[x] = IF x = <<k, m>> THEN amount ELSE budget[x]
          /\ cap'[x] = IF x = <<k, m>> THEN amount ELSE cap[x]
    BY <1>0, <1>1, Parts DEF TypeOK
  <2>2. \A j \in Keys, n \in Models : cap'[<<j, n>>] = Uncapped <=> budget'[<<j, n>>] = Uncapped
    BY <1>1, <2>1, Parts DEF BudgetPart
  <2>3. ASSUME NEW j \in Keys, NEW n \in Models, cap'[<<j, n>>] # Uncapped
        PROVE  budget'[<<j, n>>]
                 + Total(Only(held', NumRequests,
                              {q \in Requests : Payer[q] = j /\ ModelOf[q] = n}),
                         NumRequests) = cap'[<<j, n>>]
    <3> DEFINE S == {q \in Requests : Payer[q] = j /\ ModelOf[q] = n}
               old == Only(held, NumRequests, S)
               new == Only(held', NumRequests, S)
    <3>1. CASE <<j, n>> = <<k, m>>
      <4>1. new \in [1..NumRequests -> Nat] /\ \A i \in 1..NumRequests : new[i] = 0
        BY <1>0, <3>1, Parts DEF Only
      <4>2. budget'[<<j, n>>] = amount /\ cap'[<<j, n>>] = amount
        BY <1>1, <2>1, <3>1
      <4> HIDE DEF new
      <4>3. Total(new, NumRequests) = 0
        BY <4>1, Parts, TotalZero, ConstantsAssumption
      <4>4. amount + Total(new, NumRequests) = amount
        BY <1>1, <4>3
      <4>5. QED
        BY <4>2, <4>4 DEF new
    <3>2. CASE <<j, n>> # <<k, m>>
      <4>1. \A i \in 1..NumRequests : i \in S => held'[i] = held[i]
        BY <1>0, <3>2, Parts
      <4>2. new = old
        BY <4>1 DEF Only
      <4>3. <<j, n>> \in Keys \X Models
        OBVIOUS
      <4>4. budget'[<<j, n>>] = budget[<<j, n>>] /\ cap'[<<j, n>>] = cap[<<j, n>>]
        BY <2>1, <3>2, <4>3
      <4>5. budget[<<j, n>>] + Total(old, NumRequests) = cap[<<j, n>>]
        BY <2>3, <4>4, Parts DEF BudgetPart, BudgetAccounted
      <4>6. QED
        BY <4>2, <4>4, <4>5
    <3>3. QED
      BY <3>1, <3>2
  <2>4. QED
    BY <2>2, <2>3 DEF BudgetPart, BudgetAccounted
<1>6. UsagePart'
  <2>1. \A x \in Keys : Spent(x)' = Spent(x)
    BY <1>0 DEF Spent
  <2>2. QED
    BY <1>0, <2>1, Parts, UsageKept
<1>7. QED
  BY <1>0, <1>2, <1>3, <1>4, <1>5, <1>6 DEF IInv, Refined

-----------------------------------------------------------------------------
(* The theorems.                                                           *)

LEMMA InvInit == Init => IInv
<1> SUFFICES ASSUME Init PROVE IInv
  OBVIOUS
<1>0. /\ NumRequests \in Nat /\ Requests = 1..NumRequests
      /\ \A r \in Requests : req[r] = NewRequest
  BY ConstantsAssumption DEF Init, Requests
<1>1. TypeOK
  <2>1. req \in [Requests -> RequestStates]
    BY NewRequestType DEF Init
  <2>2. budget \in [Keys \X Models -> Nat \cup {Uncapped}]
    BY ConstantsAssumption DEF Init
  <2>3. NoPayment \in Payments
    BY DEF NoPayment, Payments
  <2>4. QED
    BY <2>1, <2>2, <2>3, ConstantsAssumption DEF Init, TypeOK
<1>2. LocalPart
  <2>1. SUFFICES ASSUME NEW r \in Requests
                 PROVE  Local(r, NewRequest, 0, 0, 0, 0, NoPayment, {}, budget[Row(r)])
    BY <1>0 DEF Init, LocalPart
  <2>2. /\ NewRequest.pc = "new" /\ ~NewRequest.bearer /\ NewRequest.signed = 0
        /\ ~NewRequest.context /\ NewRequest.charge = 0 /\ ~NewRequest.budgeted
        /\ NewRequest.tried = <<>>
    BY DEF NewRequest
  <2>3. Len(<<>>) = 0 /\ MaxAttempts \in Nat /\ ClientCap \in Nat
    BY ConstantsAssumption
  <2>4. ~NoPayment.due /\ ~NoPayment.missed /\ NoPayment.pending = 0 /\ NoPayment.settled = 0
    BY DEF NoPayment
  <2>5. QED
    BY <2>2, <2>3, <2>4
       DEF Local, BeforeDebit, InHandler, HoldsCharge, AtTheEnd, OnePayment, Failover,
           Early, Handling, Budgeting
<1>3. DownPart
  BY DEF Init, DownPart
<1>4. BudgetPart
  <2>1. ASSUME NEW k \in Keys, NEW m \in Models, cap[<<k, m>>] # Uncapped
        PROVE  budget[<<k, m>>]
                 + Total(Only(held, NumRequests,
                              {q \in Requests : Payer[q] = k /\ ModelOf[q] = m}),
                         NumRequests) = cap[<<k, m>>]
    <3> DEFINE S == {q \in Requests : Payer[q] = k /\ ModelOf[q] = m}
               f == Only(held, NumRequests, S)
    <3>1. f \in [1..NumRequests -> Nat] /\ \A i \in 1..NumRequests : f[i] = 0
      BY <1>0 DEF Only, Init
    <3>2. budget[<<k, m>>] \in Nat /\ cap[<<k, m>>] = budget[<<k, m>>]
      <4>1. <<k, m>> \in Keys \X Models
        OBVIOUS
      <4>2. cap = budget
        BY DEF Init
      <4>3. QED
        BY <1>1, <2>1, <4>1, <4>2 DEF TypeOK
    <3> HIDE DEF f
    <3>3. Total(f, NumRequests) = 0
      BY <1>0, <3>1, TotalZero
    <3>4. budget[<<k, m>>] + Total(f, NumRequests) = cap[<<k, m>>]
      BY <3>2, <3>3
    <3>5. QED
      BY <3>4 DEF f
  <2>2. \A k \in Keys, m \in Models : cap[<<k, m>>] = Uncapped <=> budget[<<k, m>>] = Uncapped
    BY DEF Init
  <2>3. QED
    BY <2>1, <2>2 DEF BudgetPart, BudgetAccounted
<1>5. UsagePart
  <2>1. SUFFICES ASSUME NEW k \in Keys PROVE 0 <= Total(Spent(k), NumRequests)
    BY DEF Init, UsagePart
  <2>2. Spent(k) \in [1..NumRequests -> Nat]
    BY <1>0, <1>1, SpentType
  <2>3. QED
    BY <1>0, <2>2, TotalType
<1>6. QED
  BY <1>1, <1>2, <1>3, <1>4, <1>5 DEF IInv

\* Every step preserves the invariant and is one of the account or none.
LEMMA InvNext ==
  ASSUME IInv, [Next]_vars
  PROVE  IInv' /\ Refined
<1>1. ASSUME NEW r \in Requests, Send(r) \/ Step(r) \/ Disconnect(r) \/ Mine(r)
      PROVE  IInv' /\ Refined
  BY <1>1, SendStep, LookupStep, PriceForStep, DebitStep, ChallengeStep, VerifyPaymentStep,
     QuoteStep, DebitModelBudgetStep, ListProvidersStep, SelectProviderStep, AnswerStep,
     SendSettlementStep, AwaitReceiptStep, MineStep, FailStep, RecordUsageStep, RefundModelBudgetStep, SettleStep, DisconnectStep
     DEF Step
<1>2. CASE Crash
  BY <1>2, CrashStep
<1>3. CASE Restart
  BY <1>3, RestartStep
<1>4. ASSUME NEW k \in Keys, NEW m \in Models, NEW c \in Caps, SetModelBudget(k, m, c)
      PROVE  IInv' /\ Refined
  BY <1>4, SetModelBudgetStep
<1>5. ASSUME NEW k \in Keys, Revoke(k)
      PROVE  IInv' /\ Refined
  BY <1>5, RevokeStep
<1>6. CASE UNCHANGED vars
  <2>0. UNCHANGED <<storeVars, usage, up, crashes, req, historyVars>>
    BY <1>6 DEF vars
  <2> USE DEF storeVars, historyVars
  <2>1. TypeOK'
    BY <2>0, Parts DEF TypeOK
  <2>2. LocalPart'
    BY <2>0, Parts DEF LocalPart, Row
  <2>3. DownPart' /\ BudgetPart'
    BY <2>0, Parts DEF DownPart, BudgetPart, BudgetAccounted, Over
  <2>4. UsagePart'
    <3>1. \A x \in Keys : Spent(x)' = Spent(x)
      BY <2>0 DEF Spent
    <3>2. QED
      BY <2>0, <3>1, Parts, UsageKept
  <2>5. QED
    BY <2>0, <2>1, <2>2, <2>3, <2>4 DEF IInv, Refined
<1>7. QED
  BY <1>1, <1>2, <1>3, <1>4, <1>5, <1>6 DEF Next

\* The invariant gives what the run checks.
LEMMA InvImplies == IInv => ChatInv /\ ResponseSettlesBoth
<1> SUFFICES ASSUME IInv PROVE ChatInv /\ ResponseSettlesBoth
  OBVIOUS
<1>1. UsageNeverOverstates
  <2>1. SUFFICES ASSUME NEW k \in Keys
                 PROVE  usage[k] <= Total([r \in Requests |->
                           IF Payer[r] = k THEN debited[r] - credited[r] ELSE 0], NumRequests)
    BY DEF UsageNeverOverstates
  <2> DEFINE kept == [r \in Requests |-> IF Payer[r] = k THEN debited[r] - credited[r] ELSE 0]
  <2>2. \A r \in Requests : /\ debited[r] - credited[r] \in Nat
                            /\ kept[r] \in Nat /\ Spent(k)[r] <= kept[r]
    <3>1. TAKE r \in Requests
    <3>2. credited[r] <= debited[r]
      BY Here DEF Local, OnePayment
    <3>3. debited[r] - credited[r] \in Nat
      BY <3>2, Here
    <3>4. req[r].context /\ req[r].pc \in {"settling", "served"} =>
            req[r].charge <= debited[r] - credited[r]
      BY Here DEF Local, InHandler, AtTheEnd, Handling
    <3>5. QED
      BY <3>3, <3>4 DEF Spent
  <2>3. /\ kept \in [1..NumRequests -> Nat] /\ Spent(k) \in [1..NumRequests -> Nat]
        /\ NumRequests \in Nat
    BY <2>2, Parts, SpentType
  <2>4. \A i \in 1..NumRequests : Spent(k)[i] <= kept[i]
    BY <2>2, Parts
  <2>5. usage[k] <= Total(Spent(k), NumRequests) /\ usage[k] \in Nat
    BY Parts DEF UsagePart, TypeOK
  <2> HIDE DEF kept
  <2>6. Total(Spent(k), NumRequests) <= Total(kept, NumRequests)
    BY <2>3, <2>4, TotalMonotone
  <2>7. Total(Spent(k), NumRequests) \in Nat /\ Total(kept, NumRequests) \in Nat
    BY <2>3, TotalType
  <2>8. usage[k] <= Total(kept, NumRequests)
    BY <2>5, <2>6, <2>7
  <2>9. QED
    BY <2>8 DEF kept
<1>2. FailoverIsBounded
  BY Here DEF Local, Failover, FailoverIsBounded
<1>3. PaidOnce
  <2>1. SUFFICES ASSUME NEW r \in Requests
                 PROVE  LET p == payment[r] IN
                        /\ authorized[r] <= ClientCap
                        /\ p.pending + p.settled <= authorized[r]
                        /\ p.pending + p.settled > 0 => p.due /\ debited[r] = 0
                        /\ p.due => req[r].pc # "refused"
                        /\ req[r].pc = "served" =>
                             p.missed \/ req[r].charge <= p.settled + debited[r] - credited[r]
                        /\ p.missed => p.due
    BY DEF PaidOnce
  <2>2. req[r].charge \in Nat /\ payment[r].settled \in Nat
    BY Here DEF RequestStates, Payments
  <2>3. req[r].pc = "served" =>
          payment[r].missed \/ req[r].charge <= payment[r].settled + debited[r] - credited[r]
    BY <2>2, Here DEF Local, OnePayment, AtTheEnd
  <2>4. QED
    BY <2>3, Here DEF Local, OnePayment
<1>4. ResponseSettlesBoth
  BY Here DEF Local, AtTheEnd, ResponseSettlesBoth, HasContext
<1>5. QED
  BY <1>1, <1>2, <1>3, <1>4, Parts DEF ChatInv, BudgetPart

\* The inductive invariant holds in every state.
LEMMA InvAlways == Spec => []IInv
<1>1. IInv /\ [Next]_vars => IInv'
  BY InvNext
<1>2. QED
  BY InvInit, <1>1, PTL DEF Spec

\* ChatInv holds in every state: budgets, usage rows, failover and payment of
\* chat requests are accounted for however quotes change, calls and store
\* operations fail, clients hang up and the gateway is killed.
THEOREM ChatAlwaysAccounted == Spec => []ChatInv
BY InvAlways, InvImplies, PTL

\* ResponseSettlesBoth in every state: an error response has cost neither
\* balance nor model budget, a 2xx exactly the charge.
THEOREM ResponsesSettle == Spec => []ResponseSettlesBoth
BY InvAlways, InvImplies, PTL

\* The API-key layer's debits and refunds for chat requests implement the
\* prepaid account.
THEOREM AccountRefinement == Spec => ImplementsAccount
<1>1. Init => Account!Init
  BY DEF Init, Account!Init, Requests, Account!Requests
<1>2. IInv /\ [Next]_vars => [Account!Next]_(Account!vars)
  BY InvNext DEF Refined, Account!vars
<1>3. QED
  BY InvAlways, <1>1, <1>2, PTL DEF Spec, ImplementsAccount, Account!Spec
=============================================================================
