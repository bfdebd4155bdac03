---------------------------- MODULE X402Payment ----------------------------
(***************************************************************************)
(* The paid path of the x402 middleware (x402-axum): challenge, validate,  *)
(* serve, and only then settle on chain (layer.rs, X402Service::call).     *)
(* Requests run concurrently; the client picks the request body (here its  *)
(* commitment) and the X-PAYMENT header, and may present one authorization *)
(* in any number of requests.  The chain is an external service: a node    *)
(* that orders the operator's transactions by account nonce, and           *)
(* WrappedSALT, which executes an authorization once, before its deadline. *)
(***************************************************************************)
EXTENDS NonceLedger

CONSTANTS
  NumRequests,    \* HTTP requests
  Commitments,    \* distinct (method, path, body) triples
  Prices,         \* what the pricing strategy may ask
  Offers,         \* value, valid_after and valid_before of what payers sign
  Ttl,            \* challenge_ttl_secs
  MaxTime,        \* bound: last second of a behaviour
  MaxRestarts     \* bound: restarts of the gateway

Requests == 1..NumRequests

\* A request mints at most one challenge, so these nonces are enough; nonce
\* 0 stands for the nonces that this gateway never mints.
Nonces == 0..NumRequests

ASSUME ConstantsAssumption ==
  /\ NumRequests \in Nat
  /\ MaxOutstanding \in Nat
  /\ Prices \subseteq Nat
  /\ Offers \subseteq [value : Nat, after : Nat, before : Nat]
  /\ Ttl \in Nat \ {0}
  /\ MaxTime \in Nat
  /\ MaxRestarts \in Nat

VARIABLES
  now,        \* unix seconds
  restarts,   \* restarts so far
  minted,     \* nonce -> commitment it was minted for (history)
  pc,         \* where a request stands in X402Service::call
  commit,     \* its request commitment
  price,      \* its price
  pay,        \* its payment: nonce, value, valid_after and valid_before
  opNonce,    \* operator nonce read for its settlement
  account,    \* chain: the operator's next account nonce
  pool,       \* chain: settlements that wait to be mined
  receipt,    \* chain: "none", "success" or "reverted" per request
  executed,   \* chain: authorizations executed by WrappedSALT
  granted,    \* history: how many requests a nonce brought to the handler
  answered,   \* history: nonces whose request got a 2xx
  reported    \* history: settlements reported to on_settled

requestVars == <<pc, commit, price, pay, opNonce>>
chainVars == <<account, pool, receipt, executed>>
historyVars == <<granted, answered, reported>>
vars == <<ledgerVars, now, restarts, minted, requestVars, chainVars, historyVars>>

NoPayment == [nonce |-> 0, value |-> 0, after |-> 0, before |-> 0]

\* The payment of this nonce and these terms.
Payload(n, o) == [nonce |-> n, value |-> o.value, after |-> o.after, before |-> o.before]

Goto(r, from, to) ==
  /\ pc[r] = from
  /\ pc' = [pc EXCEPT ![r] = to]

\* The request is over: its response is sent, or its future dropped.
Leave(r, from, to) ==
  /\ Goto(r, from, to)
  /\ commit' = [commit EXCEPT ![r] = "none"]
  /\ price' = [price EXCEPT ![r] = 0]
  /\ pay' = [pay EXCEPT ![r] = NoPayment]
  /\ opNonce' = [opNonce EXCEPT ![r] = 0]

-----------------------------------------------------------------------------
(* The middleware.                                                         *)

\* A request arrives and is priced: without payment it leaves with a 402,
\* with one it is validated.  Requests are numbered as they arrive.
Arrive(r, c, p) ==
  /\ \A q \in 1..(r - 1) : pc[q] # "new"
  /\ commit' = [commit EXCEPT ![r] = c]
  /\ price' = [price EXCEPT ![r] = p]
  /\ \/ /\ Goto(r, "new", "unpaid")
        /\ UNCHANGED pay
     \/ \E n \in DOMAIN minted \cup {0}, o \in Offers :
          /\ Goto(r, "new", "paying")
          /\ pay' = [pay EXCEPT ![r] = Payload(n, o)]
  /\ UNCHANGED <<ledgerVars, now, restarts, minted, opNonce, chainVars, historyVars>>

\* make_challenge: a fresh nonce, recorded with its expiry and the request
\* it is for.  Without entropy, or for a price of zero, the request gets a
\* 500 and nothing is recorded.
Challenge(r) ==
  /\ Leave(r, "unpaid", "refused")
  /\ \/ /\ price[r] > 0
        /\ minted' = [n \in DOMAIN minted \cup {r} |->
                        IF n = r THEN commit[r] ELSE minted[n]]
        /\ RecordBound(r, commit[r], now + Ttl, now)
     \/ UNCHANGED <<minted, ledgerVars>>
  /\ UNCHANGED <<now, restarts, chainVars, historyVars>>

\* The window of a payment, both ends as the code compares them.
InWindow(q, t) == q.before > t /\ q.after <= t

\* validate_paid_path up to the signature check: window, ledger, price.  A
\* nonce that was consumed stays consumed when a later check fails.
Validate(r) ==
  LET q == pay[r] IN
  /\ \/ /\ ~InWindow(q, now)
        /\ Goto(r, "paying", "unpaid")
        /\ UNCHANGED ledgerVars
     \/ /\ InWindow(q, now)
        /\ ConsumeRefused(q.nonce, commit[r], now)
        /\ Goto(r, "paying", "unpaid")
     \/ /\ InWindow(q, now)
        /\ ConsumeBound(q.nonce, commit[r], now)
        /\ Goto(r, "paying", IF q.value < price[r] THEN "unpaid" ELSE "verifying")
  /\ UNCHANGED <<now, restarts, minted, commit, price, pay, opNonce, chainVars,
                 historyVars>>

\* verify_offline: the precompile recovers the payer and the authorization
\* names this gateway's treasury, or not: then a 402 with a new challenge.
VerifySignature(r) ==
  /\ \/ /\ Goto(r, "verifying", "serving")
        /\ granted' = [granted EXCEPT ![pay[r].nonce] = @ + 1]
     \/ /\ Goto(r, "verifying", "unpaid")
        /\ UNCHANGED granted
  /\ UNCHANGED <<ledgerVars, now, restarts, minted, commit, price, pay, opNonce,
                 chainVars, answered, reported>>

\* Mutant: the payment is settled whatever the inner service answers.
ServeAndCharge(r) ==
  /\ Goto(r, "serving", "settling")
  /\ answered' \in {answered, answered \cup {pay[r].nonce}}
  /\ UNCHANGED <<ledgerVars, now, restarts, minted, commit, price, pay, opNonce,
                 chainVars, granted, reported>>

\* The inner service answers with a 2xx, and the payment is to be settled.
Serve(r) ==
  /\ Goto(r, "serving", "settling")
  /\ answered' = answered \cup {pay[r].nonce}
  /\ UNCHANGED <<ledgerVars, now, restarts, minted, commit, price, pay, opNonce,
                 chainVars, granted, reported>>

\* settle_paid_path: the operator's nonce, pending transactions included.
ReadNonce(r) ==
  /\ Goto(r, "settling", "signing")
  /\ opNonce' = [opNonce EXCEPT ![r] = account]
  /\ UNCHANGED <<ledgerVars, now, restarts, minted, commit, price, pay, chainVars,
                 historyVars>>

\* The node takes a transaction with the next account nonce.
Submit(r) ==
  /\ opNonce[r] = account
  /\ Goto(r, "signing", "waiting")
  /\ account' = account + 1
  /\ pool' = pool \cup {[request |-> r, nonce |-> pay[r].nonce, before |-> pay[r].before]}
  /\ UNCHANGED <<ledgerVars, now, restarts, minted, commit, price, pay, opNonce,
                 receipt, executed, historyVars>>

\* A nonce that another settlement used since it was read is refused: the
\* handler has served and the operator is not paid.
SubmitRefused(r) ==
  /\ opNonce[r] # account
  /\ Leave(r, "signing", "lost")
  /\ UNCHANGED <<ledgerVars, now, restarts, minted, chainVars, historyVars>>

Report(r) == reported' = reported \cup {[request |-> r, nonce |-> pay[r].nonce]}

\* wait_for_receipt: the node has a receipt of the settlement with status 1.
SettlementReceipt(r) == receipt[r] = "success"

\* A successful receipt is reported to on_settled.
AwaitReceipt(r) ==
  /\ SettlementReceipt(r)
  /\ Leave(r, "waiting", "settled")
  /\ Report(r)
  /\ UNCHANGED <<ledgerVars, now, restarts, minted, chainVars, granted, answered>>

\* The request ends early: a 500 of the verifier, an answer that is no 2xx,
\* a failed call, revert or timeout of the settlement, or the client went
\* away and the future was dropped at an await.
Abandon(r) ==
  /\ pc[r] \notin {"new", "refused", "settled", "lost"}
  /\ Leave(r, pc[r], "lost")
  /\ UNCHANGED <<ledgerVars, now, restarts, minted, chainVars, historyVars>>

\* The process is restarted: the ledger is in memory only.
Restart ==
  /\ restarts < MaxRestarts
  /\ restarts' = restarts + 1
  /\ entries' = <<>> /\ order' = <<>> /\ nextSeq' = 0
  /\ pc' = [r \in Requests |->
              IF pc[r] \in {"new", "refused", "settled"} THEN pc[r] ELSE "lost"]
  /\ commit' = [r \in Requests |-> "none"]
  /\ price' = [r \in Requests |-> 0]
  /\ pay' = [r \in Requests |-> NoPayment]
  /\ opNonce' = [r \in Requests |-> 0]
  /\ UNCHANGED <<now, minted, chainVars, historyVars>>

-----------------------------------------------------------------------------
(* The environment: time, and the chain.                                   *)

Tick ==
  /\ now < MaxTime
  /\ now' = now + 1
  /\ UNCHANGED <<ledgerVars, restarts, minted, requestVars, chainVars, historyVars>>

\* A settlement is mined.  It reverts if the authorization was executed
\* before or has run out, and may revert for want of funds.
Mine(tx) ==
  /\ pool' = pool \ {tx}
  /\ \/ /\ tx.before > now /\ tx.nonce \notin executed
        /\ executed' = executed \cup {tx.nonce}
        /\ receipt' = [receipt EXCEPT ![tx.request] = "success"]
     \/ /\ receipt' = [receipt EXCEPT ![tx.request] = "reverted"]
        /\ UNCHANGED executed
  /\ UNCHANGED <<ledgerVars, now, restarts, minted, requestVars, account, historyVars>>

-----------------------------------------------------------------------------
Init ==
  /\ LedgerInit
  /\ now = 0
  /\ restarts = 0
  /\ minted = <<>>
  /\ pc = [r \in Requests |-> "new"]
  /\ commit = [r \in Requests |-> "none"]
  /\ price = [r \in Requests |-> 0]
  /\ pay = [r \in Requests |-> NoPayment]
  /\ opNonce = [r \in Requests |-> 0]
  /\ account = 0
  /\ pool = {}
  /\ receipt = [r \in Requests |-> "none"]
  /\ executed = {}
  /\ granted = [n \in Nonces |-> 0]
  /\ answered = {}
  /\ reported = {}

RequestStep(r) ==
  \/ \E c \in Commitments, p \in Prices : Arrive(r, c, p)
  \/ Challenge(r)
  \/ Validate(r)
  \/ VerifySignature(r)
  \/ Serve(r)
  \/ ReadNonce(r)
  \/ Submit(r)
  \/ SubmitRefused(r)
  \/ AwaitReceipt(r)
  \/ Abandon(r)

Next ==
  \/ \E r \in Requests : RequestStep(r)
  \/ \E tx \in pool : Mine(tx)
  \/ Tick
  \/ Restart

Spec == Init /\ [][Next]_vars

-----------------------------------------------------------------------------
(* Properties.                                                             *)

RequestPc == {"new", "unpaid", "paying", "refused", "verifying", "serving",
              "settling", "signing", "waiting", "settled", "lost"}

Payloads == [nonce : Nonces, value : Nat, after : Nat, before : Nat]

\* The ledger, the requests and the chain have the shape the code gives them.
TypeOK ==
  /\ DOMAIN entries \subseteq Nonces \ {0}
  /\ \A n \in DOMAIN entries :
       entries[n] \in [expires : Nat, seq : Nat, commitment : Commitments]
  /\ DOMAIN order \subseteq Nat
  /\ nextSeq \in Nat
  /\ now \in 0..MaxTime
  /\ restarts \in 0..MaxRestarts
  /\ minted \in [DOMAIN minted -> Commitments]
  /\ DOMAIN minted \subseteq Nonces \ {0}
  /\ pc \in [Requests -> RequestPc]
  /\ commit \in [Requests -> Commitments \cup {"none"}]
  /\ price \in [Requests -> Nat]
  /\ pay \in [Requests -> Payloads]
  /\ opNonce \in [Requests -> Nat]
  /\ account \in Nat
  /\ pool \subseteq [request : Requests, nonce : Nonces, before : Nat]
  /\ receipt \in [Requests -> {"none", "success", "reverted"}]
  /\ executed \subseteq Nonces
  /\ granted \in [Nonces -> Nat]
  /\ answered \subseteq Nonces
  /\ reported \subseteq [request : Requests, nonce : Nonces]

\* ImplementsPayPerUse: under concurrent and repeated use of a header,
\* rejections, failing handlers, disconnects and restarts, an authorization
\* admits one request, and is charged once and only after a 2xx (layer.rs:
\* "settle => serve"; ledger.rs: "removed on first use").
Payment == INSTANCE PayPerUse WITH admitted <- granted, charged <- executed

ImplementsPayPerUse == Payment!Spec

Admitted == {"serving", "settling", "signing", "waiting"}

\* OnlyPaidRequestsServed: a request the handler works on carries an
\* authorization over at least its price, whose nonce this gateway minted
\* for exactly this request, whoever else holds or replays that nonce.
OnlyPaidRequestsServed ==
  \A r \in Requests : pc[r] \in Admitted =>
    /\ pay[r].value >= price[r]
    /\ pay[r].nonce \in DOMAIN minted
    /\ minted[pay[r].nonce] = commit[r]

\* LedgerSound: the two indexes of the ledger describe the same challenges
\* within the capacity, and none of them was ever used.
LedgerSound ==
  /\ IndexesAgree
  /\ \A n \in DOMAIN entries :
       /\ n \in DOMAIN minted /\ entries[n].commitment = minted[n]
       /\ granted[n] = 0

\* How many challenges of the ledger are older than n.
Older(n) == Cardinality({m \in DOMAIN entries : entries[m].seq < entries[n].seq})

\* r presents the challenge n: within the window of its payment, and with the
\* request that n was minted for.
Presents(r, n) ==
  /\ pc[r] = "paying"
  /\ pay[r].nonce = n
  /\ InWindow(pay[r], now)
  /\ entries[n].commitment = commit[r]

\* OldChallengesSurvive: while a process lives, a challenge that is not
\* in the last place of a full ledger leaves it only when it has expired or
\* is presented for its own request.  A flood of unpaid challenges does not
\* evict it (ledger.rs: "preserving older challenges"), and an attempt with
\* another request or out of its window leaves it to its payer.
OldChallengesSurvive ==
  [][\A n \in DOMAIN entries :
       restarts' = restarts /\ n \notin DOMAIN entries' =>
         \/ entries[n].expires <= now
         \/ Older(n) = MaxOutstanding - 1
         \/ \E r \in Requests : Presents(r, n) /\ pc'[r] # "paying"]_vars

\* ReportsAreReal: what on_settled reports was executed on chain, and no two
\* reports claim the same authorization (layer.rs: "metric count reflects
\* real settlements").
ReportsAreReal ==
  /\ \A e \in reported : e.nonce \in executed
  /\ \A e, f \in reported : e.nonce = f.nonce => e = f

\* PaymentInv: the ledger stays sound and the reports real, together with
\* the types.
PaymentInv == TypeOK /\ LedgerSound /\ ReportsAreReal
=============================================================================
