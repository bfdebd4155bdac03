---------------------------- MODULE ChatPayment ----------------------------
(***************************************************************************)
(* One chat completion, from the API-key layer to the provider and back:   *)
(* the layer debits a quote from the key's balance (auth.rs), the handler  *)
(* quotes again, debits the key's budget for the model, fails over from    *)
(* provider to provider and records usage (chat.rs), and the layer gives   *)
(* the surplus or the whole debit back.  A key without funds falls through *)
(* to x402, as does a request without a key: what was signed is settled on *)
(* chain after the handler's 2xx and before the response goes out.  The    *)
(* caller is the auto-paying X402Client, whose retry is the same request,  *)
(* bearer token included.  The price oracle may answer differently every   *)
(* time it is asked, every call may fail, the client may hang up while     *)
(* the gateway waits and the gateway may be killed.  Balances and budgets  *)
(* are synced rows of the key store; the usage rows live in memory.        *)
(***************************************************************************)
EXTENDS Totals, Sequences

CONSTANTS
  Keys, NoKey,    \* API keys, and the mark of a request without one
  Models,         \* model names
  Providers,      \* addresses in the provider registry
  NumRequests,    \* chat requests
  Payer,          \* Payer[r]: the key of the caller of r, or NoKey
  ModelOf,        \* ModelOf[r]: the model it asks for
  Deposit,        \* Deposit[k]: what key k was created with
  Uncapped,       \* the budget of a model without a budget row
  Caps,           \* the budgets an operator may set
  Prices,         \* what the oracle may quote
  ClientCap,      \* budget_cap_wei of the paying client
  MaxAttempts,    \* MAX_PROVIDER_ATTEMPTS
  StoreFails,     \* bound: requests whose store operations may fail
  MaxCrashes      \* bound: kills of the gateway

Requests == 1..NumRequests

ASSUME ConstantsAssumption ==
  /\ NumRequests \in Nat
  /\ NoKey \notin Keys
  /\ Payer \in [Requests -> Keys \cup {NoKey}]
  /\ ModelOf \in [Requests -> Models]
  /\ Deposit \in [Keys -> Nat]
  /\ Caps \subseteq Nat
  /\ Uncapped \notin Nat
  /\ Prices \subseteq Nat
  /\ ClientCap \in Nat
  /\ MaxAttempts \in Nat
  /\ StoreFails \subseteq Requests
  /\ MaxCrashes \in Nat

VARIABLES
  balance,      \* store: balance row of each key
  revoked,      \* store: keys whose row is marked revoked
  budget,       \* store: budget row of each key and model, or Uncapped
  usage,        \* memory: grains in the usage rows of each key, all days
  up,           \* whether the gateway runs
  crashes,      \* kills so far
  req,          \* where a request stands, and what its future holds
  debited,      \* history: taken from the balance for a request
  credited,     \* history: given back to the balance for it
  held,         \* history: kept of the model's budget for it
  cap,          \* history: the budget the operator set last
  authorized,   \* history: the sum of the authorizations its client signed
  payment,      \* chain and history: what became of the payment it signed
  lapsed        \* history: requests a refund of which the store failed

storeVars == <<balance, revoked, budget>>
historyVars == <<debited, credited, held, cap, authorized, payment, lapsed>>
vars == <<storeVars, usage, up, crashes, req, historyVars>>

NewRequest ==
  [pc         |-> "new",
   bearer     |-> FALSE,   \* whether it carries the key
   signed     |-> 0,       \* amount in its X-PAYMENT header, 0 without one
   seen       |-> 0,       \* the balance the layer read with the key's row
   price      |-> 0,       \* the layer's quote: debited, or paid through x402
   context    |-> FALSE,   \* whether it carries an ApiKeyContext
   charge     |-> 0,       \* the handler's quote, accepted as the charge
   budgeted   |-> FALSE,   \* model_debited
   candidates |-> {},      \* providers the failover loop can still select
   tried      |-> <<>>]    \* providers it has called, in order

NoPayment ==
  [due     |-> FALSE,   \* history: the handler answered it with a 2xx
   pending |-> 0,       \* chain: the settlement that waits to be mined
   settled |-> 0,       \* chain: what a mined settlement took
   missed  |-> FALSE]   \* history: the layer got no successful receipt

\* The synthetic X402Paid and the ApiKeyContext travel together.
HasContext(r) == req[r].context

\* The request goes on with what its future holds now.
Goto(r, from, state) ==
  /\ up
  /\ req[r].pc = from
  /\ req' = [req EXCEPT ![r] = state]

At(r, pc) == [req[r] EXCEPT !.pc = pc]

\* It reaches the handler with an X402Paid extension of this amount.
Paid(amount, withContext) ==
  [NewRequest EXCEPT !.pc = "quoting", !.price = amount, !.context = withContext]

\* The request got a response, or its client or gateway went away.
Ended(outcome) == [NewRequest EXCEPT !.pc = outcome]
Over(r) == req[r].pc \in {"served", "refused", "gone"}

-----------------------------------------------------------------------------
(* The API-key layer on the way in: ApiKeyService::call.                   *)

\* A request arrives, with or without an Authorization header.
Send(r) ==
  /\ \E withKey \in IF Payer[r] = NoKey THEN {FALSE} ELSE BOOLEAN :
       Goto(r, "new", [At(r, "arriving") EXCEPT !.bearer = withKey])
  /\ UNCHANGED <<storeVars, usage, up, crashes, historyVars>>

\* Without a bearer token the request goes straight to the x402 layer.  A
\* key is looked up: 401 if it is unknown (a read error counts as unknown)
\* or revoked.
Lookup(r) ==
  /\ \/ /\ ~req[r].bearer
        /\ Goto(r, "arriving", At(r, "x402"))
     \/ /\ req[r].bearer
        /\ Payer[r] \in revoked \/ r \in StoreFails
        /\ Goto(r, "arriving", Ended("refused"))
     \/ /\ req[r].bearer
        /\ Payer[r] \notin revoked
        /\ Goto(r, "arriving", [At(r, "pricing") EXCEPT !.seen = balance[Payer[r]]])
  /\ UNCHANGED <<storeVars, usage, up, crashes, historyVars>>

\* TokenBasedPricing quotes the request: 400 if the body or the oracle does
\* not allow it, x402 if the balance read before does not cover the quote.
PriceFor(r) ==
  /\ \/ Goto(r, "pricing", Ended("refused"))
     \/ \E p \in Prices :
          IF req[r].seen < p
          THEN Goto(r, "pricing", [At(r, "x402") EXCEPT !.seen = 0])
          ELSE Goto(r, "pricing", [At(r, "debiting") EXCEPT !.seen = 0, !.price = p])
  /\ UNCHANGED <<storeVars, usage, up, crashes, historyVars>>

\* Mutant: trusts the comparison made before the quote.
CanDebitStale(k, p) == k \notin revoked

CanDebit(k, p) == k \notin revoked /\ balance[k] >= p

\* debit: check and deduct under the key's lock.  Drained or revoked in the
\* meantime, or a store error: the same fall-through to x402.
Debit(r) ==
  LET k == Payer[r]
      p == req[r].price IN
  /\ \/ /\ Goto(r, "debiting", Paid(p, TRUE))
        /\ CanDebit(k, p)
        /\ balance' = [balance EXCEPT ![k] = @ - p]
        /\ debited' = [debited EXCEPT ![r] = p]
     \/ /\ Goto(r, "debiting", [At(r, "x402") EXCEPT !.price = 0])
        /\ ~CanDebit(k, p) \/ r \in StoreFails
        /\ UNCHANGED <<balance, debited>>
  /\ UNCHANGED <<revoked, budget, usage, up, crashes, credited, held, cap,
                 authorized, payment, lapsed>>

-----------------------------------------------------------------------------
(* The x402 layer as this path sees it, and X402Client::send_paid.         *)

\* Without payment the layer answers 402 with its own quote, or an error
\* without one or if it is zero; a key's caller gets the deposit hint with
\* it.  The client checks the challenge against its cap, signs the amount
\* and sends the request again, or gives up.
Challenge(r) ==
  /\ req[r].signed = 0
  /\ \/ /\ Goto(r, "x402", Ended("refused"))
        /\ UNCHANGED authorized
     \/ \E p \in Prices :
          /\ p > 0 /\ p <= ClientCap
          /\ Goto(r, "x402", [At(r, "arriving") EXCEPT !.signed = p])
          /\ authorized' = [authorized EXCEPT ![r] = @ + p]
  /\ UNCHANGED <<storeVars, usage, up, crashes, debited, credited, held, cap,
                 payment, lapsed>>

\* Mutant: the client sends its payment again.
VerifyPaymentLoop(r) ==
  /\ req[r].signed > 0
  /\ Goto(r, "x402", At(r, "arriving"))
  /\ UNCHANGED <<storeVars, usage, up, crashes, historyVars>>

\* Mutant: the settlement is sent before the request is served.
VerifyPaymentCharged(r) ==
  /\ req[r].signed > 0
  /\ Goto(r, "x402", Paid(req[r].signed, FALSE))
  /\ payment' = [payment EXCEPT ![r].pending = req[r].signed]
  /\ UNCHANGED <<storeVars, usage, up, crashes, debited, credited, held, cap,
                 authorized, lapsed>>

\* With payment the layer quotes again: what was signed must be valid and
\* cover the quote.  A second 402 goes to the caller; the client does not
\* sign again.
VerifyPayment(r) ==
  /\ req[r].signed > 0
  /\ \/ Goto(r, "x402", Ended("refused"))
     \/ /\ \E p \in Prices : p <= req[r].signed
        /\ Goto(r, "x402", Paid(req[r].signed, FALSE))
  /\ UNCHANGED <<storeVars, usage, up, crashes, historyVars>>

-----------------------------------------------------------------------------
(* chat_completions_handler and run_dispatch.                              *)

\* Mutant: the error path leaves the model's budget debited.
AfterErrorUnrefunded(r) ==
  IF HasContext(r) THEN [At(r, "refunding") EXCEPT !.candidates = {}, !.tried = <<>>]
  ELSE Ended("refused")

\* The handler returns an error: the model's budget is given back if it was
\* debited, then the layer gives the balance back, if it took any.
AfterError(r) ==
  LET failed == [req[r] EXCEPT !.candidates = {}, !.tried = <<>>] IN
  IF req[r].budgeted THEN [failed EXCEPT !.pc = "unbudgeting"]
  ELSE IF HasContext(r) THEN [failed EXCEPT !.pc = "refunding"]
  ELSE Ended("refused")

\* quote_chat_request_cost: an invalid request, an unknown model, a failing
\* oracle, or an amount that does not cover the exact cost, is an error.
Quote(r) ==
  /\ \/ Goto(r, "quoting", AfterError(r))
     \/ \E q \in Prices :
          /\ q <= req[r].price
          /\ Goto(r, "quoting",
               [At(r, IF HasContext(r) THEN "budgeting" ELSE "listing") EXCEPT !.charge = q])
  /\ UNCHANGED <<storeVars, usage, up, crashes, historyVars>>

\* The row exists and holds at least the amount.
Covers(b, amount) == b # Uncapped /\ b >= amount

\* debit_model_budget: nothing to debit without a budget row, 402 beyond
\* it; after a store error the request goes on without a debit.
DebitModelBudget(r) ==
  LET row == <<Payer[r], ModelOf[r]>>
      charge == req[r].charge
      debitedState == [At(r, "listing") EXCEPT !.budgeted = TRUE] IN
  /\ \/ /\ Goto(r, "budgeting", debitedState)
        /\ budget[row] = Uncapped
        /\ UNCHANGED <<budget, held>>
     \/ /\ Goto(r, "budgeting", debitedState)
        /\ Covers(budget[row], charge)
        /\ budget' = [budget EXCEPT ![row] = @ - charge]
        /\ held' = [held EXCEPT ![r] = charge]
     \/ /\ Goto(r, "budgeting", AfterError(r))
        /\ budget[row] # Uncapped
        /\ ~Covers(budget[row], charge)
        /\ UNCHANGED <<budget, held>>
     \/ /\ r \in StoreFails
        /\ Goto(r, "budgeting", At(r, "listing"))
        /\ UNCHANGED <<budget, held>>
  /\ UNCHANGED <<balance, revoked, usage, up, crashes, debited, credited, cap,
                 authorized, payment, lapsed>>

\* The model is resolved and its providers and pools are listed.  An error,
\* no provider at all and a winning pool are errors of the request;
\* otherwise the providers with capacity left are the candidates.
ListProviders(r) ==
  /\ \/ Goto(r, "listing", AfterError(r))
     \/ \E C \in SUBSET Providers :
          Goto(r, "listing", [At(r, "selecting") EXCEPT !.candidates = C])
  /\ UNCHANGED <<storeVars, usage, up, crashes, historyVars>>

\* One turn of the failover loop: call the best candidate, give up without
\* one or after MAX_PROVIDER_ATTEMPTS.  Which candidate is best depends on
\* registry data this module leaves open.
SelectProvider(r) ==
  LET s == req[r] IN
  /\ \/ \E p \in s.candidates :
          /\ Len(s.tried) < MaxAttempts
          /\ Goto(r, "selecting", [At(r, "calling") EXCEPT !.tried = Append(@, p)])
     \/ /\ s.candidates = {} \/ Len(s.tried) >= MaxAttempts
        /\ Goto(r, "selecting", AfterError(r))
  /\ UNCHANGED <<storeVars, usage, up, crashes, historyVars>>

\* A usable, properly bound result: a 2xx.  A balance has paid already, and
\* the usage is recorded; what was signed is now to be settled.
Answer(r) ==
  LET answered(pc) == [At(r, pc) EXCEPT !.candidates = {}, !.tried = <<>>] IN
  /\ \/ /\ HasContext(r)
        /\ Goto(r, "calling", answered("recording"))
        /\ UNCHANGED payment
     \/ /\ ~HasContext(r)
        /\ Goto(r, "calling", answered("charging"))
        /\ payment' = [payment EXCEPT ![r].due = TRUE]
  /\ UNCHANGED <<storeVars, usage, up, crashes, debited, credited, held, cap,
                 authorized, lapsed>>

\* An error, a timeout, an empty result or one whose signature fails: the
\* provider is dropped from the candidates.
Fail(r) ==
  /\ Goto(r, "calling",
       [At(r, "selecting") EXCEPT !.candidates = @ \ {req[r].tried[Len(req[r].tried)]}])
  /\ UNCHANGED <<storeVars, usage, up, crashes, historyVars>>

\* accepted_charge: what is recorded, and what the budget is given back.
AcceptedCharge(r) == req[r].charge

\* UsageStore::record, under one write lock.
RecordUsage(r) ==
  /\ Goto(r, "recording", At(r, "settling"))
  /\ usage' = [usage EXCEPT ![Payer[r]] = @ + AcceptedCharge(r)]
  /\ UNCHANGED <<storeVars, up, crashes, historyVars>>

\* refund_model_budget: adds the charge to the row, if there is one.
RefundModelBudget(r) ==
  LET row == <<Payer[r], ModelOf[r]>> IN
  /\ Goto(r, "unbudgeting", At(r, "refunding"))
  /\ \/ /\ budget' = IF budget[row] = Uncapped THEN budget
                     ELSE [budget EXCEPT ![row] = @ + AcceptedCharge(r)]
        /\ held' = [held EXCEPT ![r] = 0]
        /\ UNCHANGED lapsed
     \/ /\ r \in StoreFails
        /\ lapsed' = lapsed \cup {r}
        /\ UNCHANGED <<budget, held>>
  /\ UNCHANGED <<balance, revoked, usage, up, crashes, debited, credited, cap,
                 authorized, payment>>

-----------------------------------------------------------------------------
(* The x402 layer on the way out: settle_paid_path.                        *)

\* The response goes out.
Served(r) == [Ended("served") EXCEPT !.charge = req[r].charge]

\* The settlement is signed and sent.  An error of the node, which may have
\* taken the transaction all the same, is logged: the response goes out.
SendSettlement(r) ==
  /\ \/ /\ Goto(r, "charging", At(r, "confirming"))
        /\ payment' = [payment EXCEPT ![r].pending = req[r].price]
     \/ /\ Goto(r, "charging", Served(r))
        /\ \E p \in {0, req[r].price} :
             payment' = [payment EXCEPT ![r].pending = p, ![r].missed = TRUE]
  /\ UNCHANGED <<storeVars, usage, up, crashes, debited, credited, held, cap,
                 authorized, lapsed>>

\* wait_for_receipt: the settlement was mined, or the layer saw it revert,
\* got no proper receipt or gave up waiting.  The response goes out.
AwaitReceipt(r) ==
  /\ Goto(r, "confirming", Served(r))
  /\ \/ /\ payment[r].settled > 0
        /\ UNCHANGED payment
     \/ payment' = [payment EXCEPT ![r].missed = TRUE]
  /\ UNCHANGED <<storeVars, usage, up, crashes, debited, credited, held, cap,
                 authorized, lapsed>>

\* The chain mines a settlement whenever it likes, also when the request is
\* over: it moves what was signed, or reverts.
Mine(r) ==
  /\ payment[r].pending > 0
  /\ \E z \in {0, payment[r].pending} :
       payment' = [payment EXCEPT ![r].pending = 0, ![r].settled = z]
  /\ UNCHANGED <<storeVars, usage, up, crashes, req, debited, credited, held, cap,
                 authorized, lapsed>>

-----------------------------------------------------------------------------
(* The API-key layer on the way out: settle_api_key_response.              *)

\* store.refund: revoked or not, the amount goes back; an error is logged.
Refund(r, amount) ==
  \/ /\ balance' = [balance EXCEPT ![Payer[r]] = @ + amount]
     /\ credited' = [credited EXCEPT ![r] = @ + amount]
     /\ UNCHANGED lapsed
  \/ /\ r \in StoreFails
     /\ amount > 0
     /\ lapsed' = lapsed \cup {r}
     /\ UNCHANGED <<balance, credited>>

\* A 2xx keeps the charge, every other response keeps nothing.
Settle(r) ==
  /\ \/ /\ Goto(r, "settling", [Served(r) EXCEPT !.context = TRUE])
        /\ Refund(r, debited[r] - req[r].charge)
     \/ /\ Goto(r, "refunding", Ended("refused"))
        /\ Refund(r, debited[r])
  /\ UNCHANGED <<revoked, budget, usage, up, crashes, debited, held, cap,
                 authorized, payment>>

-----------------------------------------------------------------------------
(* Faults and the operator.                                                *)

\* The client hangs up while the gateway waits for the chain, a provider or
\* a lock: the future of the request is dropped where it stands.
Awaiting == {"arriving", "pricing", "x402", "quoting", "listing", "calling", "recording",
             "charging", "confirming"}

Disconnect(r) ==
  /\ req[r].pc \in Awaiting
  /\ Goto(r, req[r].pc, Ended("gone"))
  /\ UNCHANGED <<storeVars, usage, up, crashes, historyVars>>

\* The process is killed: the requests in flight and the usage rows go.
Crash ==
  /\ up
  /\ crashes < MaxCrashes
  /\ up' = FALSE
  /\ crashes' = crashes + 1
  /\ usage' = [k \in Keys |-> 0]
  /\ req' = [r \in Requests |->
               IF Over(r) \/ req[r].pc = "new" THEN req[r] ELSE Ended("gone")]
  /\ UNCHANGED <<storeVars, historyVars>>

Restart ==
  /\ ~up
  /\ up' = TRUE
  /\ UNCHANGED <<storeVars, usage, crashes, req, historyVars>>

\* The admin command line opens the store itself, so it only runs while the
\* gateway does not.
SetModelBudget(k, m, amount) ==
  /\ ~up
  /\ budget' = [budget EXCEPT ![<<k, m>>] = amount]
  /\ cap' = [cap EXCEPT ![<<k, m>>] = amount]
  /\ held' = [r \in Requests |->
                IF Payer[r] = k /\ ModelOf[r] = m THEN 0 ELSE held[r]]
  /\ UNCHANGED <<balance, revoked, usage, up, crashes, req, debited, credited,
                 authorized, payment, lapsed>>

Revoke(k) ==
  /\ ~up
  /\ k \notin revoked
  /\ revoked' = revoked \cup {k}
  /\ UNCHANGED <<balance, budget, usage, up, crashes, req, historyVars>>

-----------------------------------------------------------------------------
Init ==
  /\ balance = Deposit
  /\ revoked = {}
  /\ budget \in [Keys \X Models -> Caps \cup {Uncapped}]
  /\ usage = [k \in Keys |-> 0]
  /\ up = TRUE
  /\ crashes = 0
  /\ req = [r \in Requests |-> NewRequest]
  /\ debited = [r \in Requests |-> 0]
  /\ credited = [r \in Requests |-> 0]
  /\ held = [r \in Requests |-> 0]
  /\ cap = budget
  /\ authorized = [r \in Requests |-> 0]
  /\ payment = [r \in Requests |-> NoPayment]
  /\ lapsed = {}

\* What the gateway does for a request on its own, once it has arrived.
Step(r) ==
  \/ Lookup(r) \/ PriceFor(r) \/ Debit(r) \/ Challenge(r) \/ VerifyPayment(r) \/ Quote(r)
  \/ DebitModelBudget(r) \/ ListProviders(r) \/ SelectProvider(r)
  \/ Answer(r) \/ Fail(r) \/ RecordUsage(r) \/ RefundModelBudget(r) \/ Settle(r)
  \/ SendSettlement(r) \/ AwaitReceipt(r)

Next ==
  \/ \E r \in Requests : Send(r) \/ Step(r) \/ Disconnect(r) \/ Mine(r)
  \/ Crash \/ Restart
  \/ \E k \in Keys, m \in Models, c \in Caps : SetModelBudget(k, m, c)
  \/ \E k \in Keys : Revoke(k)

\* The runtime polls a request again when what it waits for is there, and
\* every wait ends: provider and chain calls have timeouts.  Nobody has to
\* send a request, restart the gateway or run the admin tool.
Fairness == \A r \in Requests : WF_vars(Step(r))

Spec == Init /\ [][Next]_vars /\ Fairness

-----------------------------------------------------------------------------
(* Properties.                                                             *)

RequestStates ==
  [pc : Awaiting \cup {"new", "debiting", "budgeting", "selecting", "settling",
                       "unbudgeting", "refunding", "served", "refused", "gone"},
   bearer : BOOLEAN, signed : Nat, seen : Nat, price : Nat, context : BOOLEAN, charge : Nat,
   budgeted : BOOLEAN, candidates : SUBSET Providers, tried : Seq(Providers)]

Payments == [due : BOOLEAN, pending : Nat, settled : Nat, missed : BOOLEAN]

TypeOK ==
  /\ balance \in [Keys -> Nat]
  /\ revoked \subseteq Keys
  /\ budget \in [Keys \X Models -> Nat \cup {Uncapped}]
  /\ usage \in [Keys -> Nat]
  /\ up \in BOOLEAN
  /\ crashes \in 0..MaxCrashes
  /\ req \in [Requests -> RequestStates]
  /\ debited \in [Requests -> Nat]
  /\ credited \in [Requests -> Nat]
  /\ held \in [Requests -> Nat]
  /\ authorized \in [Requests -> Nat]
  /\ payment \in [Requests -> Payments]
  /\ cap \in [Keys \X Models -> Nat \cup {Uncapped}]
  /\ lapsed \subseteq Requests

\* A key's requests keep of its balance what the account allows: one debit
\* each, never from a revoked key, and credits within the debit.
Account == INSTANCE PrepaidAccount

\* ImplementsAccount: whatever fails or is interrupted, the layer's debits
\* and refunds for chat requests are those of a prepaid account.
ImplementsAccount == Account!Spec

\* ResponseSettlesBoth: a request that got an error response has cost
\* neither balance nor model budget, however far it came; one that was
\* served has cost exactly the charge, and the budget no more than that
\* (chat.rs: "refunds exactly what was debited").  The exceptions are the
\* refunds the store itself failed.
ResponseSettlesBoth ==
  \A r \in Requests \ lapsed :
    /\ req[r].pc = "refused" => debited[r] = credited[r] /\ held[r] = 0
    /\ req[r].pc = "served" /\ HasContext(r) =>
         /\ debited[r] - credited[r] = req[r].charge
         /\ held[r] \in {0, req[r].charge}

\* BudgetAccounted: a capped model's remaining budget and what requests
\* since then keep of it are what the operator set: concurrent requests
\* cannot spend it twice and no refund raises it above the cap, although
\* debits of uncapped models count as debited too.
BudgetAccounted ==
  \A k \in Keys, m \in Models :
    cap[<<k, m>>] # Uncapped =>
      budget[<<k, m>>] + Total(Only(held, NumRequests,
                      {r \in Requests : Payer[r] = k /\ ModelOf[r] = m}), NumRequests)
        = cap[<<k, m>>]

\* UsageNeverOverstates: what GET /v1/usage reports as spent was really
\* taken from the balance and is not given back later.
UsageNeverOverstates ==
  \A k \in Keys :
    usage[k] <= Total([r \in Requests |->
                         IF Payer[r] = k THEN debited[r] - credited[r] ELSE 0], NumRequests)

\* FailoverIsBounded: however the providers fail, a request calls none of
\* them twice and at most MAX_PROVIDER_ATTEMPTS of them.
FailoverIsBounded ==
  \A r \in Requests :
    /\ Len(req[r].tried) <= MaxAttempts
    /\ \A i, j \in 1..Len(req[r].tried) : req[r].tried[i] = req[r].tried[j] => i = j

\* PaidOnce: one call of send_paid authorizes at most the client's cap in
\* total, even if prices rise between challenge and retry, and the chain
\* takes no more than that.  The request is paid from the balance or through
\* x402, never both, although the retry passes the API-key layer again.  The
\* chain is charged after a 2xx only, and never for a request that is
\* refused, whenever a settlement is mined (layer.rs: "the invariant we must
\* never break is charging a payer for a NON-2xx").  A response that goes out
\* is paid at least its charge, unless the x402 layer reported a failure.
PaidOnce ==
  \A r \in Requests :
    LET p == payment[r] IN
    /\ authorized[r] <= ClientCap
    /\ p.pending + p.settled <= authorized[r]
    /\ p.pending + p.settled > 0 => p.due /\ debited[r] = 0
    /\ p.due => req[r].pc # "refused"
    /\ req[r].pc = "served" =>
         p.missed \/ req[r].charge <= p.settled + debited[r] - credited[r]
    /\ p.missed => p.due

\* ChatInv: budgets, usage, failover and payment of all chat requests are
\* accounted for at every step, with the types.
ChatInv == TypeOK /\ BudgetAccounted /\ UsageNeverOverstates /\ FailoverIsBounded /\ PaidOnce

\* RequestsEnd: every request that has arrived is eventually answered or
\* abandoned; no failover, refund or retry goes on for ever.
RequestsEnd == \A r \in Requests : req[r].pc # "new" ~> Over(r)
=============================================================================
