# Verification of the Citrate inference gateway

This directory models the parts of the gateway that move money, hand out scarce
resources or decide who may do what, checks them with TLC on small instances,
and proves the most important results with TLAPS for every value of the
constants. Paths below are relative to the repository; `batch.rs` etc. are under
`gateway/src/`, `layer.rs`, `ledger.rs` and `chain.rs` under
`crates/x402-axum/src/`.

    tlc -workers 2 -config EscrowFaults.cfg MCBatchEscrow    # one run
    tlapm BatchEscrow_proofs.tla                             # the proofs

`PROJECT.json` lists the runs, the mutants that show each property can fail, the
source lines behind every definition, the findings, the hazards and the theorems.

## 1. The system

The gateway has two modes. **Marketplace mode** sells inference on an OpenAI-like
API. A paid request passes the API-key layer (`auth.rs`), then the x402 layer
(`layer.rs`), then a handler (`chat.rs`, `batch.rs`) that asks the chain for prices,
models and providers (`queries.rs`) and dispatches to providers (`provider.rs`). The
routers with these layers are made by `build_router_with` (x402 only) and
`build_router_with_auth` (both) of `lib.rs`, over the in-memory stores.
`build_router`, which the binary starts, mounts no paid layer: it opens the durable
store, recovers the batches in it, and serves chat and batches, unpaid, only in the
open-chat dev profile. `BatchEscrow` models the layers, the handlers and the recovery
with either store, as a binary that mounts the paid routers over the durable store
would run them. **Local-proxy mode** (`local_proxy.rs`) forwards to
local model servers and meters keys instead of charging them; members get such
keys themselves (`member_keys.rs`). Both keep keys in one RocksDB store
(`keystore.rs`), encrypted under a master key (`keyvault.rs`).

| Component | State | Operations | Interacts with | What is hard |
|---|---|---|---|---|
| Batch escrow (`batch.rs`) | in-memory batch records; persisted snapshots, settled marks, debts | submit, process, checkpoint, settle, recover, read | API-key layer and x402 layer around it, key store below, providers | a task that outlives its request; crashes between synced and unsynced writes; exactly-once settlement |
| Balance accounts (`keystore.rs`, `auth.rs`) | balance, revoked flag, model budgets per key | debit, refund, revoke, set/debit/refund budget | all marketplace routes | check-then-debit by parallel requests; durability |
| API-key layer (`auth.rs`) | none of its own | look up, price, debit, call, refund | balance accounts, x402 layer | state read before an await; refunds after the fact |
| x402 layer (`layer.rs`, `chain.rs`) | none of its own | challenge, validate, serve, settle | nonce ledger, chain | replay, concurrent use of one authorization, failure after serving |
| Nonce ledger (`ledger.rs`) | entries and insertion order under a mutex | record_bound, consume_bound | x402 layer | capacity, two indexes in step |
| Key metering (`keystore.rs`, `try_consume`) | rate windows in memory; daily rows and the member pool in the store | try_consume, revoke | local proxy | clock reads outside the lock, two lock levels, midnight |
| Local proxy (`local_proxy.rs`) | per-key semaphores, one upstream semaphore | proxy_handler, path check, generation clamp | metering, upstream servers | permits on every exit path, fairness of the queue, several fields that name one limit |
| Operator wallet (`signer.rs`) | next nonce, spend window | dispatch_pool_compute, reclaim_expired_job, from_env | chain, signer | resync racing reservations, epochs |
| Chat completions (`chat.rs`, `usage.rs`) | model budgets, usage rows | handler, dispatch, record | API-key layer, providers, price oracle | two debits and two refunds, two quotes of one price |
| Member keys (`member_keys.rs`) | issuance windows, member map | ip_blocked, reserve, prune, rotate_member_key | identity provider, key store | crash between three writes, pruning, an await between check and charge |
| Provider choice (`provider.rs`, `selection.rs`) | none | list, score, fail over, accept, check an endpoint | chain queries, chat | failover, absurd answers |
| Chain queries (`queries.rs`) | two caches, one refresh lock | resolve, list, decode | chat, providers | refresh racing registrations, hang-ups under the lock, lengths chosen by a contract |
| Pricing (`pricing.rs`, `chat.rs`, `batch.rs`) | none | quote, estimate, bound, validate | both payment layers | two computations of one price |
| At-rest encryption (`keyvault.rs`, `migrate.rs`) | master key, marker, sealed rows | source a key, open, migrate | key store, admin tool | two starts at once, a migration killed anywhere |
| Start-up (`main.rs`, `lib.rs`) | none | resolve stores, open chat, modes, limits | everything | many settings, each of which may be unset, empty or malformed |
| Rest | – | wire formats, signing, metrics, command-line parsing | | conversions without state |

For each modelled component, what makes it correct:

* escrow: every unit debited is charged for a completed slot or returned; nothing
  is returned twice; every accepted batch is settled; only its submitter reads it;
* accounts: balances never go negative, a revoked key never spends, the stored
  balance is the exact history;
* x402: one authorization admits one request, for which it was minted, and is
  charged once, after a 2xx;
* metering: no day exceeds the quota or the pool, a refusal charges nothing;
* proxy: no slot is lost or returned twice, no key starves another, no request
  generates more than its budget or reaches a path it does not name;
* wallet: nonces are distinct and without holes, an epoch spends its ceiling at most;
* chat: balance and model budget are kept or returned together, usage never
  overstates what was paid, every request ends;
* member keys: an account never holds two live keys it was given, a retired key
  stays retired, pruning forgets no limit;
* encryption: no directory mixes plaintext and ciphertext or is sealed under a lost
  key, a migration loses no row;
* queries: one enumeration at a time, caches and answers mirror the registry, a
  registered model stops being unknown, every caller is answered;
* pure functions: they agree with a reference definition on every input.

## 2. Modules

| Module | Models | State | Actions |
|---|---|---|---|
| `Totals` | sums over a finite index set | – | – |
| `RocksStore` | synced and unsynced writes, power loss | `db` (what a read returns), `survivors` (the stores a power loss may leave) | `WriteSynced`, `WriteUnsynced`, `LosePower` |
| `PrepaidAccount` | abstract: what a prepaid key promises | balance, revoked, net debit per request | `Debit`, `Credit`, `Revoke` |
| `BatchEscrow` | `POST /v1/batch` end to end, the batch task, start-up recovery, both batch stores | control of requests and tasks, live records, the store | one per handler step: `Authenticate` … `Register`, the refunds of the layer, `StartTask` … `SettleBatch`, `Boot` … `Serve`, `Crash`, `PowerLoss`, `Disconnect`, `Revoke` |
| `ChatPayment` | `POST /v1/chat/completions` in the API-key layer, the auto-paying x402 client in front, model budgets, failover, usage, the settlement of an x402 payment | balance, budget and usage rows, requests with their payments | one per step of layer, handler and dispatch; `Answer`, `SendSettlement`, `AwaitReceipt` on the way out through x402, `Mine` by the chain; hang-ups, kills, budget changes by the operator |
| `PayPerUse` | abstract: what x402 promises about one authorization | admitted, answered, charged | `Admit`, `Answer`, `Charge` |
| `NonceLedger` | `ledger.rs` | entries, order, next sequence | `RecordBound`, `ConsumeBound`, `ConsumeRefused` |
| `X402Payment` | `X402Service::call` over the ledger and a chain | requests, chain, history | `Arrive` … `AwaitReceipt`, `Abandon`, `Mine`, `Tick`, `Restart` |
| `KeyMetering` | `try_consume`, revoke | store rows, rate windows, locks, history | `ReadRecord`, `ReadClock`, `CheckRate`, `ChargePool`, `ChargeKey`, `Refuse`, `StoreError`, `Stop`, … |
| `MemberKeys` | `POST /auth/member-key`, `rotate_member_key` | limiter windows, requests, records and member map in a `RocksStore` | one per step around the identity provider and per write, stops, revocations |
| `LocalProxy` | `proxy_handler` | free slots, queue, control | `Arrive`, `Enqueue`, `Acquire`, `QueueTimeout`, `Failover`, `Finish`, `Disconnect`, … |
| `OperatorWallet` | `OperatorWallet` with its nonce manager and spend cap | window, next nonce, calls, the node's view | `ReadBlock`, `TrySpend`, `Reserve`, `Sign`, `SubmitSigned`, `SubmitFails`, `ReadCount`, `Resync`, … |
| `StoreVault` | key sourcing, the marker protocol, `migrate-encrypt` | environment, key file, the directories at the path, staging and backup, processes | one per file-system or database step; `Exit`, `DieCreating` and `MigExit` are deaths at any of them |
| `ModelCatalogue` | name and list caches, refresh lock, enumeration | registry, caches, lock queue, calls | look-up, one step per RPC, store, return, hang-up, registrations, `Tick` |
| `ProxyRequest` | `path_is_unsafe`, `clamp_generation_budget` | – | pure |
| `TokenPricing` | `TokenBasedPricing`, quotes and bounds of `chat.rs`, validation, cost and escrow of `batch.rs` | – | pure |
| `ProviderChoice` | `list_providers`, scores, failover, acceptance of results, endpoint check | – | pure |
| `AbiDecode` | the ABI decoders of `queries.rs` | – | pure |
| `BootPolicy` | what a gateway serves from its environment; the wallet's `from_env` | – | pure |
| `BatchReads` | who may read a batch, and its durable form | – | pure |
| `CivilDate` | `civil_date` | – | pure |
| `MC*` | instances; `MCBatchStores` chooses between the two batch stores, `MCGates` and `MCAlgorithms` enumerate the inputs of the pure modules | – | – |
| `*_proofs` | theorems; section 4 says which module's | – | – |

`BatchEscrow` composes `Totals` and `RocksStore` and refines `PrepaidAccount`;
`ChatPayment` composes `Totals` and refines `PrepaidAccount` too: both handlers
share the balance rows and keep the same promise about them. `MemberKeys` composes
`RocksStore`; `X402Payment` composes `NonceLedger` and refines `PayPerUse`.

Modelling decisions:

* **Atomicity.** A step is what runs between two awaits, or under one lock or one
  RocksDB write. Where the code reads something before an await or a lock and uses
  it after (the balance in the API-key layer, the clock in `try_consume`, the block
  and the pending count in the wallet, the address check before the identity
  provider, the caches before the refresh lock), the read is a step of its own and
  the value a variable.
* **Durability.** RocksDB replays a prefix of its log after a power loss. `survivors`
  holds the stores of all prefixes since the last synced write; a synced write makes
  it a singleton. A process crash keeps `db`. `KeyMetering` has no power loss: its rows
  are all unsynced, and a power loss may take the last charges or a revocation back.
  `ChatPayment` needs none: balances and budgets are synced, usage is in memory.
* **Hang-ups.** A handler is a future that the server drops when the client goes
  away: the request ends at the await where it stands, without its later steps
  (no refund, no usage row, no cache write), and what it holds by a guard (a permit,
  the refresh lock) is released.
* **Data.** Amounts are naturals; prices and quotes are chosen from small sets. A
  request body is its commitment, an authorization a record of nonce, value and
  window of validity, and a signature is valid or not. A sealed row is a row with the key it
  was sealed under. In the pure modules the numbers of the code (bytes per token,
  word size, native width, ceilings) are constants with small values, so that every
  boundary lies within the enumerated inputs; `CivilDate` keeps the code's numbers.
* **Lists and words.** In `ProviderChoice` what is left of a list of providers is a set
  of positions of the listing, because `Vec::retain` and the filters keep the order and
  only the address of an entry decides what goes. `AbiDecode` compares the decoders
  with what the contract ABI encodes: `Word` writes a number by repeated division,
  `WordValues` are the numbers that fit.
* **History variables** are read by properties only, and by the environment where it
  replays a nonce. Each module marks its own.
* **The chain** is external. In `X402Payment` it takes a transaction with the next
  account nonce and executes an authorization once and before its deadline. In
  `OperatorWallet` it queues later nonces, refuses one it has, and may lose an answer.
  In `ChatPayment` it is an oracle whose price may change between two calls, and a
  settlement that it takes is mined, or reverts, at any time after; in
  `ModelCatalogue` a registry that changes between the RPCs of one enumeration. In
  `BatchEscrow` only the result of a settlement matters.
* **Indices.** A row of the store that belongs to two things is indexed by a pair:
  `budget[<<k, m>>]`, `used[<<k, d>>]`. Of a call of `try_consume` the history records
  `<<request, day>>`, so that what a day admitted can be counted.
* **Mutants** are kept next to the definition they replace, marked `Mutant:`; no
  specification uses them.

## 3. Runs

Passing runs (distinct states in brackets):

| Run | Instance and bounds | Shows |
|---|---|---|
| `escrow_faults` [860 k] | a keyed batch of two slots and an x402 batch, the durable batch store, a price above the quotes, a revocation, failing store calls, one crash or power loss | `LedgerExact`, `EscrowSettled`, `SettlementsStand`, `SettledIsFinal` |
| `escrow_live` [153 k] | two batches of one key whose balance covers one of them until a refund arrives, quotes of zero, below and at the price; the durable store with two crashes or the in-memory one with one, a revocation, fairness | `NothingLostInEither`, `RevokedKeyNeverSpends`, `ImplementsAccount`, `BatchEventuallySettled` |
| `x402` [538 k] | four requests over a ledger of two, one price, offers that cover it or not and one that is not valid yet, a restart, expiring challenges and authorizations; the two bodies are symmetric | `PaymentInv`, `OnlyPaidRequestsServed`, `ImplementsPayPerUse`, `OldChallengesSurvive` |
| `metering` [1.09 M] | two members, a limited key with two requests, an unlimited key; three seconds of two days, a restart, a revocation | `MeteringInv`, `MemberPoolHolds`, `RevokedKeyRefused` |
| `proxy` [64 k] | three clients of a key and a member, routes of two upstreams, capacity one, fairness; deadlock is checked | `PermitsInv`, `NoOvertaking`, `RequestsMoveOn` |
| `wallet` [177 k] | two dispatches of different value and a reclaim, two epochs, every failure | `NoLastingGap`, `ReuseOnlyAfterFailure`, `CapHoldsInOrder` |
| `chat` [173 k] | two requests of one caller, two providers, prices 1 and 2 of which the client signs 1, a model budget of at most 2, failing and late settlements, a kill, fairness | `ChatInv`, `ResponseSettlesBoth`, `ImplementsAccount`, `RequestsEnd` |
| `member_keys` [1.30 M] | three issuances for two accounts from two addresses, five seconds; an interval of two in a day of three hours, so that the daily limit binds within a day and the interval across its end; one kill or power loss; accounts and addresses are symmetric | `LimiterInv`, `NoStrandedKey`, `RetiredForGood` |
| `vault` [206 k] | two processes and a migration, two rows of which one is of an unknown kind, two generated keys and one in the environment, five starts | `VaultInv`, `MigrationInv`, `DryRunWritesNothing` |
| `catalog` [265 k] | two callers, three hashes with two names, a time to live of one tick, one failing RPC, fairness | `CatalogueInv`, `NegativesExpire`, `CallsEnd` |
| `algorithms` [591 k] | every small input of the pure modules, a state each; dates are counted on day by day to 2101 | `RequestsBounded`, `PricesAgree`, `ProvidersChosenWell`, `DecodersAgree`, `GatesFailClosed`, `DatesFollowCalendar` |

The type invariant of a module is a conjunct of its `…Inv`, or of the inductive
invariants of escrow and wallet.

One violation run, `rate_race`, states what a field's comment says, "Max
requests/second for this key" (`keystore.rs:214`), and shows that the code does less:
`try_consume` reads the clock before it takes the mutex, so a request that stamped
the old second resets the window of the new one.

Three invariants carry a condition because they do not hold without it:
`CapHoldsInOrder` (see Remarks); `ReuseOnlyAfterFailure`, because a resync sets the
nonce manager back to the pending count although another call may hold a later
nonce; and `NoLastingGap`, because a failing signer, or a failing read of the count,
leaves a reserved nonce behind and nothing resyncs. What they leave out is therefore
not covered: the late call of the cap, two calls with one nonce after a resync, the
dropped nonce. The hazards in `PROJECT.json` say so. The wallet is reached from the
admin tool and the tests only; the marketplace router does not call it yet.

**Why the bounds are enough.** The faults come from pairs: two requests on one key,
a request and its task, a task and a recovery, a resync and a reservation, two first
starts, an enumeration and a registration. Each instance has the pair and one more
actor or a fault at every step of it; `escrow_live` has the crash during the recovery
from a crash. Prices and quotes of batches include zero, equality and a surplus; a chat
quote of zero is left to the proofs, which allow any price (`Chat.cfg` with `Prices =
{0, 1, 2}` passes too, in close to five minutes). Three hashes
for two names are what a re-registered name needs; a few seconds in short hours and days are
what a window needs to end. In `algorithms` each function sees inputs on
both sides of every comparison it makes. The theorems below hold without these
bounds. `CHECK_DEADLOCK FALSE` stands where an instance has finitely many requests
and stops when all are over.

**Fairness.** `BatchEscrow`: the runtime keeps polling a spawned task, each dispatch
ends because `MAX_PROVIDER_ATTEMPTS` attempts are each bounded by the provider
timeout, and a supervisor restarts a stopped process, which runs recovery before it
serves; so weak fairness of `TaskStep` and `BootStep`. Requests have no fairness: a
client may go away. `LocalProxy`: tokio's semaphore is first come first served and
wakes the waiter it hands a permit to (`Acquire`), and the 300 s timeout of the HTTP
client ends each upstream call (`Proceed`). That a streamed body ends assumes that
the client reads it or leaves; the server has no write timeout. A waiter's own
timeout has no fairness, so `RequestsMoveOn` shows that capacity arrives.
`ChatPayment`: the runtime polls a request until it is answered or dropped, and the
calls to chain and providers have timeouts, so weak fairness of each request's next
step, the wait for a receipt (which ends at its timeout) included; hang-ups, kills,
restarts and the mining of a settlement have none. `ModelCatalogue`: RPCs have a timeout
and tokio's mutex is first come first served, so weak fairness of a caller's next
step and of its answer; time passes, so weak fairness of `Tick`, which
`NegativesExpire` needs.

### Remarks

What the models showed about the code besides what the properties state. Those with
a line are where a comment promises more than the code does.

* Escrow. A power loss right after the 200 of a batch whose price equals its quote
  keeps the synced debit and loses the unsynced first snapshot (`batch.rs:295`):
  nothing settles the batch, although "a crash mid-batch never strands the buyer's
  escrow" (`batch.rs:261`). A crash of the process does not. An x402 batch runs while
  its payment is still to be settled (`layer.rs:421`; `batch.rs:472` says after): when
  that fails, a refund may be recorded as owed to a payer who paid nothing.
  `build_router_with` and `build_router_with_auth` always use the in-memory store.
  Batches written before read tokens existed are closed to everyone who has no key.
  A bearer token takes precedence over `x-batch-read-token`.
* Chat over x402. A settlement comes after the 2xx and may fail, revert or outlast the
  wait: the response goes out unpaid and the layer reports it, an "accepted trade-off"
  (`layer.rs:446`). The answer is held back until then, so a client that hangs up, or
  a process that stops, during the settlement leaves a payer charged for an answer
  that was made and never sent. `PaidOnce` allows both and nothing else. Likewise
  `SettlementsStand` compares a batch's debt with its record, and does not see that
  the payment it is about failed.
* Wallet. The cap is "at most `ceiling` wei … per `blocks_per_epoch` window"
  (`signer.rs:74`); a call that read an earlier epoch resets the window of the current
  one (`signer.rs:99`). A malformed epoch length silently becomes 300.
* Key sourcing. Of two first starts, "the loser re-reads the winner's file"
  (`keyvault.rs:200`); the code returns an error instead, which is as safe. A crash
  between creating and writing the key file leaves it empty, and every later start
  refuses it.
* Migration. "A live gateway makes this fail instead of racing it" (`migrate.rs:142`),
  but the lock is given up before the first rename. A plaintext store with rows stops
  a gateway that starts then; one without rows does not, and its directory is renamed
  from under the gateway. A crash between the two renames leaves nothing at the path; the next start
  creates an empty store there, with the rows in the backup and in staging. The
  admin tool says "source store untouched" also when the second rename failed.
* Catalogue. A refresh replaces the whole map, so unknown names other than the one
  asked for are asked again (`queries.rs:36`: "repeated unknown names do not re-enumerate"). A name is
  also stored as unknown when the `getModel` call for it failed. A chat resolves its
  model twice, for the quote and for the dispatch, and may get two hashes.
* Pricing. A body is tried as a chat before it is tried as a batch (`pricing.rs:72`), and
  unknown fields are ignored. One that is both is quoted as the chat on `/v1/batch`,
  too, where the handler costs its slots. If these cost more, the request ends in 402
  and is not settled; if less, what was paid in excess is neither escrowed nor given
  back, which `batch.rs:584` defers for any overpayment. So `PricesAgree` claims
  equality for the bodies that are no chat, and of all of them that no more is escrowed
  than was paid.
* Pricing and boot. Without `max_tokens` a chat is priced and dispatched for 512
  tokens even if the operator's ceiling is lower. Only the admin tool sets model
  budgets. A refused open-chat bind still runs recovery before it stops. A huge
  `MAX_CONCURRENT_PER_KEY` passes start-up and panics at the first request.
  `CITRATE_GATEWAY_DEV_MODE` must be exactly `1`.
* Choice and decoding. `score_pool` converts the stake with `as_u128`, which panics for
  a stake above 2^128. `decode_provider_info` does not read the offset word.

## 4. Proofs

| Theorem | Module | States |
|---|---|---|
| `InvariantHolds` | `BatchEscrow_proofs` | `Spec => []EscrowInv` |
| `TypeCorrect`, `LedgerIsExact`, `NoCreditWithoutDebit`, `EscrowIsSettled` | `BatchEscrow_proofs` | the invariants of the escrow, from `EscrowInv` |
| `SettlementsAlwaysStand`, `SettlementsAreFinal` | `BatchEscrow_proofs` | `SettlementsStand`, and the action property `SettledIsFinal` |
| `NeverStranded` | `BatchEscrow_proofs` | `EscrowNeverStranded`, with the durable store, working store calls and a machine that stays up; any number of process crashes |
| `RevokedNeverSpends` | `BatchEscrow_proofs` | the action property `RevokedKeyNeverSpends` |
| `BatchesImplementAccount` | `BatchEscrow_proofs` | `BatchEscrow` implements `PrepaidAccount` |
| `ChatAlwaysAccounted`, `ResponsesSettle` | `ChatPayment_proofs` | `ChatInv`, `ResponseSettlesBoth` |
| `AccountRefinement` | `ChatPayment_proofs` | `ChatPayment` implements `PrepaidAccount` |
| `LedgerAlwaysSound`, `ServedRequestsArePaid`, `ChallengesSurvive` | `X402Payment_proofs` | `PaymentInv`, `OnlyPaidRequestsServed`, the action property `OldChallengesSurvive` |
| `PaymentRefinement` | `X402Payment_proofs` | `X402Payment` over `NonceLedger` implements `PayPerUse` |
| `WalletTypeCorrect`, `GapsAreRepaired`, `FaultFreeNoncesDistinct`, `CapHolds` | `X402Payment_proofs` | of `OperatorWallet`: its types, `NoLastingGap`, `ReuseOnlyAfterFailure`, `CapHoldsInOrder` |
| `QuotasHold`, `PoolHolds`, `RevocationTakesEffect` | `KeyMetering_proofs` | `MeteringInv`, `MemberPoolHolds`, `RevokedKeyRefused` |
| `IssuanceIsLimited`, `NoKeyStranded`, `RetirementIsFinal` | `StoreVault_proofs` | of `MemberKeys`: `LimiterInv`, `NoStrandedKey`, the action property `RetiredForGood` |
| `PermitsAlwaysAccounted`, `QueueIsFair` | `LocalProxy_proofs` | `PermitsInv`, the action property `NoOvertaking` |
| `CatalogueAlwaysSound` | `LocalProxy_proofs` | of `ModelCatalogue`: `CatalogueInv` |
| `VaultAlwaysReadable`, `MigrationLosesNothing`, `DryRunIsDry` | `StoreVault_proofs` | `VaultInv`, `MigrationInv`, the action property `DryRunWritesNothing` |
| `RequestsAlwaysBounded`, `SafePathAlwaysPlain`, `BudgetAlwaysHolds` | `Algorithms_proofs` | `RequestsBounded`; its parts, of every path and every body |
| `PricesAlwaysAgree`, `UsageAlwaysPaidFor`, `BatchPriceAlwaysCost` | `Algorithms_proofs` | `PricesAgree`; its parts, of every chat, report and batch |
| `ProvidersAlwaysChosenWell`, `FailoverAlwaysBestFirst`, `BestGoodResultAlwaysServes`, `PinnedAlwaysAllowed` | `Algorithms_proofs` | `ProvidersChosenWell`; its parts, of every listing, all pools, results and endpoints |
| `DecodersAlwaysAgree` | `Algorithms_proofs` | `DecodersAgree`; its parts are the lemmas `ArrayDecoded`, `StringAlwaysDecoded`, `ProviderAlwaysDecoded` |
| `GatesAlwaysFailClosed`, `BootAlwaysFailsClosed`, `LimitsAlwaysInForce`, `CustodyAlwaysAsConfigured`, `ReadsAlwaysTheSubmitters` | `Algorithms_proofs` | `GatesFailClosed`; its parts, of every environment and every read |
| `DatesAlwaysFollowCalendar` | `Algorithms_proofs` | `DatesFollowCalendar`, of every day from 1970 on |
| `TotalSplit` | `Totals_proofs` | the totals of complementary parts add up |

Each assumes what its module assumes of the constants and nothing about sizes: the
types of the constants, that a batch has a slot, an epoch a block, an hour a second and
a limit at least one, and that the values that stand for "none" are not among
the values they are mixed with. `StoreVault` assumes moreover that the key in the operator's environment
is not one a gateway generates (32 random bytes), and `ModelCatalogue` that the
registry holds a hash once (the registry refuses to register one again). `KeyMetering` and `LocalProxy` allow
infinitely many keys, and `LocalProxy` infinitely many clients. The numbers that bound
an instance (crashes, restarts, seconds, starts, lengths of inputs) are constants too,
so a theorem covers every finite behaviour.

The assumptions of the pure modules: `PricingOK`, `DispatchOK`, `BootOK` and `ReadsOK`
give types, with divisors other than zero, defaults of at least one and ids that differ
from "none" and from their hashes; `AbiOK` says that bytes have several values and that
an address fits in a word; `InputsOK` types the enumerated inputs; and `BuffersOK` says
that the length of a buffer fits in a word and is at most that of the longest string
and an offset word. The last is needed: `decode_string_at_offset_word` brings the length of a string to 32
bits and refuses what does not fit, so it would refuse a buffer that holds a string of more than
4 GiB. No response is near that.

A module holds the proofs of another one beside its own where both share a part of the
system: `StoreVault_proofs` those of `MemberKeys`, which writes into the store;
`LocalProxy_proofs` those of `ModelCatalogue`, whose lock is the same kind of fair queue;
`X402Payment_proofs` those of `OperatorWallet`, the other sender of transactions. So the
standard names of these three carry a prefix: `MemberSpec`, `CatalogueSpec`, `WalletSpec`.

In the state machines the invariant of the theorem is not inductive as it stands. The
strengthenings are below; TLC checked each of them on the instance of the module's run
before it was proved.

**Escrow, `EscrowInv`.** That a buyer is never refunded more than was debited is not
inductive: a settlement may start from the live record, from the snapshot in the
store, or from any older snapshot that a power loss brings back, while the layer may
still owe a surplus. `DebitCovers` therefore bounds what was returned plus what the
layer may still return plus the escrow of *every* record a settlement may start from,
in memory and in every surviving store. It needs `ControlSound` (what the control
state says about the records, and that the settled mark and the number of settlements
agree), `RecordsSound` (a terminal record splits its escrow, an open one has split
nothing), `StoresAgree` (only snapshots are unsynced, so a power loss cannot touch
balances or marks) and `QuietUntilServing`. The proof has one lemma per action; the
arithmetic of the split is `TotalSplit`, proved from the recursive function
`PrefixSum` by induction on a set of naturals. The refinement maps the store's
balances and revocations and the net debits to the abstract account and shows each
step to be a debit, a credit, a revocation or a stutter.

**Escrow, `StandInv`.** `EscrowInv` bounds what a batch cost; `SettlementsStand` says
what it cost. `PaidExactly` follows the amount through the two refunds in either
order: the debit while the layer holds it, the escrow (the same in all records) once
the surplus is back, the released part once it is settled. `SettledSound` says that a
settlement is at once in every store a power loss may leave, and that nothing in
memory contradicts it. Recovery may settle a batch again when it cannot read the
marker; that this changes nothing needs `TrueOutcome` (a terminal status is that of
the slots), because then reconciling a terminal record gives the same record
(`ReconciledAgain`). `NeverStranded` adds `InHand`: an accepted batch has a snapshot,
and until it is settled a task works on it or recovery has still to visit it.

**Chat.** The invariant is a predicate of one request and the amounts that belong to
it (`Local`), so that a step of one request leaves the others' as it was: nothing is
taken before the debit, the handler works with what was debited or signed, what a
request holds of a capped budget is its charge, and a finished request cost its charge
or nothing, unless a hang-up, a kill, a failed refund or a failed settlement is on
record for it. What the chain was sent or took for a request is at most what was
signed, and nothing before its 2xx: this part is kept by `Mine`, too, which comes at any
time (`MineStep`). Over the
requests, `BudgetPart` adds up what is held of a budget and `UsagePart` bounds a usage
row by the charges of those that recorded them. Both use the lemmas on totals.

**x402.** A nonce is in the ledger and was never used, or is held by exactly one
request, for which it was minted, or is spent (`MintPart`, `HolderPart`, `NoncePart`);
what waits on the chain or was reported belongs to a nonce that was answered
(`ChainPart`, `ReportPart`). `LedgerPart` says that the two indexes are inverse to
each other, the next sequence number is above all and the size is within the
capacity; `record_bound` and `consume_bound` are shown to keep it once, as lemmas about
the ledger alone.

**Metering.** The counter of a key is the number of requests it admitted that day, and
what the holder of the key's lock has read is still the counter. The pool is not
exact: it counts those admitted and those between the two charges (`ChargingMembers`),
and a store error after the first leaves it higher. Hence the inequality in `PoolPart`.

**Member keys.** `NoStrandedKey` is about the stores a power loss may leave, so
`MappingPart` says what they share: all have the mapping of the store that runs, since
only records are written unsynced, and an account is mapped to a key that went out to
it. Who holds the account's lock knows that key, and has revoked it when it writes the
mapping: the order of the three writes is what the proof rests on. For the limits,
`AccountPart` and `IpPart` say that a window counts exactly the grants of its day or
hour, and that where there is none, no grant is recent: pruning takes only windows
that are over, which `CalendarMonotone` carries forward as the clock moves.

**Proxy.** Free permits plus requests in flight make the limit, per key and for the
upstream, and the queue is an injective sequence of exactly the waiting requests; that
one leaves from the middle keeps the order of the others is a lemma on sequences.

**Catalogue.** While a caller enumerates, what it has still to ask is the end of the
registry it read, and what it found or missed is the part before (`Enumerates`);
registrations only append, so this stays true under them (`RegistryPart`: no hash
twice). When it stores, the two caches become what that prefix says (`CachePart`),
with the newest of several models of one name, and its answer is of some registry
(`Real`). `LockPart` says that the queue is exactly those who wait or enumerate, and
that only its head enumerates, on a miss that is still one.

**Vault.** A directory is sound if its marker names a key that the operator or the key
file has, its rows are sealed under that key, and its owner runs with it. Sound
directories stay sound because a key is kept before it is used (`KeyPart`): between
creating and writing the key file the file is empty, and nobody else writes it. For
the migration, `MigrationPart` says how staging and path compare at each of its
steps; at the swap either the path holds exactly the rows that were sealed, or a
gateway has in the meantime begun a sealed store on an empty directory.

**Wallet.** `NoLastingGap` is inductive with `CountsAccepted`: what a call read to
resync is no more than the node has, so a resync can only move the next nonce to a
point below which everything was accepted. `CapHolds` needs that, without a late call,
the window equals what its epoch spent and no later epoch spent anything.

**Pure functions.** In `MCAlgorithms` a state is an input, so `Spec => []P` follows
from `P` of every initial state; only a date changes. The work is in the parts, each
proved of every input:

* *Recursion.* `Value`, `Word`, `percent_decode_path`, the failover loop and the sums
  are recursive functions. That such a function exists is shown by induction on a set
  of naturals (`ContinuationExists` and its like); what it computes then follows from
  its equations, from one end to the other.
* *Prices.* A quote grows with the tokens it is for (`CostMonotone`), the counts of a
  provider are cut to what was quoted, and the loop that prices an accepted batch runs
  to its end: all its requests resolve and their sum fits, or there is no price
  (`SumIsNat`, `BatchIsTyped` and the lemmas on totals).
* *Budget.* A share is `cap \div g`, so `g` shares are at most `cap`
  (`QuotientTimes`); clamping keeps what is within the share (`LimitsWithinShare`).
* *Paths.* A path that passes has no encoded separator, so a decoded step yields a
  separator exactly where there was one; they are counted from the end
  (`SeparatorsFromStep`), as the decoder recurses.
* *Providers.* The best of a finite list exists and is unique, the last of equals
  (`IsBest`). `IsRun` is the invariant of the failover loop: what was tried is able,
  ordered and without repetition, and who is left is worse. Each turn takes an address
  out, so if nobody is left all were tried.
* *Decoders.* `Word` and `Value` are inverse to each other (`WordOfValue`,
  `FittingWord`), so a buffer holds the word of a number exactly if the decoder reads
  that number (`HoldsNumber`). The rest is about bounds: each comparison that the
  decoder makes before it converts is one that the reference definition makes of the
  buffer. The tuple is six words and a rest (`SixWords`).
* *Dates.* A day is an era, a year of it and a day of that year (`PartsOfDay`); the year
  that the code finds by divisions is the one that the day is in (`YearFound`), and the
  month is that of a table (`MonthTable`). Then the next day is the next of the same
  month, the first of the next one, or the first of March (`DateStep`), which is what
  the calendar says.
* *Gates.* By cases on the mode and the settings; for reads of a batch, from what the
  record of its submitter holds and what a restart keeps of it.

**Only model-checked:** liveness (`BatchEventuallySettled`, `RequestsMoveOn`,
`RequestsEnd`, `CallsEnd`, `NegativesExpire`), because fairness and `ENABLED` are out of
the prover's reach; and `NothingLostInEither`, which is about an instance that chooses
between the two stores by a variable, while the proofs have the store as a constant (for each of its
values the parts are proved: `BuyerPaysForDoneSlots` is a conjunct of
`SettlementsStand`, and `NeverStranded` is its second half).

## 5. Not modelled

* Byte encodings, hashing, AES-GCM-SIV and elliptic-curve signatures (`digest.rs`,
  `calldata.rs`, `sign_tx.rs`, `types.rs`, the parsing half of the x402 client): the
  models take a signature as valid or not and a sealed row as a tag.
* HTTP headers and their rewriting, request extractors and error bodies, metrics,
  health and logging: no state that anything else reads.
* `operator-keygen` and the parsing of command lines; the admin commands that move
  balances, budgets or directories are actions of the modules above.
* Contract calls that only pass a value on (pool and deposit queries): a choice in
  their callers. Dispatch to pools is the wallet's; its HTTP side is external.
* U256 arithmetic is exact in the state machines: an overflow of a quote total is one
  reason of `Reject`, and the debit bounds every refund, away from saturation.
  `TokenPricing` and `AbiDecode` keep widths and saturation.
* A power loss of the machine in `StoreVault`: the code makes no claim about it beyond
  what `RocksStore` models.

## 6. Order of work

In the order of importance: escrow and accounts, x402 and its ledger, metering, proxy,
wallet; chat and budgets, member keys, encryption and migration, catalogue, the pure
functions; then the proofs in the same order. Every invariant and every action property
of a run but `NothingLostInEither` is stated by a theorem.

What could follow: a power loss in `KeyMetering`, whose rows are unsynced (a hazard
without a property, since no comment promises more), and a client that does not read
its response in `LocalProxy`.
