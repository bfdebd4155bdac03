---------------------------- MODULE TokenPricing ----------------------------
(***************************************************************************)
(* Prices.  The payment layer asks for as much as TokenBasedPricing quotes *)
(* (pricing.rs) before the handler sees the request; the handler computes  *)
(* the cost again from the request it parsed (chat.rs, batch.rs), sends    *)
(* the provider a token limit and bounds the usage the provider reports.   *)
(* The pieces have to agree on every request.  Token counts, ceilings and  *)
(* sizes are scaled down; every number of the code is a constant.          *)
(***************************************************************************)
EXTENDS Totals, Sequences, FiniteSets

CONSTANTS
  Models,              \* model names
  Known,               \* the models the registry resolves
  DefaultModel,        \* the model of the fallback quote
  Rate,                \* Rate[m]: what the oracle charges for a token
  BytesPerToken,       \* BYTES_PER_TOKEN
  PerMessageOverhead,  \* PER_MESSAGE_OVERHEAD
  AssumedInput,        \* ASSUMED_INPUT_TOKENS
  AssumedOutput,       \* ASSUMED_OUTPUT_TOKENS
  DefaultMaxTokens,    \* DEFAULT_MAX_TOKENS
  MaxBatchSize,        \* MAX_BATCH_SIZE
  MaxDistinctModels,   \* MAX_DISTINCT_BATCH_MODELS
  U32Max,              \* u32::MAX
  U256Max,             \* U256::MAX
  NoChat               \* a body that is no chat request

\* Rates are unsigned, and so is every number of the code.
PricingOK ==
  /\ Known \subseteq Models /\ DefaultModel \in Models
  /\ Rate \in [Models -> Nat]
  /\ BytesPerToken \in Nat \ {0} /\ PerMessageOverhead \in Nat
  /\ AssumedInput \in Nat /\ DefaultMaxTokens \in Nat /\ U32Max \in Nat /\ MaxBatchSize \in Nat

ASSUME PricingAssumption == PricingOK

NoLimit == -1
SmallerOf(a, b) == IF a <= b THEN a ELSE b
LargerOf(a, b) == IF a >= b THEN a ELSE b

\* A request: its model, the bytes of its messages and its max_tokens.
Chats(bytes, tokens) == [model : Models, messages : bytes, max_tokens : tokens \cup {NoLimit}]

\* A body of /v1/batch: its requests, and the chat request it may be as well,
\* since unknown fields are tolerated when either is parsed.
Bodied(requests, chat) == [requests |-> requests, chat |-> chat]

-----------------------------------------------------------------------------
(* chat.rs.                                                                *)

\* estimate_input_tokens: rounded up per message, with a floor and a ceiling.
EstimateInputTokens(messages) ==
  LET TokensOf(bytes) == (bytes + BytesPerToken - 1) \div BytesPerToken + PerMessageOverhead
      total == Total([i \in DOMAIN messages |-> TokensOf(messages[i])], Len(messages))
  IN SmallerOf(LargerOf(total, AssumedInput), U32Max)

\* clamp_max_tokens(..).unwrap_or(DEFAULT_MAX_TOKENS): the tokens a request
\* is priced and dispatched for.
OutputLimit(max_tokens, ceiling) ==
  IF max_tokens = NoLimit THEN DefaultMaxTokens ELSE SmallerOf(max_tokens, ceiling)

\* estimateJobCost, as far as the gateway relies on it.
EstimateCost(model, input, output) == Rate[model] * (input + output)

\* quote_chat_request_cost, for a model that resolves.
QuoteChatRequestCost(chat, ceiling) ==
  EstimateCost(chat.model, EstimateInputTokens(chat.messages), OutputLimit(chat.max_tokens, ceiling))

\* bounded_provider_token_counts; a missing report has been replaced by the
\* number of words.
BoundedTokenCounts(chat, ceiling, reported) ==
  [input |-> SmallerOf(reported.input, EstimateInputTokens(chat.messages)),
   output |-> SmallerOf(reported.output, OutputLimit(chat.max_tokens, ceiling))]

-----------------------------------------------------------------------------
(* pricing.rs.  A price, or NotPriced: no challenge, so nobody pays.       *)

NotPriced == -1

FallbackQuote ==
  IF DefaultModel \in Known THEN EstimateCost(DefaultModel, AssumedInput, AssumedOutput)
  ELSE NotPriced

QuoteChat(chat, ceiling) ==
  IF chat.model \in Known THEN QuoteChatRequestCost(chat, ceiling) ELSE NotPriced

OverCeiling(chat, ceiling) == chat.max_tokens # NoLimit /\ chat.max_tokens > ceiling
TooManyModels(batch) == Cardinality({batch[i].model : i \in DOMAIN batch}) > MaxDistinctModels

SumOfQuotes(batch, ceiling) ==
  Total([i \in DOMAIN batch |-> QuoteChatRequestCost(batch[i], ceiling)], Len(batch))

\* What the handler is going to refuse.
ToBeRefused(chat, ceiling) == chat.messages = <<>> \/ OverCeiling(chat, ceiling)

\* The first n requests are quoted one after the other, and their sum fits.
QuotesFirst(batch, n, ceiling) ==
  /\ \A i \in 1..n : batch[i].model \in Known /\ ~ToBeRefused(batch[i], ceiling)
  /\ SumOfQuotes(SubSeq(batch, 1, n), ceiling) <= U256Max

\* Mutant: a request without max_tokens gets the fallback quote, too.
FallsBackEarly(batch, ceiling) ==
  \/ batch = <<>>
  \/ \E i \in DOMAIN batch :
       /\ batch[i].max_tokens = NoLimit \/ ToBeRefused(batch[i], ceiling)
       /\ QuotesFirst(batch, i - 1, ceiling)

\* The loop gets to a request that will be refused: the fallback price.
FallsBack(batch, ceiling) ==
  \/ batch = <<>>
  \/ Len(batch) > MaxBatchSize
  \/ \E i \in DOMAIN batch :
       ToBeRefused(batch[i], ceiling) /\ QuotesFirst(batch, i - 1, ceiling)

PriceForBatch(batch, ceiling) ==
  IF Len(batch) \in 1..MaxBatchSize /\ TooManyModels(batch) THEN NotPriced
  ELSE IF FallsBack(batch, ceiling) THEN FallbackQuote
  ELSE IF QuotesFirst(batch, Len(batch), ceiling) THEN SumOfQuotes(batch, ceiling)
  ELSE NotPriced

\* price_for: what parses as a chat request is priced as one.
PriceFor(body, ceiling) ==
  IF body.chat # NoChat THEN QuoteChat(body.chat, ceiling)
  ELSE PriceForBatch(body.requests, ceiling)

-----------------------------------------------------------------------------
(* batch.rs: submit_batch_handler, which reads the requests of any body.   *)

AcceptsBatch(batch, ceiling) ==
  /\ Len(batch) \in 1..MaxBatchSize
  /\ ~TooManyModels(batch)
  /\ \A i \in DOMAIN batch : ~ToBeRefused(batch[i], ceiling)

\* total_required, of a batch it accepts.
BatchCost(batch, ceiling) ==
  IF (\A i \in DOMAIN batch : batch[i].model \in Known)
     /\ SumOfQuotes(batch, ceiling) <= U256Max
  THEN SumOfQuotes(batch, ceiling) ELSE NotPriced

\* What is escrowed for a payment, or 0: refused, and so never settled.
Escrow(batch, paid, ceiling) ==
  LET cost == BatchCost(batch, ceiling) IN
  IF AcceptsBatch(batch, ceiling) /\ cost # NotPriced /\ cost <= paid THEN cost ELSE 0

-----------------------------------------------------------------------------
(* Properties.                                                             *)

\* A batch that the handler accepts is priced at exactly the sum of what its
\* slots cost, never at the fallback quote: who pays the price asked for is
\* not turned away as underfunded, and pays no more than is escrowed.  A
\* body that is a chat request as well may be priced at something else;
\* even then nothing is escrowed that was not paid.
BatchPriceIsCost(body, ceiling) ==
  LET price == PriceFor(body, ceiling)
      escrow == Escrow(body.requests, price, ceiling)
  IN
  /\ body.chat = NoChat /\ AcceptsBatch(body.requests, ceiling) =>
       /\ price = BatchCost(body.requests, ceiling)
       /\ price # NotPriced => escrow = price
  /\ escrow > 0 => escrow <= price

\* Whatever a provider reports, the usage that is recorded and returned
\* would not have cost more than the request was charged.
UsageIsPaidFor(chat, ceiling, reported) ==
  LET used == BoundedTokenCounts(chat, ceiling, reported) IN
  EstimateCost(chat.model, used.input, used.output) <= QuoteChatRequestCost(chat, ceiling)
=============================================================================
