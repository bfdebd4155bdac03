------------------------- MODULE Algorithms_proofs -------------------------
(***************************************************************************)
(* Proofs about the pure functions of the gateway: what a chat and a batch *)
(* cost, what a request may generate, which paths pass, which provider a   *)
(* chat goes to, what the ABI decoders read, under which day usage counts, *)
(* and who is let in by what a start-up builds.  Each function is proved   *)
(* right for every input, and then the properties of MCAlgorithms for any  *)
(* of its bounds.                                                          *)
(***************************************************************************)
EXTENDS
  MCAlgorithms, Totals_proofs, SequenceTheorems, FiniteSetTheorems, FunctionTheorems, TLAPS

-----------------------------------------------------------------------------
(* An input is chosen at the start and stays, but for the date: a property *)
(* of all inputs is one of the initial states.                             *)

\* Every input is of one kind.
LEMMA KindOfInput ==
  ASSUME Init
  PROVE  /\ input.kind = "path" => PathInit
         /\ input.kind = "body" => BodyInit
         /\ input.kind = "chat" => ChatInit
         /\ input.kind = "batch" => BatchInit
         /\ input.kind = "providers" => ProvidersInit
         /\ input.kind = "results" => ResultsInit
         /\ input.kind = "endpoint" => EndpointInit
         /\ input.kind = "buffer" => BufferInit
         /\ input.kind = "tuple" => TupleInit
         /\ input.kind = "boot" => BootInit
         /\ input.kind = "read" => ReadInit
         /\ input.kind = "wallet" => WalletInit
         /\ input.kind = "date" => DateInit
<1>1. PathInit => input.kind = "path"
  BY DEF PathInit
<1>2. BodyInit => input.kind = "body"
  BY DEF BodyInit
<1>3. ChatInit => input.kind = "chat"
  BY DEF ChatInit
<1>4. BatchInit => input.kind = "batch"
  BY DEF BatchInit
<1>5. ProvidersInit => input.kind = "providers"
  BY DEF ProvidersInit
<1>6. ResultsInit => input.kind = "results"
  <2>1. ASSUME NEW a, NEW r, NEW q,
               input = [kind |-> "results", answers |-> a, results |-> r, required |-> q]
        PROVE  input.kind = "results"
    BY <2>1
  <2> QED
    BY <2>1, Zenon DEF ResultsInit
<1>7. EndpointInit => input.kind = "endpoint"
  BY DEF EndpointInit
<1>8. BufferInit => input.kind = "buffer"
  BY DEF BufferInit
<1>9. TupleInit => input.kind = "tuple"
  BY DEF TupleInit
<1>10. BootInit => input.kind = "boot"
  BY DEF BootInit
<1>11. ReadInit => input.kind = "read"
  BY DEF ReadInit
<1>12. WalletInit => input.kind = "wallet"
  BY DEF WalletInit
<1>13. DateInit => input.kind = "date"
  BY DEF DateInit
<1> QED
  BY <1>1, <1>2, <1>3, <1>4, <1>5, <1>6, <1>7, <1>8, <1>9, <1>10, <1>11, <1>12, <1>13 DEF Init

\* What a step does: the next date, or nothing.
LEMMA InputStep ==
  ASSUME [Next]_input
  PROVE  \/ input' = input
         \/ /\ input.kind = "date" /\ input'.kind = "date"
            /\ input'.days = input.days + 1
            /\ input'.date = DayAfter(input.date)
BY DEF Next, NextDay

-----------------------------------------------------------------------------
(* Prices.                                                                 *)

\* The smaller of two numbers is one of them.
LEMMA SmallerIs ==
  ASSUME NEW a \in Nat, NEW b \in Nat
  PROVE  SmallerOf(a, b) \in Nat /\ SmallerOf(a, b) <= a /\ SmallerOf(a, b) <= b
BY DEF SmallerOf

\* A request is estimated at, and limited to, a number of tokens.
LEMMA EstimateIsNat ==
  ASSUME PricingOK, NEW messages \in Seq(Nat)
  PROVE  EstimateInputTokens(messages) \in Nat
<1> DEFINE TokensOf(bytes) == (bytes + BytesPerToken - 1) \div BytesPerToken + PerMessageOverhead
           n == Len(messages)
           q == [i \in DOMAIN messages |-> TokensOf(messages[i])]
           total == Total(q, n)
<1>1. BytesPerToken \in Nat \ {0} /\ PerMessageOverhead \in Nat /\ AssumedInput \in Nat
      /\ U32Max \in Nat
  BY DEF PricingOK
<1>2. n \in Nat /\ DOMAIN messages = 1..n
  OBVIOUS
<1>3. ASSUME NEW i \in 1..n
      PROVE  TokensOf(messages[i]) \in Nat
  <2> DEFINE b == messages[i] + BytesPerToken - 1
  <2>1. messages[i] \in Nat
    BY <1>2
  <2>2. b \in Nat
    BY <1>1, <2>1
  <2> HIDE DEF b
  <2>3. b \div BytesPerToken \in Nat
    BY <1>1, <2>2
  <2> QED
    BY <1>1, <2>3 DEF b
<1>4. q \in [1..n -> Nat]
  <2> HIDE DEF TokensOf, n
  <2> QED
    BY <1>2, <1>3
<1> HIDE DEF n, q
<1>5. total \in Nat
  BY <1>2, <1>4, TotalType
<1>6. EstimateInputTokens(messages)
        = SmallerOf(LargerOf(total, AssumedInput), U32Max)
  BY DEF EstimateInputTokens, q, n
<1> HIDE DEF total
<1>7. LargerOf(total, AssumedInput) \in Nat
  BY <1>1, <1>5 DEF LargerOf
<1> QED
  BY <1>1, <1>6, <1>7, SmallerIs

\* More tokens do not cost less.
LEMMA CostMonotone ==
  ASSUME NEW r \in Nat, NEW a \in Nat, NEW b \in Nat, NEW c \in Nat, NEW d \in Nat,
         a <= c, b <= d
  PROVE  r * (a + b) <= r * (c + d)
<1>1. PICK k \in Nat : c + d = (a + b) + k
  <2>1. (c + d) - (a + b) \in Nat /\ c + d = (a + b) + ((c + d) - (a + b))
    OBVIOUS
  <2> QED
    BY <2>1
<1>2. r * ((a + b) + k) = r * (a + b) + r * k
  OBVIOUS
<1>3. r * k \in Nat /\ r * (a + b) \in Nat
  OBVIOUS
<1> QED
  BY <1>1, <1>2, <1>3

\* UsageIsPaidFor: bounded_provider_token_counts keeps what is recorded within
\* what quote_chat_request_cost charged, whatever the provider reports.
THEOREM UsageAlwaysPaidFor ==
  ASSUME PricingOK, NEW model \in Models, NEW messages \in Seq(Nat),
         NEW max \in Nat \cup {NoLimit}, NEW ceiling \in Nat,
         NEW chat, chat.model = model, chat.messages = messages, chat.max_tokens = max,
         NEW reported, reported.input \in Nat, reported.output \in Nat
  PROVE  UsageIsPaidFor(chat, ceiling, reported)
<1> DEFINE in == EstimateInputTokens(messages)
           out == OutputLimit(max, ceiling)
           a == SmallerOf(reported.input, in)
           b == SmallerOf(reported.output, out)
<1>1. in \in Nat
  BY EstimateIsNat
<1>2. out \in Nat
  BY SmallerIs DEF OutputLimit, PricingOK
<1>3. UsageIsPaidFor(chat, ceiling, reported) <=> Rate[model] * (a + b) <= Rate[model] * (in + out)
  BY DEF UsageIsPaidFor, BoundedTokenCounts, QuoteChatRequestCost, EstimateCost
<1>4. Rate[model] \in Nat
  BY DEF PricingOK
<1> HIDE DEF in, out
<1>5. a \in Nat /\ b \in Nat /\ a <= in /\ b <= out
  BY <1>1, <1>2, SmallerIs
<1> HIDE DEF a, b
<1> QED
  BY <1>1, <1>2, <1>3, <1>4, <1>5, CostMonotone

\* Requests whose sizes and limits are unsigned.
TypedChats == Chats(Seq(Nat), Nat)

\* A batch costs some number of grains.
LEMMA SumIsNat ==
  ASSUME PricingOK, NEW batch \in Seq(TypedChats), NEW ceiling \in Nat
  PROVE  SumOfQuotes(batch, ceiling) \in Nat
<1> DEFINE n == Len(batch)
           q == [i \in DOMAIN batch |-> QuoteChatRequestCost(batch[i], ceiling)]
<1>1. n \in Nat /\ DOMAIN batch = 1..n
  OBVIOUS
<1>2. ASSUME NEW i \in 1..n
      PROVE  QuoteChatRequestCost(batch[i], ceiling) \in Nat
  <2>1. batch[i] \in TypedChats
    BY <1>1
  <2>2. /\ batch[i].model \in Models /\ batch[i].messages \in Seq(Nat)
        /\ batch[i].max_tokens \in Nat \cup {NoLimit}
    BY <2>1 DEF TypedChats, Chats
  <2>3. EstimateInputTokens(batch[i].messages) \in Nat
    BY <2>2, EstimateIsNat
  <2>4. OutputLimit(batch[i].max_tokens, ceiling) \in Nat
    BY <2>2, SmallerIs DEF OutputLimit, PricingOK
  <2>5. PICK r \in Nat, a \in Nat, b \in Nat :
          /\ r = Rate[batch[i].model] /\ a = EstimateInputTokens(batch[i].messages)
          /\ b = OutputLimit(batch[i].max_tokens, ceiling)
    BY <2>2, <2>3, <2>4 DEF PricingOK
  <2>6. r * (a + b) \in Nat
    OBVIOUS
  <2> QED
    BY <2>5, <2>6 DEF QuoteChatRequestCost, EstimateCost
<1>3. q \in [1..n -> Nat]
  BY <1>1, <1>2
<1>4. SumOfQuotes(batch, ceiling) = Total(q, n)
  BY DEF SumOfQuotes
<1> HIDE DEF q, n
<1> QED
  BY <1>1, <1>3, <1>4, TotalType

\* BatchPriceIsCost: what submit_batch_handler accepts, price_for quoted at the
\* sum of its slots, unless the body is a chat request as well; and it escrows
\* no more than was paid whatever the body is.
THEOREM BatchPriceAlwaysCost ==
  ASSUME PricingOK, NEW batch \in Seq(TypedChats), NEW ceiling \in Nat,
         NEW body, body.requests = batch
  PROVE  BatchPriceIsCost(body, ceiling)
<1> DEFINE price == PriceFor(body, ceiling)
           cost == BatchCost(batch, ceiling)
           escrow == Escrow(batch, price, ceiling)
<1>1. ASSUME body.chat = NoChat, AcceptsBatch(batch, ceiling)
      PROVE  price = cost
  <2>1. Len(batch) \in 1..MaxBatchSize /\ MaxBatchSize \in Nat
    BY <1>1 DEF AcceptsBatch, PricingOK
  <2>2. batch # <<>> /\ ~(Len(batch) > MaxBatchSize)
    BY <2>1
  <2>3. ~FallsBack(batch, ceiling)
    BY <1>1, <2>2 DEF AcceptsBatch, FallsBack
  <2>4. price = IF QuotesFirst(batch, Len(batch), ceiling) THEN SumOfQuotes(batch, ceiling)
                ELSE NotPriced
    <3>1. ~(Len(batch) \in 1..MaxBatchSize /\ TooManyModels(batch))
      BY <1>1 DEF AcceptsBatch
    <3>2. price = PriceForBatch(batch, ceiling)
      BY <1>1 DEF PriceFor
    <3> HIDE DEF price
    <3> QED
      BY <2>3, <3>1, <3>2, Zenon DEF PriceForBatch
  <2>5. SubSeq(batch, 1, Len(batch)) = batch /\ DOMAIN batch = 1..Len(batch)
    OBVIOUS
  <2>6. QuotesFirst(batch, Len(batch), ceiling) <=>
          /\ \A i \in DOMAIN batch : batch[i].model \in Known
          /\ SumOfQuotes(batch, ceiling) <= U256Max
    BY <1>1, <2>5 DEF QuotesFirst, AcceptsBatch
  <2>7. cost = IF /\ \A i \in DOMAIN batch : batch[i].model \in Known
                  /\ SumOfQuotes(batch, ceiling) <= U256Max
               THEN SumOfQuotes(batch, ceiling) ELSE NotPriced
    BY DEF BatchCost
  <2> HIDE DEF price, cost
  <2> QED
    BY <2>4, <2>6, <2>7, Zenon
<1>2. ASSUME body.chat = NoChat, AcceptsBatch(batch, ceiling), price # NotPriced
      PROVE  escrow = price
  <2>1. price = SumOfQuotes(batch, ceiling)
    BY <1>1, <1>2 DEF BatchCost
  <2>2. price <= price
    BY <2>1, SumIsNat
  <2> QED
    BY <1>1, <1>2, <2>2 DEF Escrow
<1>3. escrow > 0 => escrow <= price
  BY DEF Escrow
<1> QED
  BY <1>1, <1>2, <1>3 DEF BatchPriceIsCost

\* The batches of the inputs have sizes and limits that are unsigned.
LEMMA BatchIsTyped ==
  ASSUME InputsOK, NEW n \in Nat, NEW r \in UpTo(n, SmallChats)
  PROVE  r \in Seq(TypedChats)
<1>1. Prompts \subseteq Nat /\ Tokens \subseteq Nat
  BY DEF InputsOK
<1>2. ASSUME NEW m \in UpTo(1, Prompts)
      PROVE  m \in Seq(Nat)
  <2>1. PICK k \in 0..1 : m \in [1..k -> Prompts]
    BY DEF UpTo
  <2>2. m \in [1..k -> Nat]
    BY <1>1, <2>1
  <2> QED
    BY <2>2
<1>3. ASSUME NEW c \in SmallChats
      PROVE  c \in TypedChats
  BY <1>1, <1>2 DEF SmallChats, TypedChats, Chats
<1>4. PICK k \in 0..n : r \in [1..k -> SmallChats]
  BY DEF UpTo
<1>5. r \in [1..k -> TypedChats]
  BY <1>3, <1>4
<1> QED
  BY <1>5

\* PricesAgree, for any rates, ceilings, sizes of requests and of batches, and
\* any report of a provider.
THEOREM PricesAlwaysAgree == Spec => []PricesAgree
<1> USE PricingAssumption, InputsAssumption
<1>1. Init => PricesAgree
  <2> SUFFICES ASSUME Init
               PROVE  PricesAgree
    OBVIOUS
  <2>1. ASSUME input.kind = "batch"
        PROVE  BatchPriceIsCost(input.body, input.ceiling)
    <3>1. BatchInit
      BY <2>1, KindOfInput
    <3>2. PICK r \in Seq(TypedChats), t \in Ceilings :
            input.body.requests = r /\ input.ceiling = t
      <4>1. PICK t \in Ceilings :
              \/ \E r \in UpTo(MaxBatch, SmallChats) :
                   input = [kind |-> "batch", body |-> Bodied(r, NoChat), ceiling |-> t]
              \/ \E r \in UpTo(1, SmallChats), c \in SmallChats :
                   input = [kind |-> "batch", body |-> Bodied(r, c), ceiling |-> t]
        BY <3>1 DEF BatchInit
      <4>2. CASE \E r \in UpTo(MaxBatch, SmallChats) :
                   input = [kind |-> "batch", body |-> Bodied(r, NoChat), ceiling |-> t]
        <5>1. PICK r \in UpTo(MaxBatch, SmallChats) :
                input = [kind |-> "batch", body |-> Bodied(r, NoChat), ceiling |-> t]
          BY <4>2
        <5>2. r \in Seq(TypedChats)
          BY BatchIsTyped DEF InputsOK
        <5> QED
          BY <5>1, <5>2 DEF Bodied
      <4>3. CASE \E r \in UpTo(1, SmallChats), c \in SmallChats :
                   input = [kind |-> "batch", body |-> Bodied(r, c), ceiling |-> t]
        <5>1. PICK r \in UpTo(1, SmallChats), c \in SmallChats :
                input = [kind |-> "batch", body |-> Bodied(r, c), ceiling |-> t]
          BY <4>3
        <5>2. r \in Seq(TypedChats)
          BY BatchIsTyped
        <5> QED
          BY <5>1, <5>2 DEF Bodied
      <4> QED
        BY <4>1, <4>2, <4>3
    <3>3. t \in Nat
      BY DEF InputsOK
    <3> QED
      BY <3>2, <3>3, BatchPriceAlwaysCost
  <2>2. ASSUME input.kind = "chat"
        PROVE  UsageIsPaidFor(input.chat, input.ceiling, input.report)
    <3>1. ChatInit
      BY <2>2, KindOfInput
    <3>2. PICK c \in Chats(UpTo(2, Prompts), Tokens), t \in Ceilings, i \in Reports,
               o \in Reports :
            input = [kind |-> "chat", chat |-> c, ceiling |-> t,
                     report |-> [input |-> i, output |-> o]]
      BY <3>1 DEF ChatInit
    <3>3. /\ input.chat = c /\ input.ceiling = t
          /\ input.report.input = i /\ input.report.output = o
      BY <3>2
    <3>4. Prompts \subseteq Nat /\ Tokens \subseteq Nat /\ t \in Nat /\ i \in Nat /\ o \in Nat
      BY DEF InputsOK
    <3>5. /\ c.model \in Models /\ c.messages \in UpTo(2, Prompts)
          /\ c.max_tokens \in Tokens \cup {NoLimit}
      BY DEF Chats
    <3>6. c.messages \in Seq(Nat)
      <4>1. PICK k \in 0..2 : c.messages \in [1..k -> Prompts]
        BY <3>5 DEF UpTo
      <4>2. c.messages \in [1..k -> Nat]
        BY <3>4, <4>1
      <4> QED
        BY <4>2
    <3>7. c.max_tokens \in Nat \cup {NoLimit}
      BY <3>4, <3>5
    <3> QED
      BY <3>3, <3>4, <3>5, <3>6, <3>7, UsageAlwaysPaidFor
  <2> QED
    BY <2>1, <2>2 DEF PricesAgree
<1>2. PricesAgree /\ [Next]_input => PricesAgree'
  <2> SUFFICES ASSUME PricesAgree, [Next]_input
               PROVE  PricesAgree'
    OBVIOUS
  <2>1. CASE input' = input
    BY <2>1 DEF PricesAgree
  <2>2. CASE input'.kind = "date"
    BY <2>2 DEF PricesAgree
  <2> QED
    BY <2>1, <2>2, InputStep
<1> QED
  BY <1>1, <1>2, PTL DEF Spec
-----------------------------------------------------------------------------
(* What a request may generate.                                            *)

\* A quotient times the divisor.
LEMMA QuotientTimes ==
  ASSUME NEW c \in Nat, NEW g \in Nat \ {0}
  PROVE  /\ c \div g \in Nat /\ (c \div g) * g <= c
         /\ \A v \in Nat : v * g <= c => v <= c \div g
<1> DEFINE q == c \div g
           r == c % g
<1>1. q \in Nat /\ r \in Nat /\ r < g /\ c = g * q + r
  OBVIOUS
<1> HIDE DEF q, r
<1>2. q * g = g * q /\ q * g \in Nat
  BY <1>1
<1>3. q * g <= c
  BY <1>1, <1>2
<1>4. ASSUME NEW v \in Nat, v * g <= c, v >= q + 1
      PROVE  FALSE
  <2>1. PICK k \in Nat : v = (q + 1) + k
    <3>1. v - (q + 1) \in Nat /\ v = (q + 1) + (v - (q + 1))
      BY <1>1, <1>4
    <3> QED
      BY <3>1
  <2>2. ((q + 1) + k) * g = q * g + g + k * g
    BY <1>1
  <2>3. k * g \in Nat
    OBVIOUS
  <2>4. v * g = q * g + g + k * g
    BY <2>1, <2>2
  <2> QED
    BY <1>1, <1>2, <1>4, <2>3, <2>4
<1>5. \A v \in Nat : v * g <= c => v <= q
  BY <1>1, <1>4
<1> QED
  BY <1>1, <1>3, <1>5 DEF q

\* What is known of a body, and of its clamped form.
LEMMA GenerationsPositive ==
  ASSUME NEW b, b.prompts \in Nat, b.n \in Int, b.best_of \in Int
  PROVE  GenerationCount(b) \in Nat \ {0}
<1> DEFINE x == Larger(b.prompts, 1)
           y == Larger(1, Larger(b.n, b.best_of))
<1>1. x \in Nat \ {0} /\ y \in Nat \ {0}
  BY DEF Larger
<1>2. GenerationCount(b) = x * y
  BY DEF GenerationCount
<1> HIDE DEF x, y
<1> QED
  BY <1>1, <1>2

\* A share is at least one token, and as many shares as there are generations
\* are within the budget, or one token each.
LEMMA ShareBounded ==
  ASSUME NEW b, b.prompts \in Nat, b.n \in Int, b.best_of \in Int, NEW cap \in Nat
  PROVE  LET g == GenerationCount(b)
             per == PerGeneration(b, cap)
         IN /\ per \in Nat \ {0}
            /\ \A v \in 0..per : v * g <= Larger(cap, g)
            /\ \A v \in Nat : v * g <= cap => v <= per
<1> DEFINE g == GenerationCount(b)
           q == cap \div g
           per == Larger(q, 1)
<1>1. g \in Nat \ {0}
  BY GenerationsPositive
<1>2. PerGeneration(b, cap) = per
  BY DEF PerGeneration
<1> HIDE DEF g
<1>3. q \in Nat /\ q * g <= cap /\ \A v \in Nat : v * g <= cap => v <= q
  BY <1>1, QuotientTimes
<1> HIDE DEF q
<1>4. per \in Nat \ {0} /\ q <= per /\ (per = q \/ (per = 1 /\ q = 0))
  BY <1>3 DEF Larger
<1> HIDE DEF per
<1>5. per * g <= Larger(cap, g)
  <2>1. CASE per = q
    BY <1>1, <1>3, <2>1 DEF Larger
  <2>2. CASE per = 1
    BY <1>1, <2>2 DEF Larger
  <2> QED
    BY <1>4, <2>1, <2>2
<1>6. ASSUME NEW v \in 0..per
      PROVE  v * g <= Larger(cap, g)
  <2>1. PICK k \in Nat : per = v + k
    <3>1. per - v \in Nat /\ per = v + (per - v)
      BY <1>4
    <3> QED
      BY <3>1
  <2>2. (v + k) * g = v * g + k * g /\ k * g \in Nat /\ v * g \in Nat
    BY <1>1
  <2>3. Larger(cap, g) \in Nat
    BY <1>1 DEF Larger
  <2> QED
    BY <1>5, <2>1, <2>2, <2>3
<1>7. \A v \in Nat : v * g <= cap => v <= per
  BY <1>3, <1>4
<1> QED
  BY <1>2, <1>4, <1>6, <1>7 DEF g

\* The clamped limits as a function of the limits and the share.
LimitsClamped(L, per) ==
  IF \A f \in LimitFields : L[f] = Absent
  THEN [L EXCEPT !["max_tokens"] = per]
  ELSE [f \in LimitFields |-> ClampedField(L[f], per)]

\* Every clamped limit is absent or within the share, one is named, and
\* clamping them again changes nothing.
LEMMA LimitsWithinShare ==
  ASSUME NEW L \in [LimitFields -> Int], NEW per \in Nat \ {0}
  PROVE  LET M == LimitsClamped(L, per)
         IN /\ M \in [LimitFields -> Int]
            /\ \A f \in LimitFields : M[f] = Absent \/ M[f] \in 0..per
            /\ \E f \in LimitFields : M[f] # Absent
            /\ LimitsClamped(M, per) = M
            /\ ((\E f \in LimitFields : L[f] # Absent)
                /\ \A f \in LimitFields : L[f] = Absent \/ L[f] \in 0..per)
                 => M = L
<1> DEFINE M == LimitsClamped(L, per)
           F == LimitFields
<1>0. per # Absent /\ "max_tokens" \in F
  BY DEF Absent, LimitFields
<1>1. M \in [F -> Int] /\ (\A f \in F : M[f] = Absent \/ M[f] \in 0..per)
        /\ \E f \in F : M[f] # Absent
  <2>1. CASE \A f \in F : L[f] = Absent
    <3>1. M = [L EXCEPT !["max_tokens"] = per]
      BY <2>1 DEF LimitsClamped
    <3>2. M["max_tokens"] = per /\ M \in [F -> Int]
            /\ \A f \in F : f # "max_tokens" => M[f] = L[f]
      BY <1>0, <3>1
    <3>3. per \in 0..per
      OBVIOUS
    <3> QED
      BY <1>0, <2>1, <3>2, <3>3
  <2>2. CASE \E f \in F : L[f] # Absent
    <3>1. M = [f \in F |-> ClampedField(L[f], per)]
      BY <2>2 DEF LimitsClamped
    <3>2. \A f \in F : M[f] = ClampedField(L[f], per)
      BY <3>1
    <3>3. \A f \in F : ClampedField(L[f], per) \in Int
                       /\ (ClampedField(L[f], per) = Absent
                           \/ ClampedField(L[f], per) \in 0..per)
                       /\ (L[f] # Absent => ClampedField(L[f], per) # Absent)
      BY <1>0 DEF ClampedField, Absent
    <3>4. M \in [F -> Int]
      BY <3>1, <3>3
    <3> QED
      BY <2>2, <3>2, <3>3, <3>4
  <2> QED
    BY <2>1, <2>2
<1>2. LimitsClamped(M, per) = M
  <2>1. LimitsClamped(M, per) = [f \in F |-> ClampedField(M[f], per)]
    BY <1>1 DEF LimitsClamped
  <2>2. \A f \in F : ClampedField(M[f], per) = M[f]
    BY <1>1 DEF ClampedField
  <2>3. M = [f \in F |-> M[f]]
    BY <1>1
  <2> HIDE DEF M
  <2> QED
    BY <2>1, <2>2, <2>3
<1>3. ASSUME \E f \in F : L[f] # Absent,
             \A f \in F : L[f] = Absent \/ L[f] \in 0..per
      PROVE  M = L
  <2>1. M = [f \in F |-> ClampedField(L[f], per)]
    BY <1>3 DEF LimitsClamped
  <2>2. \A f \in F : ClampedField(L[f], per) = L[f]
    BY <1>3 DEF ClampedField
  <2>3. L = [f \in F |-> L[f]]
    OBVIOUS
  <2> HIDE DEF M
  <2> QED
    BY <2>1, <2>2, <2>3
<1> HIDE DEF M
<1> QED
  BY <1>1, <1>2, <1>3 DEF M

\* The budget of local_proxy.rs, for every body, whatever numbers it holds,
\* and every configured cap: all generations of a request that is forwarded
\* stay together within the cap, whichever limit the upstream obeys; what was
\* within its share is forwarded as it came; clamping twice is clamping once.
THEOREM BudgetAlwaysHolds ==
  ASSUME NEW counts \in SUBSET Int, NEW values \in SUBSET Int,
         NEW b \in Bodies(counts, values), NEW cap \in Nat
  PROVE  BudgetHoldsFor(b, cap) /\ ModestRequestUnchanged(b, cap)
<1> DEFINE L == b.limits
           g == GenerationCount(b)
           per == PerGeneration(b, cap)
           M == LimitsClamped(L, per)
           c == Clamped(b, cap)
           F == LimitFields
           R == [object : BOOLEAN, prompts : Nat, n : Int, best_of : Int, limits : [F -> Int]]
<1>1. b \in R
  BY DEF Bodies
<1>2. b.prompts \in Nat /\ b.n \in Int /\ b.best_of \in Int /\ L \in [F -> Int]
  BY <1>1
<1>3. g \in Nat \ {0}
  BY <1>2, GenerationsPositive
<1>4. /\ per \in Nat \ {0}
      /\ \A v \in 0..per : v * g <= Larger(cap, g)
      /\ \A v \in Nat : v * g <= cap => v <= per
  BY <1>2, ShareBounded
<1>5. c = [b EXCEPT !.limits = M]
  BY DEF Clamped, LimitsClamped
<1>6. PICK N : N = M
  OBVIOUS
<1>7. /\ N \in [F -> Int]
      /\ \A f \in F : N[f] = Absent \/ N[f] \in 0..per
      /\ \E f \in F : N[f] # Absent
      /\ LimitsClamped(N, per) = N
      /\ ((\E f \in F : L[f] # Absent) /\ \A f \in F : L[f] = Absent \/ L[f] \in 0..per)
           => N = L
  <2> HIDE DEF per, L
  <2> QED
    BY <1>2, <1>4, <1>6, LimitsWithinShare
<1>8. c = [b EXCEPT !.limits = N]
  BY <1>5, <1>6
<1> HIDE DEF M
<1>9. c \in R /\ c.limits = N /\ c.prompts = b.prompts /\ c.n = b.n /\ c.best_of = b.best_of
  <2> HIDE DEF c
  <2> QED
    BY <1>1, <1>7, <1>8
<1>10. PerGeneration(c, cap) = per
  <2> HIDE DEF c
  <2> QED
    BY <1>9 DEF PerGeneration, GenerationCount
<1>11. Clamped(c, cap) = [c EXCEPT !.limits = LimitsClamped(c.limits, per)]
  <2> HIDE DEF c, per
  <2> QED
    BY <1>10 DEF Clamped, LimitsClamped
<1>12. Clamped(c, cap) = c
  <2>1. Clamped(c, cap) = [c EXCEPT !.limits = c.limits]
    <3> HIDE DEF c, per
    <3> QED
      BY <1>7, <1>9, <1>11
  <2>2. [c EXCEPT !.limits = c.limits] = c
    <3> HIDE DEF c
    <3> QED
      BY <1>9
  <2> QED
    BY <2>1, <2>2
<1>13. BudgetHoldsFor(b, cap)
  <2>1. \A f \in F : N[f] # Absent => N[f] >= 0 /\ N[f] * g <= Larger(cap, g)
    <3> HIDE DEF g, per
    <3> QED
      BY <1>4, <1>7
  <2> HIDE DEF g
  <2> QED
    BY <1>7, <1>9, <2>1 DEF BudgetHoldsFor, g
<1>14. ModestRequestUnchanged(b, cap)
  <2>1. ASSUME \E f \in F : L[f] # Absent,
               \A f \in F : L[f] # Absent => L[f] >= 0 /\ L[f] * g <= cap
        PROVE  c = b
    <3>1. \A f \in F : L[f] = Absent \/ L[f] \in 0..per
      <4> HIDE DEF g, per, L
      <4> QED
        BY <1>2, <1>4, <2>1
    <3>2. N = L
      BY <1>7, <2>1, <3>1
    <3>3. [b EXCEPT !.limits = L] = b
      BY <1>1
    <3> QED
      BY <1>8, <3>2, <3>3
  <2> QED
    BY <1>12, <2>1 DEF ModestRequestUnchanged
<1> QED
  BY <1>13, <1>14
-----------------------------------------------------------------------------
(* A path that passes.                                                     *)

\* What percent_decode_path makes of p from position i on, given what it
\* makes of later positions.
DecodedFrom(f, p, i) ==
  IF i > Len(p) THEN <<>>
  ELSE IF p[i] = "%" /\ i + 2 <= Len(p) /\ p[i + 1] \in HexChars /\ p[i + 2] \in HexChars
  THEN <<DecodedChar(p[i + 1], p[i + 2])>> \o f[i + 3]
  ELSE <<p[i]>> \o f[i + 1]

\* The decodings of the ends of p, the m last positions on, exist: there is
\* one position more at a time.
LEMMA DecodingExists ==
  ASSUME NEW S, NEW p \in Seq(S)
  PROVE  \E f : f = [i \in 1..(Len(p) + 1) |-> DecodedFrom(f, p, i)]
<1> DEFINE n == Len(p)
           From(m) == (n + 1 - m)..(n + 1)
           G == {m \in 0..n : \E f : /\ DOMAIN f = From(m)
                                     /\ \A i \in From(m) : f[i] = DecodedFrom(f, p, i)}
<1>0. n \in Nat
  OBVIOUS
<1>1. 0 \in G
  <2> DEFINE f == [i \in From(0) |-> <<>>]
  <2>1. DOMAIN f = From(0) /\ \A i \in From(0) : f[i] = <<>> /\ i > Len(p)
    OBVIOUS
  <2> HIDE DEF f
  <2>2. \A i \in From(0) : f[i] = DecodedFrom(f, p, i)
    BY <2>1 DEF DecodedFrom
  <2> QED
    BY <1>0, <2>1, <2>2
<1>2. ASSUME NEW m \in 1..n, m - 1 \in G
      PROVE  m \in G
  <2>1. PICK f : /\ DOMAIN f = From(m - 1)
                 /\ \A i \in From(m - 1) : f[i] = DecodedFrom(f, p, i)
    BY <1>2
  <2> DEFINE g == [i \in From(m) |-> IF i \in From(m - 1) THEN f[i] ELSE DecodedFrom(f, p, i)]
  <2>2. DOMAIN g = From(m) /\ (\A i \in From(m - 1) : i \in From(m) /\ g[i] = f[i])
    BY <1>0
  <2>3. \A i \in From(m) : g[i] = DecodedFrom(f, p, i)
    BY <2>1
  <2> HIDE DEF g
  <2>4. ASSUME NEW i \in From(m)
        PROVE  DecodedFrom(g, p, i) = DecodedFrom(f, p, i)
    <3>1. i + 1 \in From(m - 1) \/ i > Len(p)
      BY <1>0
    <3>2. i + 2 <= Len(p) => i + 3 \in From(m - 1)
      BY <1>0
    <3> QED
      BY <2>2, <3>1, <3>2 DEF DecodedFrom
  <2> QED
    BY <2>2, <2>3, <2>4
<1> HIDE DEF G
<1>3. \A m \in 0..n : m \in G
  BY <1>0, <1>1, <1>2, InductionUpTo
<1>4. PICK f : /\ DOMAIN f = From(n)
               /\ \A i \in From(n) : f[i] = DecodedFrom(f, p, i)
  BY <1>0, <1>3 DEF G
<1>5. From(n) = 1..(n + 1)
  BY <1>0
<1> DEFINE g == [i \in 1..(n + 1) |-> f[i]]
<1>6. \A i \in 1..(n + 1) : g[i] = f[i]
  OBVIOUS
<1> HIDE DEF g
<1>7. ASSUME NEW i \in 1..(n + 1)
      PROVE  f[i] = DecodedFrom(g, p, i)
  <2>1. i + 1 \in 1..(n + 1) \/ i > Len(p)
    BY <1>0
  <2>2. i + 2 <= Len(p) => i + 3 \in 1..(n + 1)
    BY <1>0
  <2>3. DecodedFrom(g, p, i) = DecodedFrom(f, p, i)
    BY <1>6, <2>1, <2>2 DEF DecodedFrom
  <2> QED
    BY <1>4, <1>5, <2>3
<1>8. g = [i \in 1..(n + 1) |-> DecodedFrom(g, p, i)]
  <2>1. g = [i \in 1..(n + 1) |-> f[i]]
    BY DEF g
  <2>2. [i \in 1..(n + 1) |-> f[i]] = [i \in 1..(n + 1) |-> DecodedFrom(g, p, i)]
    BY <1>7
  <2> QED
    BY <2>1, <2>2
<1> QED
  BY <1>8

\* percent_decode_path is the first of them.
LEMMA DecodingIs ==
  ASSUME NEW S, NEW p \in Seq(S)
  PROVE  \E f : /\ f = [i \in 1..(Len(p) + 1) |-> DecodedFrom(f, p, i)]
                /\ PercentDecodePath(p) = f[1]
<1> DEFINE Eq(f) == f = [i \in 1..(Len(p) + 1) |->
             IF i > Len(p) THEN <<>>
             ELSE IF p[i] = "%" /\ i + 2 <= Len(p)
                     /\ p[i + 1] \in HexChars /\ p[i + 2] \in HexChars
             THEN <<DecodedChar(p[i + 1], p[i + 2])>> \o f[i + 3]
             ELSE <<p[i]>> \o f[i + 1]]
           d == CHOOSE f : Eq(f)
<1>1. \A f : Eq(f) <=> f = [i \in 1..(Len(p) + 1) |-> DecodedFrom(f, p, i)]
  BY DEF DecodedFrom
<1>2. \E f : Eq(f)
  <2>1. PICK f : f = [i \in 1..(Len(p) + 1) |-> DecodedFrom(f, p, i)]
    BY DecodingExists
  <2>2. Eq(f)
    BY <1>1, <2>1
  <2> HIDE DEF Eq
  <2> QED
    BY <2>2
<1>3. Eq(d)
  <2> HIDE DEF Eq
  <2> QED
    BY <1>2
<1>4. PercentDecodePath(p) = d[1]
  BY DEF PercentDecodePath
<1> QED
  BY <1>1, <1>3, <1>4

\* Where a sequence has a separator: a slash or a backslash.
SeparatorsIn(q) == {i \in DOMAIN q : q[i] \in {"/", "\\"}}

\* One more character in front moves the separators on, and adds one if it
\* is one.
LEMMA SeparatorsPrepended ==
  ASSUME NEW T, NEW x \in T, NEW q \in Seq(T)
  PROVE  /\ <<x>> \o q \in Seq(T)
         /\ IsFiniteSet(SeparatorsIn(q))
         /\ Cardinality(SeparatorsIn(<<x>> \o q))
              = Cardinality(SeparatorsIn(q)) + (IF x \in {"/", "\\"} THEN 1 ELSE 0)
<1> DEFINE s == <<x>> \o q
           A == SeparatorsIn(q)
           B == {k + 1 : k \in A}
           f == [k \in A |-> k + 1]
<1>1. <<x>> \in Seq(T) /\ Len(<<x>>) = 1 /\ <<x>>[1] = x
  OBVIOUS
<1>2. /\ s \in Seq(T) /\ Len(s) = Len(q) + 1
      /\ s[1] = x /\ \A k \in 1..Len(q) : s[k + 1] = q[k]
  BY <1>1
<1> HIDE DEF s
<1>3. A \subseteq 1..Len(q) /\ IsFiniteSet(A)
  BY FS_Interval, FS_Subset DEF SeparatorsIn
<1>4. f \in Bijection(A, B)
  <2>1. f \in [A -> B]
    OBVIOUS
  <2>2. \A a, b \in A : f[a] = f[b] => a = b
    BY <1>3
  <2>3. \A t \in B : \E a \in A : f[a] = t
    OBVIOUS
  <2> QED
    BY <2>1, <2>2, <2>3, Fun_IsBij
<1>5. IsFiniteSet(B) /\ Cardinality(B) = Cardinality(A)
  <2>1. ExistsBijection(A, B)
    BY <1>4 DEF ExistsBijection
  <2> QED
    BY <1>3, <2>1, FS_Bijection
<1>6. SeparatorsIn(s) = B \cup (IF x \in {"/", "\\"} THEN {1} ELSE {})
  <2>1. DOMAIN s = 1..(Len(q) + 1) /\ DOMAIN q = 1..Len(q)
    BY <1>2
  <2>2. ASSUME NEW k \in SeparatorsIn(s)
        PROVE  k \in B \cup (IF x \in {"/", "\\"} THEN {1} ELSE {})
    <3>1. k \in 1..(Len(q) + 1) /\ s[k] \in {"/", "\\"}
      BY <2>1 DEF SeparatorsIn
    <3>2. CASE k = 1
      BY <1>2, <3>1, <3>2
    <3>3. CASE k # 1
      <4>1. k - 1 \in 1..Len(q) /\ k = (k - 1) + 1
        BY <3>1, <3>3
      <4>2. q[k - 1] = s[k]
        BY <1>2, <4>1
      <4>3. k - 1 \in A
        BY <2>1, <3>1, <4>1, <4>2 DEF SeparatorsIn
      <4> QED
        BY <4>1, <4>3
    <3> QED
      BY <3>2, <3>3
  <2>3. ASSUME NEW k \in A
        PROVE  k + 1 \in SeparatorsIn(s)
    <3>1. k \in 1..Len(q) /\ q[k] \in {"/", "\\"}
      BY <2>1 DEF SeparatorsIn
    <3>2. k + 1 \in 1..(Len(q) + 1) /\ s[k + 1] = q[k]
      BY <1>2, <3>1
    <3> QED
      BY <2>1, <3>1, <3>2 DEF SeparatorsIn
  <2>4. x \in {"/", "\\"} => 1 \in SeparatorsIn(s)
    BY <1>2, <2>1 DEF SeparatorsIn
  <2> HIDE DEF A
  <2> QED
    BY <2>2, <2>3, <2>4
<1>7. 1 \notin B
  BY <1>3
<1>8. Cardinality(SeparatorsIn(s)) = Cardinality(A) + (IF x \in {"/", "\\"} THEN 1 ELSE 0)
  <2>1. CASE x \in {"/", "\\"}
    <3>1. SeparatorsIn(s) = B \cup {1}
      BY <1>6, <2>1
    <3> HIDE DEF A, B
    <3>2. Cardinality(B \cup {1}) = Cardinality(B) + 1
      BY <1>5, <1>7, FS_AddElement
    <3> QED
      BY <1>5, <2>1, <3>1, <3>2
  <2>2. CASE x \notin {"/", "\\"}
    <3>1. SeparatorsIn(s) = B
      BY <1>6, <2>2
    <3>2. Cardinality(A) \in Nat
      BY <1>3, FS_CardinalityType
    <3> HIDE DEF A, B
    <3> QED
      BY <1>5, <2>2, <3>1, <3>2
  <2> QED
    BY <2>1, <2>2
<1> QED
  BY <1>2, <1>3, <1>8 DEF s

\* The separators of p from position i on.
SeparatorsFrom(p, i) == {k \in i..Len(p) : p[k] \in {"/", "\\"}}

\* One separator more, or none.
LEMMA SeparatorsFromStep ==
  ASSUME NEW p, NEW i \in Nat, Len(p) \in Nat, i <= Len(p)
  PROVE  /\ IsFiniteSet(SeparatorsFrom(p, i + 1))
         /\ Cardinality(SeparatorsFrom(p, i))
              = Cardinality(SeparatorsFrom(p, i + 1)) + (IF p[i] \in {"/", "\\"} THEN 1 ELSE 0)
<1> DEFINE B == SeparatorsFrom(p, i + 1)
<1>1. B \subseteq (i + 1)..Len(p)
  BY DEF SeparatorsFrom
<1>2. IsFiniteSet(B) /\ i \notin B
  <2>1. IsFiniteSet((i + 1)..Len(p))
    BY FS_Interval
  <2>2. i \notin B
    BY <1>1
  <2> HIDE DEF B
  <2>3. IsFiniteSet(B)
    BY <1>1, <2>1, FS_Subset
  <2> QED
    BY <2>2, <2>3
<1>3. Cardinality(B) \in Nat
  BY <1>2, FS_CardinalityType
<1>4. CASE p[i] \in {"/", "\\"}
  <2>1. SeparatorsFrom(p, i) = B \cup {i}
    BY <1>4 DEF SeparatorsFrom
  <2> HIDE DEF B
  <2>2. Cardinality(B \cup {i}) = Cardinality(B) + 1
    BY <1>2, FS_AddElement
  <2> QED
    BY <1>2, <1>4, <2>1, <2>2 DEF B
<1>5. CASE p[i] \notin {"/", "\\"}
  <2>1. SeparatorsFrom(p, i) = B
    BY <1>5 DEF SeparatorsFrom
  <2> QED
    BY <1>2, <1>3, <1>5, <2>1
<1> QED
  BY <1>4, <1>5

\* Three elements in a row.
LEMMA ThreeInRow ==
  ASSUME NEW S, NEW s, NEW k \in Int, NEW m \in Int, m = k + 2, \A i \in k..m : s[i] \in S
  PROVE  /\ SubSeq(s, k, m) \in Seq(S) /\ Len(SubSeq(s, k, m)) = 3
         /\ \A i \in 1..3 : SubSeq(s, k, m)[i] = s[k + i - 1]
<1>1. /\ SubSeq(s, k, m) \in Seq(S)
      /\ Len(SubSeq(s, k, m)) = IF k <= m THEN m - k + 1 ELSE 0
      /\ \A i \in 1..(m - k + 1) : SubSeq(s, k, m)[i] = s[k + i - 1]
  BY SubSeqProperties
<1>2. m - k + 1 = 3 /\ k <= m
  OBVIOUS
<1> QED
  BY <1>1, <1>2

\* A path without an encoded separator has no pair that decodes to one.
LEMMA NoSeparatorDecoded ==
  ASSUME NEW S, NEW p \in Seq(S), ~EncodedSeparator(p),
         NEW k \in 1..Len(p), k + 2 <= Len(p), p[k] = "%"
  PROVE  DecodedChar(p[k + 1], p[k + 2]) \notin {"/", "\\"}
<1> DEFINE lower == [i \in DOMAIN p |-> Lower(p[i])]
           h == p[k + 1]
           l == Lower(p[k + 2])
           T == {Lower(c) : c \in S} \cup {"%", "2", "5", "f", "c"}
<1>1. lower \in Seq(T) /\ Len(lower) = Len(p) /\ Len(p) \in Nat
  OBVIOUS
<1>2. lower[k] = "%" /\ lower[k + 1] = Lower(h) /\ lower[k + 2] = l
  BY DEF Lower
<1>3. ASSUME NEW a \in {"2", "5"}, NEW c \in {"f", "c"}, h = a, l = c,
             <<"%", a, c>> \in EncodedSeparators
      PROVE  FALSE
  <2> DEFINE enc == <<"%", a, c>>
             part == SubSeq(lower, k, k + 2)
  <2>1. Lower(a) = a
    BY DEF Lower
  <2>2. lower[k] = "%" /\ lower[k + 1] = a /\ lower[k + 2] = c
    BY <1>2, <1>3, <2>1
  <2> HIDE DEF lower
  <2>3. part \in Seq(T) /\ Len(part) = 3 /\ \A i \in 1..3 : part[i] = lower[k + i - 1]
    <3>1. \A i \in k..(k + 2) : lower[i] \in T
      BY <1>1
    <3>2. PICK m : m = k + 2
      OBVIOUS
    <3>3. k \in Int /\ m \in Int
      BY <3>2
    <3> HIDE DEF T, part
    <3>4. LET sub == SubSeq(lower, k, m) IN
          sub \in Seq(T) /\ Len(sub) = 3 /\ \A i \in 1..3 : sub[i] = lower[k + i - 1]
      BY <3>1, <3>2, <3>3, ThreeInRow
    <3> QED
      BY <3>2, <3>4 DEF part
  <2>4. part[1] = "%" /\ part[2] = a /\ part[3] = c
    BY <2>2, <2>3
  <2>5. enc \in Seq(T) /\ Len(enc) = 3 /\ enc[1] = "%" /\ enc[2] = a /\ enc[3] = c
    OBVIOUS
  <2>6. part = enc
    <3>1. \A i \in 1..3 : part[i] = enc[i]
      <4> HIDE DEF part, enc
      <4>1. \A i \in 1..3 : i = 1 \/ i = 2 \/ i = 3
        OBVIOUS
      <4> QED
        BY <2>4, <2>5, <4>1
    <3> HIDE DEF part, enc, T
    <3> QED
      BY <2>3, <2>5, <3>1, SeqEqual
  <2>7. HasPart(lower, enc)
    <3>1. k \in 1..(Len(lower) - Len(enc) + 1) /\ k + Len(enc) - 1 = k + 2
      BY <1>1, <2>5
    <3> QED
      BY <2>6, <3>1 DEF HasPart
  <2> QED
    BY <1>3, <2>7 DEF EncodedSeparator, lower
<1>4. ~(h = "2" /\ l = "f") /\ ~(h = "5" /\ l = "c")
  <2>1. <<"%", "2", "f">> \in EncodedSeparators /\ <<"%", "5", "c">> \in EncodedSeparators
    BY DEF EncodedSeparators
  <2> QED
    BY <1>3, <2>1
<1> HIDE DEF h, l
<1>5. <<h, l>> # <<"2", "f">> /\ <<h, l>> # <<"5", "c">>
  BY <1>4
<1>6. DecodedChar(h, p[k + 2]) \notin {"/", "\\"}
  BY <1>5 DEF DecodedChar, l
<1> QED
  BY <1>6 DEF h

\* So decoding keeps the number of separators, from the end of the path on.
LEMMA DecodingKeepsSeparators ==
  ASSUME NEW S, NEW p \in Seq(S), ~EncodedSeparator(p),
         NEW f, f = [i \in 1..(Len(p) + 1) |-> DecodedFrom(f, p, i)]
  PROVE  Cardinality(SeparatorsIn(f[1])) = Cardinality(SeparatorsFrom(p, 1))
<1> DEFINE n == Len(p)
           T == S \cup {".", "/", "\\", "%", "x"}
           Kept(i) == /\ f[i] \in Seq(T)
                      /\ Cardinality(SeparatorsIn(f[i])) = Cardinality(SeparatorsFrom(p, i))
           G == {m \in 0..n : \A i \in (n + 1 - m)..(n + 1) : Kept(i)}
<1>0. n \in Nat /\ (\A i \in 1..n : p[i] \in S)
  OBVIOUS
<1>1. \A i \in 1..(n + 1) : f[i] = DecodedFrom(f, p, i)
  BY Zenon
<1>2. Kept(n + 1)
  <2>1. f[n + 1] = <<>>
    BY <1>0, <1>1 DEF DecodedFrom
  <2>2. SeparatorsIn(<<>>) = {} /\ SeparatorsFrom(p, n + 1) = {}
    BY <1>0 DEF SeparatorsIn, SeparatorsFrom
  <2>3. <<>> \in Seq(T)
    OBVIOUS
  <2> HIDE DEF T
  <2> QED
    BY <2>1, <2>2, <2>3
<1>3. ASSUME NEW i \in 1..n, \A j \in (i + 1)..(n + 1) : Kept(j)
      PROVE  Kept(i)
  <2>1. i \in Nat /\ i <= Len(p) /\ i \in 1..(n + 1)
    BY <1>0
  <2> DEFINE pair == /\ p[i] = "%" /\ i + 2 <= Len(p)
                     /\ p[i + 1] \in HexChars /\ p[i + 2] \in HexChars
             x == DecodedChar(p[i + 1], p[i + 2])
             Sep == {"/", "\\"}
  <2>0. f[i] = DecodedFrom(f, p, i) /\ ~(i > Len(p))
    BY <1>1, <2>1
  <2> HIDE DEF Kept
  <2>2. CASE pair
    <3>1. f[i] = <<x>> \o f[i + 3]
      BY <2>0, <2>2, Zenon DEF DecodedFrom
    <3>2. x \notin Sep
      BY <2>1, <2>2, NoSeparatorDecoded
    <3>3. x \in T
      BY DEF DecodedChar
    <3>4. Kept(i + 3)
      <4>1. i + 3 \in (i + 1)..(n + 1)
        BY <2>1, <2>2
      <4> QED
        BY <1>3, <4>1
    <3> HIDE DEF x
    <3>5. f[i] \in Seq(T) /\ Cardinality(SeparatorsIn(f[i])) = Cardinality(SeparatorsIn(f[i + 3]))
      <4>0. f[i + 3] \in Seq(T)
        BY <3>4 DEF Kept
      <4> HIDE DEF T
      <4>1. Cardinality(SeparatorsIn(f[i + 3])) \in Nat
        BY <3>3, <4>0, SeparatorsPrepended, FS_CardinalityType
      <4>2. /\ <<x>> \o f[i + 3] \in Seq(T)
            /\ Cardinality(SeparatorsIn(<<x>> \o f[i + 3]))
                 = Cardinality(SeparatorsIn(f[i + 3])) + (IF x \in Sep THEN 1 ELSE 0)
        BY <3>3, <4>0, SeparatorsPrepended
      <4>3. Cardinality(SeparatorsIn(<<x>> \o f[i + 3])) = Cardinality(SeparatorsIn(f[i + 3])) + 0
        BY <3>2, <4>2, Zenon
      <4>4. Cardinality(SeparatorsIn(<<x>> \o f[i + 3])) = Cardinality(SeparatorsIn(f[i + 3]))
        BY <4>1, <4>3
      <4> QED
        BY <3>1, <4>2, <4>4, Zenon
    <3>6. p[i] \notin Sep /\ p[i + 1] \notin Sep /\ p[i + 2] \notin Sep
      BY <2>2 DEF HexChars
    <3>7. /\ Cardinality(SeparatorsFrom(p, i)) = Cardinality(SeparatorsFrom(p, i + 1)) + 0
          /\ Cardinality(SeparatorsFrom(p, i + 1)) = Cardinality(SeparatorsFrom(p, i + 2)) + 0
          /\ Cardinality(SeparatorsFrom(p, i + 2)) = Cardinality(SeparatorsFrom(p, i + 3)) + 0
          /\ Cardinality(SeparatorsFrom(p, i + 3)) \in Nat
      <4>1. /\ i \in Nat /\ i + 1 \in Nat /\ i + 2 \in Nat /\ Len(p) \in Nat
            /\ i <= Len(p) /\ i + 1 <= Len(p) /\ i + 2 <= Len(p)
            /\ (i + 1) + 1 = i + 2 /\ (i + 2) + 1 = i + 3
        BY <2>1, <2>2
      <4>2. Cardinality(SeparatorsFrom(p, i)) = Cardinality(SeparatorsFrom(p, i + 1)) + 0
        BY <3>6, <4>1, SeparatorsFromStep
      <4>3. Cardinality(SeparatorsFrom(p, i + 1)) = Cardinality(SeparatorsFrom(p, (i + 1) + 1)) + 0
        BY <3>6, <4>1, SeparatorsFromStep
      <4>4. /\ Cardinality(SeparatorsFrom(p, i + 2)) = Cardinality(SeparatorsFrom(p, (i + 2) + 1)) + 0
            /\ Cardinality(SeparatorsFrom(p, (i + 2) + 1)) \in Nat
        BY <3>6, <4>1, SeparatorsFromStep, FS_CardinalityType
      <4> QED
        BY <4>1, <4>2, <4>3, <4>4
    <3> QED
      BY <3>4, <3>5, <3>7 DEF Kept
  <2>3. CASE ~pair
    <3>1. f[i] = <<p[i]>> \o f[i + 1]
      BY <2>0, <2>3, Zenon DEF DecodedFrom
    <3>2. f[i + 1] \in Seq(T) /\ p[i] \in T
          /\ Cardinality(SeparatorsIn(f[i + 1])) = Cardinality(SeparatorsFrom(p, i + 1))
      <4>1. i + 1 \in (i + 1)..(n + 1)
        BY <2>1
      <4>2. Kept(i + 1)
        BY <1>3, <4>1
      <4> QED
        BY <1>0, <4>2 DEF Kept
    <3> HIDE DEF T
    <3>3. /\ <<p[i]>> \o f[i + 1] \in Seq(T)
          /\ Cardinality(SeparatorsIn(<<p[i]>> \o f[i + 1]))
               = Cardinality(SeparatorsIn(f[i + 1])) + (IF p[i] \in Sep THEN 1 ELSE 0)
      BY <3>2, SeparatorsPrepended
    <3>4. Cardinality(SeparatorsFrom(p, i))
            = Cardinality(SeparatorsFrom(p, i + 1)) + (IF p[i] \in Sep THEN 1 ELSE 0)
      BY <1>0, <2>1, SeparatorsFromStep
    <3> QED
      BY <3>1, <3>2, <3>3, <3>4 DEF Kept
  <2> QED
    BY <2>2, <2>3
<1> HIDE DEF Kept
<1>4. 0 \in G
  <2>1. \A i \in (n + 1 - 0)..(n + 1) : i = n + 1
    BY <1>0
  <2> QED
    BY <1>0, <1>2, <2>1
<1>5. ASSUME NEW m \in 1..n, m - 1 \in G
      PROVE  m \in G
  <2>1. \A j \in (n + 1 - (m - 1))..(n + 1) : Kept(j)
    BY <1>5
  <2> DEFINE i == n + 1 - m
  <2>2. i \in 1..n /\ i + 1 = n + 1 - (m - 1)
    BY <1>0
  <2>3. Kept(i)
    BY <1>3, <2>1, <2>2
  <2>4. \A j \in (n + 1 - m)..(n + 1) : j = i \/ j \in (n + 1 - (m - 1))..(n + 1)
    BY <1>0
  <2> QED
    BY <2>1, <2>3, <2>4
<1> HIDE DEF G
<1>6. \A m \in 0..n : m \in G
  BY <1>0, <1>4, <1>5, InductionUpTo
<1>7. n \in G
  BY <1>0, <1>6
<1>8. Kept(1)
  BY <1>0, <1>7 DEF G
<1> QED
  BY <1>8 DEF Kept

\* The safety of paths in local_proxy.rs, for every path, whatever its
\* characters and length: a path that path_is_unsafe lets through has, once
\* it is decoded, the segments it had before, and none is a dot segment.
THEOREM SafePathAlwaysPlain ==
  ASSUME NEW S, NEW p \in Seq(S)
  PROVE  SafePathIsPlain(p)
<1> DEFINE d == PercentDecodePath(p)
           Slashes(q) == Cardinality({i \in DOMAIN q : q[i] \in {"/", "\\"}})
<1> SUFFICES ASSUME ~PathIsUnsafe(p)
             PROVE  /\ Slashes(d) = Slashes(p)
                    /\ \A s \in Segments(d) : s \notin {<<".">>, <<".", ".">>}
  BY Zenon DEF SafePathIsPlain
<1>1. Slashes(d) = Slashes(p)
  <2>1. PICK f : /\ f = [i \in 1..(Len(p) + 1) |-> DecodedFrom(f, p, i)]
                 /\ d = f[1]
    BY DecodingIs
  <2>2. ~EncodedSeparator(p)
    BY DEF PathIsUnsafe
  <2>3. Cardinality(SeparatorsIn(f[1])) = Cardinality(SeparatorsFrom(p, 1))
    BY <2>1, <2>2, DecodingKeepsSeparators
  <2>4. SeparatorsFrom(p, 1) = {i \in DOMAIN p : p[i] \in {"/", "\\"}}
    BY DEF SeparatorsFrom
  <2>5. SeparatorsIn(d) = {i \in DOMAIN d : d[i] \in {"/", "\\"}}
    BY DEF SeparatorsIn
  <2>6. Cardinality(SeparatorsIn(d)) = Cardinality(SeparatorsFrom(p, 1))
    BY <2>1, <2>3
  <2> HIDE DEF d
  <2> QED
    BY <2>4, <2>5, <2>6
<1>2. Segments(d) \cap {<<".">>, <<".", ".">>} = {}
  BY DEF PathIsUnsafe, ContainsDotSegment
<1> QED
  BY <1>1, <1>2

\* RequestsBounded, whatever the inputs: every request that the local proxy
\* forwards is safe to decode and within the budget.
THEOREM RequestsAlwaysBounded == Spec => []RequestsBounded
<1> USE InputsAssumption
<1>1. ASSUME Init
      PROVE  RequestsBounded
  <2>1. ASSUME input.kind = "path"
        PROVE  SafePathIsPlain(input.path)
    <3>1. PICK p \in UpTo(MaxPath, PathChars) : input = [kind |-> "path", path |-> p]
      BY <1>1, <2>1, KindOfInput DEF PathInit
    <3>2. PICK k \in 0..MaxPath : p \in [1..k -> PathChars]
      BY <3>1 DEF UpTo
    <3>3. p \in Seq(PathChars)
      BY <3>2
    <3> QED
      BY <3>1, <3>3, SafePathAlwaysPlain
  <2>2. ASSUME input.kind = "body"
        PROVE  /\ BudgetHoldsFor(input.body, input.cap)
               /\ ModestRequestUnchanged(input.body, input.cap)
    <3>1. PICK b \in Bodies(Counts, Values), c \in Caps :
            input = [kind |-> "body", body |-> b, cap |-> c]
      BY <1>1, <2>2, KindOfInput DEF BodyInit
    <3>2. Counts \in SUBSET Int /\ Values \in SUBSET Int /\ c \in Nat
      BY DEF InputsOK
    <3>3. BudgetHoldsFor(b, c) /\ ModestRequestUnchanged(b, c)
      BY <3>2, BudgetAlwaysHolds
    <3> QED
      BY <3>1, <3>3
  <2> QED
    BY <2>1, <2>2 DEF RequestsBounded
<1>2. ASSUME RequestsBounded, [Next]_input
      PROVE  RequestsBounded'
  <2>1. input' = input \/ input'.kind = "date"
    BY <1>2, InputStep
  <2> QED
    BY <1>2, <2>1 DEF RequestsBounded
<1> QED
  BY <1>1, <1>2, PTL DEF Spec
-----------------------------------------------------------------------------
(* Which provider a chat goes to.                                          *)

\* What providers answer, whatever their addresses.
Listing(A) == [address : A, reputation : Nat, load : Nat, max : Nat, active : BOOLEAN]

\* A score is a number.
LEMMA ScoreIsNat ==
  ASSUME DispatchOK, NEW A, NEW p \in Listing(A)
  PROVE  Score(p) \in Nat /\ p.load \in Nat
<1>1. p.reputation \in Nat /\ p.load \in Nat /\ p.max \in Nat
  BY DEF Listing
<1>2. Capacity(p) \in Nat
  BY <1>1 DEF Capacity
<1> DEFINE s == p.reputation * Capacity(p)
<1>3. s \in Nat
  BY <1>1, <1>2
<1>4. Score(p) = s \div ScoreDivisor
  BY DEF Score
<1> HIDE DEF s
<1> QED
  BY <1>1, <1>3, <1>4 DEF DispatchOK

\* Being better is an order, and being no better one without gaps.
LEMMA BetterIsOrder ==
  ASSUME DispatchOK, NEW A, NEW p \in Listing(A), NEW q \in Listing(A), NEW r \in Listing(A)
  PROVE  /\ ~Better(p, q) /\ ~Better(q, r) => ~Better(p, r)
         /\ Better(p, q) => ~Better(q, p)
<1>1. /\ Score(p) \in Nat /\ Score(q) \in Nat /\ Score(r) \in Nat
      /\ p.load \in Nat /\ q.load \in Nat /\ r.load \in Nat
  BY ScoreIsNat
<1> QED
  BY <1>1 DEF Better

\* i is what max_by_key returns among the positions E.
IsBest(answers, E, i) ==
  /\ i \in E
  /\ \A j \in E : /\ ~Better(answers[j], answers[i])
                  /\ j > i => Better(answers[i], answers[j])

\* There always is one: the best so far, or the next position.
LEMMA BestExists ==
  ASSUME DispatchOK, NEW A, NEW answers \in Seq(Listing(A)),
         NEW E \in SUBSET (DOMAIN answers), E # {}
  PROVE  \E i \in E : IsBest(answers, E, i)
<1> DEFINE n == Len(answers)
           G == {m \in 0..n : E \cap 1..m # {} => \E i : IsBest(answers, E \cap 1..m, i)}
<1>0. n \in Nat /\ E \subseteq 1..n /\ (\A i \in E : answers[i] \in Listing(A))
  OBVIOUS
<1>1. 0 \in G
  OBVIOUS
<1>2. ASSUME NEW m \in 1..n, m - 1 \in G
      PROVE  m \in G
  <2> DEFINE Before == E \cap 1..(m - 1)
             Now == E \cap 1..m
  <2> m \in 0..n
    BY <1>0
  <2> SUFFICES ASSUME Now # {}
               PROVE  \E i : IsBest(answers, Now, i)
    BY Zenon
  <2>0. Before # {} => \E i : IsBest(answers, Before, i)
    BY <1>2
  <2>1. CASE m \notin E
    <3>1. Now = Before
      BY <2>1
    <3> QED
      BY <2>0, <3>1
  <2>2. CASE m \in E /\ Before = {}
    <3>1. Now = {m}
      BY <2>2
    <3>2. ~Better(answers[m], answers[m]) /\ ~(m > m)
      BY <1>0, <2>2, BetterIsOrder
    <3>3. IsBest(answers, Now, m)
      BY <3>1, <3>2 DEF IsBest
    <3> QED
      BY <3>3
  <2>3. CASE m \in E /\ Before # {}
    <3>1. PICK b : IsBest(answers, Before, b)
      BY <1>2, <2>3
    <3>2. b \in E /\ b \in 1..(m - 1) /\ b < m
      BY <3>1 DEF IsBest
    <3>3. Now = Before \cup {m} /\ \A j \in Before : j < m
      BY <1>0, <2>3
    <3>4. CASE Better(answers[b], answers[m])
      <4>1. ~Better(answers[m], answers[b])
        BY <1>0, <2>3, <3>2, <3>4, BetterIsOrder
      <4>2. IsBest(answers, Now, b)
        BY <3>1, <3>3, <3>4, <4>1 DEF IsBest
      <4> QED
        BY <4>2
    <3>5. CASE ~Better(answers[b], answers[m])
      <4>1. ASSUME NEW j \in Before
            PROVE  ~Better(answers[j], answers[m]) /\ ~(j > m)
        <5>1. ~Better(answers[j], answers[b])
          BY <3>1 DEF IsBest
        <5>2. j \in E /\ j < m /\ j \in Int /\ m \in Int
          BY <1>0, <3>3
        <5> QED
          BY <1>0, <2>3, <3>2, <3>5, <5>1, <5>2, BetterIsOrder
      <4>2. ~Better(answers[m], answers[m]) /\ ~(m > m)
        BY <1>0, <2>3, BetterIsOrder
      <4> HIDE DEF Before, Now
      <4>3. IsBest(answers, Now, m)
        BY <3>3, <4>1, <4>2 DEF IsBest
      <4> QED
        BY <4>3 DEF Now
    <3> QED
      BY <3>4, <3>5
  <2> QED
    BY <2>1, <2>2, <2>3
<1> HIDE DEF G
<1>3. \A m \in 0..n : m \in G
  BY <1>0, <1>1, <1>2, InductionUpTo
<1>4. n \in G /\ E \cap 1..n = E
  BY <1>0, <1>3
<1>5. \E i : IsBest(answers, E, i)
  BY <1>4 DEF G
<1> QED
  BY <1>5 DEF IsBest

\* So select_provider returns one, if there is anybody to choose from.
LEMMA SelectProviderIs ==
  ASSUME DispatchOK, NEW A, NEW answers \in Seq(Listing(A)),
         NEW left \in SUBSET (DOMAIN answers), Eligible(answers, left) # {}
  PROVE  IsBest(answers, Eligible(answers, left), SelectProvider(answers, left))
<1> DEFINE E == Eligible(answers, left)
<1>1. E \in SUBSET (DOMAIN answers)
  BY DEF Eligible
<1>2. SelectProvider(answers, left)
        = CHOOSE i \in E : \A j \in E : /\ ~Better(answers[j], answers[i])
                                        /\ (j > i => Better(answers[i], answers[j]))
  BY DEF SelectProvider
<1> HIDE DEF E
<1>3. \E i \in E : IsBest(answers, E, i)
  BY <1>1, BestExists DEF E
<1> QED
  BY <1>2, <1>3 DEF IsBest, E

\* Who could have been asked: the active providers with capacity.
AbleIn(answers) ==
  {a \in {answers[i] : i \in DOMAIN answers} : a.active /\ Capacity(a) > 0}

\* What k turns of the failover loop leave: only able providers were tried,
\* no address twice, the better ones first; whoever is left has another
\* address and is no better than those; whoever is not was tried himself or
\* gave way to a better entry of his address; and a turn was wasted only if
\* nobody was left.
IsRun(answers, t, k) ==
  /\ t.left \subseteq ListProviders(answers)
  /\ t.done \in Seq(AbleIn(answers)) /\ Len(t.done) <= k
  /\ \A i, j \in 1..Len(t.done) : i < j => /\ t.done[i].address # t.done[j].address
                                           /\ ~Better(t.done[j], t.done[i])
  /\ \A i \in Eligible(answers, ListProviders(answers)) :
       /\ i \in t.left => \A j \in 1..Len(t.done) : /\ t.done[j].address # answers[i].address
                                                    /\ ~Better(answers[i], t.done[j])
       /\ i \notin t.left => \E j \in 1..Len(t.done) : /\ t.done[j].address = answers[i].address
                                                       /\ ~Better(answers[i], t.done[j])
  /\ Len(t.done) = k \/ Eligible(answers, t.left) = {}

\* Before the first turn nothing has been tried.
LEMMA RunStart ==
  ASSUME NEW answers
  PROVE  IsRun(answers, [left |-> ListProviders(answers), done |-> <<>>], 0)
BY DEF IsRun, Eligible

\* A turn of the loop.
LEMMA RunStep ==
  ASSUME DispatchOK, NEW A, NEW answers \in Seq(Listing(A)), NEW k \in Nat,
         NEW t, IsRun(answers, t, k)
  PROVE  IsRun(answers, Attempt(answers, t), k + 1)
<1> DEFINE listed == ListProviders(answers)
           able == Eligible(answers, listed)
           E == Eligible(answers, t.left)
           n == Len(t.done)
           best == SelectProvider(answers, t.left)
           b == answers[best]
           left == Remaining(answers, t.left, best)
           done == Append(t.done, b)
           u == Attempt(answers, t)
<1>1. /\ t.left \subseteq listed
      /\ t.done \in Seq(AbleIn(answers)) /\ n \in Nat /\ n <= k
      /\ \A i, j \in 1..n : i < j => /\ t.done[i].address # t.done[j].address
                                     /\ ~Better(t.done[j], t.done[i])
      /\ \A i \in able :
           /\ i \in t.left => \A j \in 1..n : /\ t.done[j].address # answers[i].address
                                              /\ ~Better(answers[i], t.done[j])
           /\ i \notin t.left => \E j \in 1..n : /\ t.done[j].address = answers[i].address
                                                 /\ ~Better(answers[i], t.done[j])
      /\ n = k \/ E = {}
  BY DEF IsRun
<1>2. listed \subseteq DOMAIN answers
  BY DEF ListProviders
<1>3. CASE E = {}
  <2>1. u = t
    BY <1>3 DEF Attempt
  <2> QED
    BY <1>1, <1>3, <2>1 DEF IsRun
<1>4. CASE E # {}
  <2>1. u = [left |-> left, done |-> done]
    BY <1>4 DEF Attempt
  <2>2. IsBest(answers, E, best)
    BY <1>1, <1>2, <1>4, SelectProviderIs
  <2>3. best \in E /\ E \subseteq able /\ E \subseteq t.left
    BY <1>1, <2>2 DEF IsBest, Eligible
  <2>4. b \in AbleIn(answers) /\ best \in t.left
    BY <1>1, <1>2, <2>3 DEF AbleIn, Eligible, ListProviders
  <2>5. n = k
    BY <1>1, <1>4
  <2>6. \A j \in 1..n : t.done[j].address # b.address /\ ~Better(b, t.done[j])
    <3>1. best \in able /\ best \in t.left
      BY <2>3
    <3> HIDE DEF best, able
    <3> QED
      BY <1>1, <3>1
  <2> HIDE DEF b, best, listed, E, able
  <2>7. /\ done \in Seq(AbleIn(answers)) /\ Len(done) = n + 1
        /\ done[n + 1] = b /\ \A j \in 1..n : done[j] = t.done[j]
    BY <1>1, <2>4
  <2>8. left = {j \in t.left : answers[j].address # b.address}
    BY DEF Remaining, b
  <2> HIDE DEF done, left
  <2>9. ASSUME NEW i \in 1..(n + 1), NEW j \in 1..(n + 1), i < j
        PROVE  done[i].address # done[j].address /\ ~Better(done[j], done[i])
    <3>0. n \in Nat
      BY <1>1
    <3> HIDE DEF n
    <3>1. i \in 1..n /\ (j \in 1..n \/ j = n + 1)
      BY <2>9, <3>0
    <3>2. done[i] = t.done[i]
      BY <2>7, <3>1
    <3>3. CASE j = n + 1
      BY <2>6, <2>7, <3>1, <3>2, <3>3
    <3>4. CASE j \in 1..n
      <4>1. done[j] = t.done[j]
        BY <2>7, <3>4
      <4> QED
        BY <1>1, <2>9, <3>1, <3>2, <3>4, <4>1
    <3> QED
      BY <3>1, <3>3, <3>4
  <2>10. ASSUME NEW i \in able
         PROVE  /\ i \in left => \A j \in 1..(n + 1) : /\ done[j].address # answers[i].address
                                                      /\ ~Better(answers[i], done[j])
                /\ i \notin left => \E j \in 1..(n + 1) : /\ done[j].address = answers[i].address
                                                         /\ ~Better(answers[i], done[j])
    <3>0. n + 1 \in 1..(n + 1) /\ \A j \in 1..(n + 1) : j \in 1..n \/ j = n + 1
      BY <1>1
    <3>1. CASE i \notin t.left
      <4>1. PICK j \in 1..n : /\ t.done[j].address = answers[i].address
                              /\ ~Better(answers[i], t.done[j])
        BY <1>1, <3>1
      <4>2. j \in 1..(n + 1) /\ done[j] = t.done[j]
        BY <1>1, <2>7
      <4>3. i \notin left
        BY <2>8, <3>1
      <4> QED
        BY <4>1, <4>2, <4>3
    <3>2. CASE i \in t.left
      <4>1. i \in E
        BY <2>10, <3>2 DEF E, able, Eligible
      <4>2. ~Better(answers[i], b)
        BY <2>2, <4>1 DEF IsBest, b
      <4>3. \A j \in 1..n : /\ t.done[j].address # answers[i].address
                            /\ ~Better(answers[i], t.done[j])
        BY <1>1, <3>2
      <4>4. CASE answers[i].address = b.address
        BY <2>7, <2>8, <3>0, <4>2, <4>4
      <4>5. CASE answers[i].address # b.address
        BY <2>7, <2>8, <3>0, <3>2, <4>2, <4>3, <4>5
      <4> QED
        BY <4>4, <4>5
    <3> QED
      BY <3>1, <3>2
  <2>11. /\ u.left = left /\ u.done = done /\ left \subseteq listed
         /\ Len(done) = k + 1
    BY <1>1, <2>1, <2>5, <2>7, <2>8
  <2>12. Len(u.done) = n + 1 /\ k + 1 = n + 1
    BY <2>5, <2>11
  <2>13. u.done \in Seq(AbleIn(answers)) /\ u.left \subseteq listed
    BY <2>7, <2>11
  <2>14. \A i, j \in 1..Len(u.done) : i < j => /\ u.done[i].address # u.done[j].address
                                               /\ ~Better(u.done[j], u.done[i])
    BY <2>9, <2>11, <2>12
  <2>15. \A i \in able :
           /\ i \in u.left => \A j \in 1..Len(u.done) : /\ u.done[j].address # answers[i].address
                                                        /\ ~Better(answers[i], u.done[j])
           /\ i \notin u.left => \E j \in 1..Len(u.done) : /\ u.done[j].address = answers[i].address
                                                           /\ ~Better(answers[i], u.done[j])
    BY <2>10, <2>11, <2>12
  <2>16. Len(u.done) = k + 1 /\ Len(u.done) <= k + 1
    BY <2>11
  <2> HIDE DEF u
  <2>17. IsRun(answers, u, k + 1)
    BY <2>13, <2>14, <2>15, <2>16 DEF IsRun, listed, able
  <2> QED
    BY <2>17 DEF u
<1> QED
  BY <1>3, <1>4

\* f holds the states of the loop's first m turns.
AreTurns(answers, start, m, f) ==
  f = [k \in 0..m |-> IF k = 0 THEN start ELSE Attempt(answers, f[k - 1])]

\* The loop's turns exist, which is what makes its recursive definition
\* meaningful.
LEMMA TurnsExist ==
  ASSUME NEW answers, NEW start, NEW m \in Nat
  PROVE  \E f : AreTurns(answers, start, m, f)
<1> DEFINE Turn(f, k) == IF k = 0 THEN start ELSE Attempt(answers, f[k - 1])
           G == {n \in 0..m : \E f : f = [k \in 0..n |-> Turn(f, k)]}
<1>1. 0 \in G
  <2> DEFINE f == [k \in 0..0 |-> start]
  <2>1. f = [k \in 0..0 |-> Turn(f, k)]
    OBVIOUS
  <2>2. 0 \in 0..m
    OBVIOUS
  <2> HIDE DEF f, Turn
  <2> QED
    BY <2>1, <2>2
<1>2. ASSUME NEW n \in 1..m, n - 1 \in G
      PROVE  n \in G
  <2>1. PICK f : f = [k \in 0..(n - 1) |-> Turn(f, k)]
    BY <1>2
  <2> DEFINE g == [k \in 0..n |-> IF k = n THEN Attempt(answers, f[n - 1]) ELSE f[k]]
  <2>2. ASSUME NEW k \in 0..n
        PROVE  g[k] = Turn(g, k)
    <3>1. CASE k = 0
      <4>1. 0 \in 0..(n - 1) /\ f[0] = start
        BY <2>1
      <4> QED
        BY <3>1, <4>1
    <3>2. CASE k = n
      <4>1. n - 1 \in 0..n /\ n - 1 # n /\ n # 0 /\ g[n - 1] = f[n - 1]
        OBVIOUS
      <4> QED
        BY <3>2, <4>1
    <3>3. CASE k # 0 /\ k # n
      <4>1. k \in 0..(n - 1) /\ k - 1 \in 0..n /\ k - 1 # n
        BY <3>3
      <4>2. g[k - 1] = f[k - 1] /\ g[k] = f[k]
        BY <3>3, <4>1
      <4>3. f[k] = Attempt(answers, f[k - 1])
        BY <2>1, <3>3, <4>1
      <4> QED
        BY <3>3, <4>2, <4>3
    <3> QED
      BY <3>1, <3>2, <3>3
  <2>3. g = [k \in 0..n |-> g[k]]
    OBVIOUS
  <2> HIDE DEF g
  <2>4. g = [k \in 0..n |-> Turn(g, k)]
    BY <2>2, <2>3
  <2> QED
    BY <2>4
<1> HIDE DEF G
<1>3. \A n \in 0..m : n \in G
  BY <1>1, <1>2, InductionUpTo
<1>4. m \in G
  BY <1>3
<1> QED
  BY <1>4 DEF G, AreTurns

\* So what was tried when the loop ends is a run of all its turns.
LEMMA AttemptsIsRun ==
  ASSUME DispatchOK, NEW A, NEW answers \in Seq(Listing(A))
  PROVE  \E t : /\ IsRun(answers, t, MaxAttempts)
                /\ Attempts(answers, ListProviders(answers)) = t.done
<1> DEFINE start == [left |-> ListProviders(answers), done |-> <<>>]
           Eq(f) == f = [k \in 0..MaxAttempts |->
                          IF k = 0 THEN start ELSE Attempt(answers, f[k - 1])]
           f == CHOOSE f : Eq(f)
           G == {k \in 0..MaxAttempts : IsRun(answers, f[k], k)}
<1>0. MaxAttempts \in Nat
  BY DEF DispatchOK
<1>1. Attempts(answers, ListProviders(answers)) = f[MaxAttempts].done
  BY DEF Attempts
<1>2. IsRun(answers, start, 0)
  BY RunStart
<1> HIDE DEF start
<1>3. Eq(f)
  <2>1. \E g : Eq(g)
    <3>1. PICK g : AreTurns(answers, start, MaxAttempts, g)
      BY <1>0, TurnsExist
    <3>2. Eq(g)
      BY <3>1 DEF AreTurns
    <3> HIDE DEF Eq
    <3> QED
      BY <3>2
  <2> HIDE DEF Eq
  <2> QED
    BY <2>1
<1> HIDE DEF f
<1>4. 0 \in G
  BY <1>0, <1>2, <1>3
<1>5. ASSUME NEW k \in 1..MaxAttempts, k - 1 \in G
      PROVE  k \in G
  <2>1. k \in 0..MaxAttempts /\ k - 1 \in Nat /\ (k - 1) + 1 = k /\ k # 0
    BY <1>0
  <2>2. f[k] = Attempt(answers, f[k - 1])
    BY <1>3, <2>1
  <2>3. IsRun(answers, f[k - 1], k - 1)
    BY <1>5
  <2>4. IsRun(answers, Attempt(answers, f[k - 1]), (k - 1) + 1)
    BY <2>1, <2>3, RunStep
  <2> QED
    BY <2>1, <2>2, <2>4
<1> HIDE DEF G
<1>6. \A k \in 0..MaxAttempts : k \in G
  BY <1>0, <1>4, <1>5, InductionUpTo
<1>7. IsRun(answers, f[MaxAttempts], MaxAttempts)
  BY <1>0, <1>6 DEF G
<1> QED
  BY <1>1, <1>7

\* Failover in chat.rs, for every list of providers, every set of pools and
\* every number of attempts: only active providers with capacity are tried,
\* the best first, no address twice, and one that is not tried lost to as
\* many better ones as there are attempts, or to a pool.
THEOREM FailoverAlwaysBestFirst ==
  ASSUME DispatchOK, NEW A, NEW answers \in Seq(Listing(A)), NEW pools
  PROVE  FailoverIsBestFirst(answers, pools)
<1> DEFINE tried == RunDispatch(answers, pools)
           Able == {a \in {answers[i] : i \in DOMAIN answers} : a.active /\ Capacity(a) > 0}
           Outbid == \E pool \in pools : \A a \in Able : pool > ScoreProvider(a)
           listed == ListProviders(answers)
<1>1. CASE PoolWins(answers, listed, pools)
  <2>1. tried = <<>>
    BY <1>1 DEF RunDispatch
  <2>2. Outbid
    <3>1. PICK pool \in pools : \A i \in listed : pool > ScoreProvider(answers[i])
      BY <1>1 DEF PoolWins
    <3>2. \A a \in Able : \E i \in listed : a = answers[i]
      BY DEF ListProviders
    <3> HIDE DEF Able, listed
    <3> QED
      BY <3>1, <3>2
  <2> HIDE DEF tried
  <2>3. DOMAIN tried = {}
    BY <2>1
  <2> QED
    BY <2>1, <2>2, <2>3 DEF FailoverIsBestFirst, tried
<1>2. CASE ~PoolWins(answers, listed, pools)
  <2>1. PICK t : IsRun(answers, t, MaxAttempts) /\ Attempts(answers, listed) = t.done
    BY AttemptsIsRun
  <2>2. tried = t.done
    BY <1>2, <2>1 DEF RunDispatch
  <2>3. Able = AbleIn(answers)
    BY DEF AbleIn
  <2>4. /\ tried \in Seq(Able) /\ Len(tried) \in Nat /\ DOMAIN tried = 1..Len(tried)
        /\ \A i, j \in DOMAIN tried : i < j => /\ tried[i].address # tried[j].address
                                               /\ ~Better(tried[j], tried[i])
    <3> HIDE DEF tried, Able
    <3>1. tried \in Seq(Able)
      BY <2>1, <2>2, <2>3 DEF IsRun
    <3>2. Len(tried) \in Nat /\ DOMAIN tried = 1..Len(tried)
      BY <3>1
    <3> QED
      BY <2>1, <2>2, <3>1, <3>2 DEF IsRun
  <2>5. ASSUME NEW a \in Able
        PROVE  \/ \E k \in DOMAIN tried : tried[k].address = a.address
               \/ /\ Len(tried) = MaxAttempts
                  /\ \A k \in DOMAIN tried : ~Better(a, tried[k])
    <3>1. PICK i \in Eligible(answers, listed) : a = answers[i]
      BY DEF Eligible, ListProviders
    <3>2. CASE i \notin t.left
      BY <2>1, <2>2, <2>4, <3>1, <3>2 DEF IsRun
    <3>3. CASE i \in t.left
      <4>1. Eligible(answers, t.left) # {}
        BY <3>1, <3>3 DEF Eligible
      <4> QED
        BY <2>1, <2>2, <2>4, <3>1, <3>3, <4>1 DEF IsRun
    <3> QED
      BY <3>2, <3>3
  <2> HIDE DEF tried, Able
  <2>6. \A k \in DOMAIN tried : tried[k] \in Able
    BY <2>4
  <2> QED
    BY <2>4, <2>5, <2>6 DEF FailoverIsBestFirst, tried, Able
<1> QED
  BY <1>1, <1>2

\* Who serves in chat.rs, for every list of providers, every set of results
\* and every number of attempts.
THEOREM BestGoodResultAlwaysServes ==
  ASSUME DispatchOK, NEW A, NEW answers \in Seq(Listing(A)),
         NEW results \in [A -> Results], NEW required \in BOOLEAN
  PROVE  BestGoodResultServes(answers, results, required)
<1> DEFINE served == ServedBy(answers, {}, results, required)
           Able == {a \in {answers[i] : i \in DOMAIN answers} : a.active /\ Capacity(a) > 0}
           Acceptable(a) == ResultAcceptable(results[a.address], required)
           Bad == {a \in Able : ~Acceptable(a)}
           listed == ListProviders(answers)
           tried == RunDispatch(answers, {})
           Good == {k \in DOMAIN tried : Acceptable(tried[k])}
<1>1. PICK t : IsRun(answers, t, MaxAttempts) /\ Attempts(answers, listed) = t.done
  BY AttemptsIsRun
<1>2. tried = t.done
  BY <1>1 DEF RunDispatch, PoolWins
<1>3. Able = AbleIn(answers)
  BY DEF AbleIn
<1>4. served = IF Good = {} THEN <<>>
               ELSE <<tried[CHOOSE k \in Good : \A j \in Good : k <= j].address>>
  BY DEF ServedBy
<1>5. Able \subseteq Listing(A)
  OBVIOUS
<1> HIDE DEF served, tried, Able, Acceptable
<1>6. /\ tried \in Seq(Able) /\ Len(tried) \in Nat /\ DOMAIN tried = 1..Len(tried)
      /\ \A i \in DOMAIN tried : tried[i] \in Able
  <2>1. tried \in Seq(Able)
    BY <1>1, <1>2, <1>3 DEF IsRun
  <2> QED
    BY <2>1
<1>7. \A i, j \in DOMAIN tried : i < j => /\ tried[i].address # tried[j].address
                                          /\ ~Better(tried[j], tried[i])
  BY <1>1, <1>2, <1>6 DEF IsRun
<1>8. ASSUME NEW a \in Able
      PROVE  \/ \E k \in DOMAIN tried : tried[k].address = a.address /\ ~Better(a, tried[k])
             \/ /\ Len(tried) = MaxAttempts
                /\ \A k \in DOMAIN tried : ~Better(a, tried[k])
  <2>1. PICK i \in Eligible(answers, listed) : a = answers[i]
    BY DEF Able, Eligible, ListProviders
  <2>2. CASE i \notin t.left
    BY <1>1, <1>2, <1>6, <2>1, <2>2 DEF IsRun
  <2>3. CASE i \in t.left
    <3>1. Eligible(answers, t.left) # {}
      BY <2>1, <2>3 DEF Eligible
    <3> QED
      BY <1>1, <1>2, <1>6, <2>1, <2>3, <3>1 DEF IsRun
  <2> QED
    BY <2>2, <2>3
<1>9. \A a, b \in Able : a.address = b.address => (Acceptable(a) <=> Acceptable(b))
  BY DEF Acceptable
<1>10. CASE Good # {}
  <2> DEFINE k == CHOOSE g \in Good : \A j \in Good : g <= j
             a == tried[k]
  <2>1. Good \in SUBSET Nat
    BY <1>6
  <2>2. k \in Good /\ \A j \in Good : k <= j
    <3>1. \E g \in Good : \A j \in Good : g <= j
      <4> HIDE DEF Good
      <4> QED
        BY <1>10, <2>1, LeastElement
    <3> HIDE DEF Good
    <3> QED
      BY <3>1
  <2>3. served = <<a.address>> /\ served # <<>> /\ served[1] = a.address
    BY <1>4, <1>10
  <2> HIDE DEF k
  <2>4. k \in DOMAIN tried /\ a \in Able /\ Acceptable(a)
    BY <1>6, <2>2
  <2>5. results[a.address] \in (IF required THEN {"signed"} ELSE {"signed", "unsigned"})
    BY <2>4 DEF Acceptable, ResultAcceptable
  <2>6. ASSUME NEW other \in Able \ Bad
        PROVE  ~Better(other, a)
    <3>1. CASE \E j \in DOMAIN tried : /\ tried[j].address = other.address
                                       /\ ~Better(other, tried[j])
      <4>1. PICK j \in DOMAIN tried : /\ tried[j].address = other.address
                                      /\ ~Better(other, tried[j])
        BY <3>1
      <4>2. j \in Good /\ k <= j
        BY <1>6, <1>9, <2>2, <2>6, <4>1
      <4>3. CASE k = j
        BY <4>1, <4>3
      <4>4. CASE k # j
        <5>1. k < j
          BY <2>1, <2>2, <4>2, <4>4
        <5>2. ~Better(tried[j], a)
          BY <1>7, <2>4, <5>1
        <5>3. other \in Listing(A) /\ tried[j] \in Listing(A) /\ a \in Listing(A)
          BY <1>5, <1>6, <2>4
        <5> QED
          BY <4>1, <5>2, <5>3, BetterIsOrder
      <4> QED
        BY <4>3, <4>4
    <3>2. CASE \A j \in DOMAIN tried : ~Better(other, tried[j])
      BY <2>4, <3>2
    <3> QED
      BY <1>8, <3>1, <3>2
  <2> HIDE DEF a, Bad
  <2>7. \E x \in Able : x.address = served[1] /\ \A other \in Able \ Bad : ~Better(other, x)
    BY <2>3, <2>4, <2>6
  <2> QED
    BY <2>3, <2>5, <2>7, Zenon DEF BestGoodResultServes, served, Able, Bad, Acceptable
<1>11. CASE Good = {}
  <2> DEFINE Bads == {a.address : a \in Bad}
  <2>1. served = <<>>
    BY <1>4, <1>11
  <2>2. ASSUME Bad # Able
        PROVE  Cardinality(Bads) >= MaxAttempts
    <3>1. PICK a \in Able : Acceptable(a)
      BY <2>2
    <3>2. Len(tried) = MaxAttempts
      <4>1. ASSUME NEW k \in DOMAIN tried
            PROVE  tried[k].address # a.address
        <5>1. tried[k] \in Able /\ ~Acceptable(tried[k])
          BY <1>6, <1>11
        <5>2. QED
          BY <1>9, <3>1, <5>1
      <4>2. QED
        BY <1>8, <3>1, <4>1
    <3> DEFINE M == 1..MaxAttempts
               f == [i \in M |-> tried[i].address]
               Tried == {f[i] : i \in M}
    <3>3. f \in Bijection(M, Tried)
      <4>1. f \in [M -> Tried] /\ \A x \in Tried : \E i \in M : f[i] = x
        OBVIOUS
      <4>2. ASSUME NEW i \in M, NEW j \in M, f[i] = f[j]
            PROVE  i = j
        <5>1. i \in DOMAIN tried /\ j \in DOMAIN tried /\ i \in Int /\ j \in Int
          BY <1>6, <3>2
        <5>2. ~(i < j) /\ ~(j < i)
          BY <1>7, <4>2, <5>1
        <5> QED
          BY <5>1, <5>2
      <4> HIDE DEF f, Tried
      <4> QED
        BY <4>1, <4>2, Fun_IsBij
    <3>4. IsFiniteSet(M) /\ Cardinality(M) = MaxAttempts
      BY FS_Interval DEF DispatchOK
    <3>5. Tried \subseteq Bads
      BY <1>6, <1>11, <3>2
    <3>6. IsFiniteSet(Bads)
      <4> DEFINE D == DOMAIN answers
                 g == [i \in D |-> answers[i].address]
      <4>1. IsFiniteSet(D)
        <5>1. D = 1..Len(answers) /\ Len(answers) \in Nat
          OBVIOUS
        <5>2. IsFiniteSet(1..Len(answers))
          BY <5>1, FS_Interval
        <5> QED
          BY <5>1, <5>2
      <4> DEFINE R == {g[i] : i \in D}
      <4>2. g \in Surjection(D, R)
        <5>1. g \in [D -> R] /\ \A x \in R : \E i \in D : g[i] = x
          OBVIOUS
        <5> HIDE DEF g, R, D
        <5> QED
          BY <5>1, Fun_IsSurj
      <4>3. Bads \subseteq R
        BY DEF Able
      <4> HIDE DEF g, R, D, Bads
      <4>4. IsFiniteSet(R)
        BY <4>1, <4>2, FS_Surjection DEF ExistsSurjection
      <4> QED
        BY <4>3, <4>4, FS_Subset
    <3> HIDE DEF f, M, Tried, Bads
    <3>7. Cardinality(Tried) = MaxAttempts
      BY <3>3, <3>4, FS_Bijection DEF ExistsBijection
    <3>8. Cardinality(Tried) <= Cardinality(Bads)
      BY <3>5, <3>6, FS_Subset
    <3>9. Cardinality(Bads) \in Nat /\ MaxAttempts \in Nat
      BY <3>6, FS_CardinalityType DEF DispatchOK
    <3>10. Cardinality(Bads) >= MaxAttempts
      BY <3>7, <3>8, <3>9
    <3> QED
      BY <3>10
  <2> HIDE DEF Bad
  <2> QED
    BY <2>1, <2>2, Zenon DEF BestGoodResultServes, served, Able, Bad, Acceptable
<1> QED
  BY <1>10, <1>11

\* The address connected to (provider.rs), whatever the name service returns.
THEOREM PinnedAlwaysAllowed ==
  ASSUME NEW e, e.addrs \in Seq(IpKinds), NEW allowPrivate
  PROVE  PinnedAddressAllowed(e, allowPrivate)
<1> SUFFICES ASSUME EndpointAccepted(e, allowPrivate)
             PROVE  /\ ProviderIpAllowed(Pinned(e), allowPrivate)
                    /\ Pinned(e) \notin {"metadata", "reserved"}
  BY DEF PinnedAddressAllowed
<1>1. 1 \in DOMAIN e.addrs
  BY DEF EndpointAccepted
<1> QED
  BY <1>1 DEF EndpointAccepted, AddressesAllowed, Pinned, ProviderIpAllowed

\* ProvidersChosenWell, whatever the inputs.
THEOREM ProvidersAlwaysChosenWell == Spec => []ProvidersChosenWell
<1> USE DispatchAssumption, InputsAssumption
<1> DEFINE Listed(a) == a \in Seq(Listing(Addresses))
<1>0. ASSUME NEW loads \in SUBSET Nat, NEW n, NEW a \in UpTo(n, Answers(Addresses, Bps, loads, MaxLoad))
      PROVE  Listed(a)
  <2>1. Answers(Addresses, Bps, loads, MaxLoad) \subseteq Listing(Addresses)
    BY DEF Answers, Listing, InputsOK
  <2>2. PICK k \in 0..n : a \in [1..k -> Answers(Addresses, Bps, loads, MaxLoad)]
    BY DEF UpTo
  <2>3. a \in [1..k -> Listing(Addresses)] /\ k \in Nat
    BY <2>1, <2>2
  <2> QED
    BY <2>3
<1>1. ASSUME Init
      PROVE  ProvidersChosenWell
  <2>1. ASSUME input.kind = "providers"
        PROVE  FailoverIsBestFirst(input.answers, input.pools)
    <3>1. PICK a \in UpTo(MaxListed, Answers(Addresses, Bps, Loads, MaxLoad)),
               s \in {{}} \cup {{x} : x \in PoolScores} :
            input = [kind |-> "providers", answers |-> a, pools |-> s]
      BY <1>1, <2>1, KindOfInput DEF ProvidersInit
    <3>2. Listed(a)
      BY <1>0 DEF InputsOK
    <3>3. FailoverIsBestFirst(a, s)
      BY <3>2, FailoverAlwaysBestFirst
    <3> QED
      BY <3>1, <3>3
  <2>2. ASSUME input.kind = "results"
        PROVE  BestGoodResultServes(input.answers, input.results, input.required)
    <3> DEFINE Active == {x \in Answers(Addresses, Bps, {0}, MaxLoad) : x.active}
    <3>1. PICK a \in UpTo(MaxListed, Active), r \in [Addresses -> Results], q \in BOOLEAN :
            input = [kind |-> "results", answers |-> a, results |-> r, required |-> q]
      BY <1>1, <2>2, KindOfInput, Zenon DEF ResultsInit
    <3>2. Listed(a)
      <4>1. a \in UpTo(MaxListed, Answers(Addresses, Bps, {0}, MaxLoad))
        BY DEF UpTo
      <4> QED
        BY <1>0, <4>1
    <3>3. BestGoodResultServes(a, r, q)
      BY <3>2, BestGoodResultAlwaysServes
    <3>4. input.answers = a /\ input.results = r /\ input.required = q
      BY <3>1
    <3> QED
      BY <3>3, <3>4
  <2>3. ASSUME input.kind = "endpoint"
        PROVE  PinnedAddressAllowed(input.endpoint, input.allowPrivate)
    <3>1. PICK s \in {"https", "http", "ftp"}, c, p \in BOOLEAN, a \in UpTo(3, IpKinds) :
            input = [kind |-> "endpoint", allowPrivate |-> p,
                     endpoint |-> [scheme |-> s, credentials |-> c, addrs |-> a]]
      BY <1>1, <2>3, KindOfInput DEF EndpointInit
    <3>2. PICK k \in 0..3 : a \in [1..k -> IpKinds]
      BY DEF UpTo
    <3>3. a \in Seq(IpKinds)
      BY <3>2
    <3>4. input.endpoint.addrs = a
      BY <3>1
    <3> QED
      BY <3>3, <3>4, PinnedAlwaysAllowed
  <2> QED
    BY <2>1, <2>2, <2>3 DEF ProvidersChosenWell
<1>2. ProvidersChosenWell /\ [Next]_input => ProvidersChosenWell'
  <2> SUFFICES ASSUME ProvidersChosenWell, [Next]_input
               PROVE  ProvidersChosenWell'
    OBVIOUS
  <2>1. CASE input' = input
    BY <2>1 DEF ProvidersChosenWell
  <2>2. CASE input'.kind = "date"
    BY <2>2 DEF ProvidersChosenWell
  <2> QED
    BY <2>1, <2>2, InputStep
<1> QED
  BY <1>1, <1>2, PTL DEF Spec
-----------------------------------------------------------------------------
(* What the decoders read.                                                 *)

\* f starts with start and goes on by its steps.
Continues(f, n, start, step) ==
  /\ f \in [0..n -> Nat]
  /\ f[0] = start
  /\ \A i \in 1..n : f[i] = step[i][f[i - 1]]

\* There is such an f, which is what makes recursive definitions meaningful.
LEMMA ContinuationExists ==
  ASSUME NEW n \in Nat, NEW start \in Nat, NEW step \in [1..n -> [Nat -> Nat]]
  PROVE  \E f : Continues(f, n, start, step)
<1> DEFINE G == {m \in 0..n : \E f : Continues(f, m, start, step)}
<1>1. 0 \in G
  <2>1. Continues([i \in 0..0 |-> start], 0, start, step)
    BY DEF Continues
  <2>2. 0 \in 0..n
    OBVIOUS
  <2> QED
    BY <2>1, <2>2
<1>2. ASSUME NEW m \in 1..n, m - 1 \in G
      PROVE  m \in G
  <2>1. PICK f : Continues(f, m - 1, start, step)
    BY <1>2
  <2> DEFINE x == step[m][f[m - 1]]
             g == [i \in 0..m |-> IF i = m THEN x ELSE f[i]]
  <2>2. f \in [0..(m - 1) -> Nat] /\ f[0] = start /\ x \in Nat
    <3>1. f \in [0..(m - 1) -> Nat] /\ f[0] = start /\ m - 1 \in 0..(m - 1)
      BY <2>1 DEF Continues
    <3>2. f[m - 1] \in Nat /\ step[m] \in [Nat -> Nat]
      BY <3>1
    <3> QED
      BY <3>1, <3>2
  <2>3. g \in [0..m -> Nat] /\ g[0] = start /\ g[m] = x
        /\ \A i \in 0..(m - 1) : g[i] = f[i]
    <3> HIDE DEF x
    <3>1. 0 \in 0..m /\ m \in 0..m /\ 0 # m /\ \A i \in 0..(m - 1) : i \in 0..m /\ i # m
      OBVIOUS
    <3>2. \A i \in 0..m : i = m \/ i \in 0..(m - 1)
      OBVIOUS
    <3> QED
      BY <2>2, <3>1, <3>2
  <2> HIDE DEF g
  <2>4. ASSUME NEW i \in 1..m
        PROVE  g[i] = step[i][g[i - 1]]
    <3>1. i - 1 \in 0..(m - 1) /\ g[i - 1] = f[i - 1]
      BY <2>3
    <3>2. CASE i = m
      BY <2>3, <3>1, <3>2
    <3>3. CASE i # m
      <4>1. i \in 1..(m - 1) /\ i \in 0..(m - 1)
        BY <3>3
      <4> QED
        BY <2>1, <2>3, <3>1, <4>1 DEF Continues
    <3> QED
      BY <3>2, <3>3
  <2>5. Continues(g, m, start, step)
    BY <2>3, <2>4 DEF Continues
  <2>6. m \in 0..n
    OBVIOUS
  <2> QED
    BY <2>5, <2>6
<1> HIDE DEF G
<1>3. \A m \in 0..n : m \in G
  BY <1>1, <1>2, InductionUpTo
<1> QED
  BY <1>3 DEF G

Bytes0 == 0..(Base - 1)
Words == [1..WordSize -> Bytes0]

\* The partial values of a word, up to each of its bytes.
LEMMA ValueIs ==
  ASSUME AbiOK, NEW w \in Words
  PROVE  \E u \in [0..WordSize -> Nat] :
           /\ u[0] = 0 /\ \A i \in 1..WordSize : u[i] = u[i - 1] * Base + w[i]
           /\ Value(w) = u[WordSize]
<1> DEFINE step == [i \in 1..WordSize |-> [x \in Nat |-> x * Base + w[i]]]
           Eq(f) == f = [i \in 0..Len(w) |-> IF i = 0 THEN 0 ELSE f[i - 1] * Base + w[i]]
           d == CHOOSE f : Eq(f)
<1>1. Base \in Nat /\ WordSize \in Nat /\ Len(w) = WordSize
      /\ \A i \in 1..WordSize : w[i] \in Nat
  BY DEF AbiOK, Words, Bytes0
<1>2. step \in [1..WordSize -> [Nat -> Nat]]
        /\ \A i \in 1..WordSize : \A x \in Nat : step[i][x] = x * Base + w[i]
  BY <1>1
<1> HIDE DEF step
<1>3. \E f : Eq(f)
  <2>1. PICK f : Continues(f, WordSize, 0, step)
    BY <1>1, <1>2, ContinuationExists
  <2>2. ASSUME NEW i \in 0..WordSize
        PROVE  f[i] = IF i = 0 THEN 0 ELSE f[i - 1] * Base + w[i]
    <3>1. CASE i = 0
      BY <2>1, <3>1 DEF Continues
    <3>2. CASE i # 0
      <4>1. i \in 1..WordSize /\ i - 1 \in 0..WordSize
        BY <1>1, <3>2
      <4>2. f[i - 1] \in Nat /\ f[i] = step[i][f[i - 1]]
        BY <2>1, <4>1 DEF Continues
      <4> QED
        BY <1>2, <3>2, <4>1, <4>2
    <3> QED
      BY <3>1, <3>2
  <2>3. f = [i \in 0..WordSize |-> f[i]]
    BY <2>1 DEF Continues
  <2>4. f = [i \in 0..WordSize |-> IF i = 0 THEN 0 ELSE f[i - 1] * Base + w[i]]
    BY <2>2, <2>3
  <2>5. Eq(f)
    BY <1>1, <2>4
  <2> HIDE DEF Eq
  <2> QED
    BY <2>5
<1>4. Eq(d)
  <2> HIDE DEF Eq
  <2> QED
    BY <1>3
<1>5. Value(w) = d[WordSize]
  BY <1>1 DEF Value
<1> HIDE DEF d
<1>6. d[0] = 0 /\ DOMAIN d = 0..WordSize
      /\ \A i \in 1..WordSize : d[i] = d[i - 1] * Base + w[i]
  <2>1. d = [i \in 0..WordSize |-> IF i = 0 THEN 0 ELSE d[i - 1] * Base + w[i]]
    BY <1>1, <1>4
  <2>2. 0 \in 0..WordSize /\ \A i \in 1..WordSize : i \in 0..WordSize /\ i # 0
    BY <1>1
  <2> HIDE <1>4
  <2> QED
    BY <2>1, <2>2
<1> DEFINE G == {i \in 0..WordSize : d[i] \in Nat}
<1>7. 0 \in G
  BY <1>1, <1>6
<1>8. ASSUME NEW i \in 1..WordSize, i - 1 \in G
      PROVE  i \in G
  <2>1. d[i - 1] \in Nat /\ w[i] \in Nat /\ Base \in Nat
    BY <1>1, <1>8
  <2>2. d[i - 1] * Base + w[i] \in Nat
    BY <2>1
  <2>3. i \in 0..WordSize /\ d[i] = d[i - 1] * Base + w[i]
    BY <1>1, <1>6
  <2> QED
    BY <2>2, <2>3
<1>9. \A i \in 0..WordSize : i \in G
  <2> HIDE DEF G
  <2> QED
    BY <1>1, <1>7, <1>8, InductionUpTo
<1>10. d = [i \in 0..WordSize |-> d[i]]
  BY <1>1, <1>4
<1>11. d \in [0..WordSize -> Nat]
  BY <1>9, <1>10
<1> QED
  BY <1>5, <1>6, <1>11

\* The remainders of a number, without its last bytes.
LEMMA WordIs ==
  ASSUME AbiOK, NEW v \in Nat
  PROVE  \E r \in [0..WordSize -> Nat] :
           /\ r[0] = v /\ \A k \in 1..WordSize : r[k] = r[k - 1] \div Base
           /\ Word(v) = [i \in 1..WordSize |-> r[WordSize - i] % Base]
<1> DEFINE step == [k \in 1..WordSize |-> [x \in Nat |-> x \div Base]]
           Eq(f) == f = [k \in 0..WordSize |-> IF k = 0 THEN v ELSE f[k - 1] \div Base]
           d == CHOOSE f : Eq(f)
<1>1. Base \in Nat \ {0} /\ WordSize \in Nat
  BY DEF AbiOK
<1>2. step \in [1..WordSize -> [Nat -> Nat]]
        /\ \A k \in 1..WordSize : \A x \in Nat : step[k][x] = x \div Base
  BY <1>1
<1> HIDE DEF step
<1>3. \E f : Eq(f)
  <2>1. PICK f : Continues(f, WordSize, v, step)
    BY <1>1, <1>2, ContinuationExists
  <2>2. ASSUME NEW k \in 0..WordSize
        PROVE  f[k] = IF k = 0 THEN v ELSE f[k - 1] \div Base
    <3>1. CASE k = 0
      BY <2>1, <3>1 DEF Continues
    <3>2. CASE k # 0
      <4>1. k \in 1..WordSize /\ k - 1 \in 0..WordSize
        BY <1>1, <3>2
      <4>2. f[k - 1] \in Nat /\ f[k] = step[k][f[k - 1]]
        BY <2>1, <4>1 DEF Continues
      <4> QED
        BY <1>2, <3>2, <4>1, <4>2
    <3> QED
      BY <3>1, <3>2
  <2>3. f = [k \in 0..WordSize |-> f[k]]
    BY <2>1 DEF Continues
  <2>4. Eq(f)
    BY <2>2, <2>3
  <2> HIDE DEF Eq
  <2> QED
    BY <2>4
<1>4. Eq(d)
  <2> HIDE DEF Eq
  <2> QED
    BY <1>3
<1>5. Word(v) = [i \in 1..WordSize |-> d[WordSize - i] % Base]
  BY DEF Word
<1> HIDE DEF d
<1>6. d[0] = v /\ \A k \in 1..WordSize : d[k] = d[k - 1] \div Base
  <2>1. 0 \in 0..WordSize /\ \A k \in 1..WordSize : k \in 0..WordSize /\ k # 0
    BY <1>1
  <2> QED
    BY <1>4, <2>1
<1> DEFINE G == {k \in 0..WordSize : d[k] \in Nat}
<1>7. 0 \in G
  BY <1>1, <1>6
<1>8. ASSUME NEW k \in 1..WordSize, k - 1 \in G
      PROVE  k \in G
  <2>1. d[k - 1] \in Nat
    BY <1>8
  <2>2. d[k - 1] \div Base \in Nat
    BY <1>1, <2>1
  <2>3. k \in 0..WordSize /\ d[k] = d[k - 1] \div Base
    BY <1>1, <1>6
  <2> QED
    BY <2>2, <2>3
<1>9. \A k \in 0..WordSize : k \in G
  <2> HIDE DEF G
  <2> QED
    BY <1>1, <1>7, <1>8, InductionUpTo
<1>10. d = [k \in 0..WordSize |-> d[k]]
  BY <1>1, <1>4
<1>11. d \in [0..WordSize -> Nat]
  BY <1>9, <1>10
<1> QED
  BY <1>5, <1>6, <1>11

\* Dividing by the base takes the last byte off.
LEMMA LastByteOff ==
  ASSUME NEW q \in Nat, NEW g \in Nat \ {0}, NEW r \in 0..(g - 1)
  PROVE  (q * g + r) \div g = q /\ (q * g + r) % g = r
<1> DEFINE x == q * g + r
           p == x \div g
           s == x % g
<1>1. x \in Nat /\ q * g \in Nat /\ r \in Nat /\ r < g
  OBVIOUS
<1> HIDE DEF x
<1>2. p \in Nat /\ s \in Nat /\ s < g /\ x = g * p + s
  BY <1>1
<1> HIDE DEF p, s
<1>3. q * g + r = p * g + s /\ p * g \in Nat
  BY <1>2 DEF x
<1>4. ASSUME NEW a \in Nat, NEW b \in Nat, NEW c \in Nat, NEW e \in Nat,
             a * g + c = b * g + e, c < g, e < g, a < b
      PROVE  FALSE
  <2>1. PICK k \in Nat : b = (a + 1) + k
    <3>1. b - (a + 1) \in Nat /\ b = (a + 1) + (b - (a + 1))
      BY <1>4
    <3> QED
      BY <3>1
  <2>2. ((a + 1) + k) * g = a * g + g + k * g /\ k * g \in Nat /\ a * g \in Nat
    OBVIOUS
  <2>3. b * g = a * g + g + k * g
    BY <2>1, <2>2
  <2> QED
    BY <1>4, <2>2, <2>3
<1>5. ~(q < p) /\ ~(p < q)
  BY <1>1, <1>2, <1>3, <1>4
<1>6. q = p
  BY <1>2, <1>5
<1>7. r = s
  BY <1>1, <1>2, <1>3, <1>6
<1> QED
  BY <1>6, <1>7 DEF p, s, x

\* Writing down the value of a word gives the word.
LEMMA WordOfValue ==
  ASSUME AbiOK, NEW w \in Words
  PROVE  Value(w) \in Nat /\ Word(Value(w)) = w
<1>0. Base \in Nat \ {0} /\ WordSize \in Nat
      /\ \A i \in 1..WordSize : w[i] \in 0..(Base - 1)
  BY DEF AbiOK, Words, Bytes0
<1>1. PICK u \in [0..WordSize -> Nat] :
        /\ u[0] = 0 /\ \A i \in 1..WordSize : u[i] = u[i - 1] * Base + w[i]
        /\ Value(w) = u[WordSize]
  BY ValueIs
<1>2. Value(w) \in Nat
  BY <1>0, <1>1
<1>3. PICK r \in [0..WordSize -> Nat] :
        /\ r[0] = Value(w) /\ \A k \in 1..WordSize : r[k] = r[k - 1] \div Base
        /\ Word(Value(w)) = [i \in 1..WordSize |-> r[WordSize - i] % Base]
  BY <1>2, WordIs
<1>4. ASSUME NEW i \in 1..WordSize
      PROVE  u[i] \div Base = u[i - 1] /\ u[i] % Base = w[i]
  <2>1. u[i - 1] \in Nat /\ u[i] = u[i - 1] * Base + w[i] /\ w[i] \in 0..(Base - 1)
    BY <1>0, <1>1
  <2>2. /\ (u[i - 1] * Base + w[i]) \div Base = u[i - 1]
        /\ (u[i - 1] * Base + w[i]) % Base = w[i]
    BY <1>0, <2>1, LastByteOff, Zenon
  <2> QED
    BY <2>1, <2>2, Zenon
<1> DEFINE G == {k \in 0..WordSize : r[k] = u[WordSize - k]}
<1>5. 0 \in G
  BY <1>0, <1>1, <1>3
<1>6. ASSUME NEW k \in 1..WordSize, k - 1 \in G
      PROVE  k \in G
  <2>1. r[k - 1] = u[WordSize - (k - 1)]
    BY <1>6
  <2>2. WordSize - (k - 1) \in 1..WordSize /\ (WordSize - (k - 1)) - 1 = WordSize - k
        /\ k \in 0..WordSize
    BY <1>0
  <2>3. u[WordSize - (k - 1)] \div Base = u[WordSize - k]
    BY <1>4, <2>2
  <2>4. r[k] = r[k - 1] \div Base
    BY <1>3
  <2> QED
    BY <2>1, <2>2, <2>3, <2>4
<1>7. \A k \in 0..WordSize : k \in G
  <2> HIDE DEF G
  <2> QED
    BY <1>0, <1>5, <1>6, InductionUpTo
<1>8. ASSUME NEW i \in 1..WordSize
      PROVE  r[WordSize - i] % Base = w[i]
  <2>1. WordSize - i \in 0..WordSize /\ WordSize - (WordSize - i) = i
    BY <1>0
  <2>2. r[WordSize - i] = u[i]
    BY <1>7, <2>1
  <2> QED
    BY <1>4, <2>2
<1>9. w = [i \in 1..WordSize |-> w[i]]
  BY DEF Words
<1> QED
  BY <1>2, <1>3, <1>8, <1>9

\* So a number that fits in a word is the value of its word, and no other
\* word has it.
LEMMA FittingWord ==
  ASSUME AbiOK, NEW v \in WordValues
  PROVE  /\ v \in Nat /\ Word(v) \in Words /\ Value(Word(v)) = v
         /\ \A w \in Words : Value(w) = v <=> w = Word(v)
<1>1. PICK w \in Words : v = Value(w)
  BY DEF WordValues, Words, Bytes0, Byte
<1>2. v \in Nat /\ Word(v) = w
  BY <1>1, WordOfValue
<1>3. \A x \in Words : Value(x) = v => x = Word(v)
  BY WordOfValue
<1> QED
  BY <1>1, <1>2, <1>3

\* A byte of a buffer; zero, where there is none.
ByteAt(b, k) == IF k \in 1..Len(b) THEN b[k] ELSE 0

\* Part of a buffer.
LEMMA BytesIs ==
  ASSUME AbiOK, NEW b \in Seq(Bytes0), NEW from \in Nat, NEW n \in Nat
  PROVE  /\ Bytes(b, from, n) \in [1..n -> Bytes0]
         /\ Bytes(b, from, n) \in Seq(Bytes0)
         /\ Len(Bytes(b, from, n)) = n
         /\ \A i \in 1..n : Bytes(b, from, n)[i] = ByteAt(b, from + i)
<1> DEFINE s == Bytes(b, from, n)
<1>1. s = [i \in 1..n |-> IF from + i \in DOMAIN b THEN b[from + i] ELSE 0]
  BY DEF Bytes
<1>2. 0 \in Bytes0 /\ DOMAIN b = 1..Len(b)
  BY DEF Bytes0, AbiOK
<1>3. \A i \in 1..n : (IF from + i \in DOMAIN b THEN b[from + i] ELSE 0) \in Bytes0
  BY <1>2
<1>4. s \in [1..n -> Bytes0]
  BY <1>1, <1>3
<1>5. \A i \in 1..n : s[i] = ByteAt(b, from + i)
  BY <1>1, <1>2 DEF ByteAt
<1> HIDE DEF s
<1>6. s \in Seq(Bytes0) /\ Len(s) = n
  BY <1>4
<1> QED
  BY <1>4, <1>5, <1>6 DEF s

\* A byte of a part of a buffer is a byte of the buffer.
LEMMA ByteOfBytes ==
  ASSUME AbiOK, NEW b \in Seq(Bytes0), NEW from \in Nat, NEW n \in Nat, NEW i \in 1..n
  PROVE  Bytes(b, from, n)[i] = ByteAt(b, from + i)
BY BytesIs

\* What a buffer holds where it declares a number: the number itself.
LEMMA HoldsNumber ==
  ASSUME AbiOK, NEW b \in Seq(Bytes0), NEW from \in Nat, NEW n \in WordValues
  PROVE  /\ WordAt(b, from) \in WordValues
         /\ Holds(b, from, Word(n))
              <=> from + WordSize <= Len(b) /\ WordAt(b, from) = n
<1>1. WordSize \in Nat
  BY DEF AbiOK
<1>2. Bytes(b, from, WordSize) \in Words
  BY <1>1, BytesIs DEF Words
<1>3. Word(n) \in Words /\ Len(Word(n)) = WordSize
  <2>1. Word(n) \in Words
    BY FittingWord
  <2> QED
    BY <1>1, <2>1 DEF Words
<1>4. Value(Bytes(b, from, WordSize)) = n
        <=> Bytes(b, from, WordSize) = Word(n)
  BY <1>2, FittingWord
<1>5. Value(Bytes(b, from, WordSize)) \in WordValues
  BY <1>2 DEF WordValues, Words, Bytes0, Byte
<1> QED
  BY <1>3, <1>4, <1>5 DEF Holds, WordAt

\* What is assumed of a buffer: it is shorter than a word can say.
IsBuffer(b) == b \in Seq(Bytes0) /\ 0..Len(b) \subseteq WordValues

\* The decoders of arrays, for every buffer.
LEMMA ArrayDecoded ==
  ASSUME AbiOK, NEW b, IsBuffer(b), NEW size \in 1..WordSize
  PROVE  Agrees(DecodeArray(b, size), ArraysIn(b, size))
<1> DEFINE W == WordSize
           L == Len(b)
           N == WordAt(b, W)
           Item(i) == Bytes(b, 2 * W + (i - 1) * W + (W - size), size)
           Arr(n) == [i \in 1..n |-> Bytes(b, (2 + i) * W - size, size)]
           Fits == L >= 2 * W /\ (2 + N) * W <= L
<1>0. W \in Nat \ {0} /\ L \in Nat /\ b \in Seq(Bytes0) /\ W \in WordValues \cup Nat
  BY DEF AbiOK, IsBuffer
<1>1. N \in Nat /\ \A n \in 0..L : Holds(b, W, Word(n)) <=> (2 * W <= L /\ N = n)
  <2>1. 0 \in WordValues /\ \A n \in 0..L : n \in WordValues
    BY <1>0 DEF IsBuffer
  <2>2. N \in WordValues
    BY <1>0, <2>1, HoldsNumber
  <2>3. N \in Nat
    BY <2>2, FittingWord
  <2>4. ASSUME NEW n \in 0..L
        PROVE  Holds(b, W, Word(n)) <=> (W + W <= L /\ N = n)
    BY <1>0, <2>1, HoldsNumber
  <2>5. W + W = 2 * W
    BY <1>0
  <2> QED
    BY <2>3, <2>4, <2>5
<1> HIDE DEF N
<1>2. ArraysIn(b, size) = IF Fits THEN {Arr(N)} ELSE {}
  <2> DEFINE One(n) == {a \in {Arr(n)} : /\ Holds(b, W, Word(n))
                                         /\ (2 + n) * W <= L}
  <2>1. ArraysIn(b, size) = UNION {One(n) : n \in 0..L}
    BY DEF ArraysIn
  <2>2. \A n \in 0..L : One(n) = IF 2 * W <= L /\ N = n /\ (2 + n) * W <= L THEN {Arr(n)} ELSE {}
    BY <1>1
  <2>3. Fits => N \in 0..L
    <3>1. (2 + N) * W = 2 * W + N * W /\ N * W >= N
      <4>1. PICK k \in Nat : W = k + 1
        <5>1. W - 1 \in Nat /\ W = (W - 1) + 1
          BY <1>0
        <5> QED
          BY <5>1
      <4>2. N * (k + 1) = N * k + N /\ N * k \in Nat
        BY <1>1
      <4> QED
        BY <1>0, <1>1, <4>1, <4>2
    <3> QED
      BY <1>0, <1>1, <3>1
  <2>4. CASE Fits
    <3>1. \A n \in 0..L : One(n) = IF n = N THEN {Arr(N)} ELSE {}
      BY <2>2, <2>4
    <3> HIDE DEF One, Arr
    <3> QED
      BY <2>1, <2>3, <2>4, <3>1
  <2>5. CASE ~Fits
    <3>1. \A n \in 0..L : One(n) = {}
      BY <2>2, <2>5, <1>0
    <3> HIDE DEF One, Arr
    <3> QED
      BY <2>1, <2>5, <3>1
  <2> QED
    BY <2>4, <2>5
<1>3. \A i \in 1..N : 2 * W + (i - 1) * W + (W - size) = (2 + i) * W - size
  BY <1>0, <1>1
<1>4. [i \in 1..N |-> Item(i)] = Arr(N)
  BY <1>3
<1> HIDE DEF Item, Arr
<1> DEFINE q == (L - 2 * W) \div W
<1>5. DecodeArray(b, size)
        = IF L < 2 * W \/ N > q \/ L < 2 * W + N * W THEN Error
          ELSE Decoded(Arr(N))
  <2>1. AbiLenBounded(N, q) = IF N > q THEN Error ELSE Decoded(N)
    BY DEF AbiLenBounded
  <2>2. ~Error.ok /\ Decoded(N).ok /\ Decoded(N).value = N
    BY DEF Error, Decoded
  <2> HIDE DEF q
  <2> DEFINE len == AbiLenBounded(N, q)
  <2>3. DecodeArray(b, size)
          = IF L < 2 * W \/ ~len.ok \/ L < 2 * W + len.value * W THEN Error
            ELSE Decoded([i \in 1..len.value |->
                   Bytes(b, 2 * W + (i - 1) * W + (W - size), size)])
    BY DEF DecodeArray, q, N
  <2>4. CASE N > q
    <3>1. len = Error
      BY <2>1, <2>4
    <3> QED
      BY <2>2, <2>3, <2>4, <3>1
  <2>5. CASE ~(N > q)
    <3>1. len.ok /\ len.value = N
      BY <2>1, <2>2, <2>5
    <3> HIDE DEF len
    <3>2. DecodeArray(b, size)
            = IF L < 2 * W \/ L < 2 * W + N * W THEN Error
              ELSE Decoded([i \in 1..N |-> Item(i)])
      BY <2>3, <3>1 DEF Item
    <3> QED
      BY <1>4, <2>5, <3>2
  <2> QED
    BY <2>4, <2>5
<1>6. Fits <=> ~(L < 2 * W \/ N > q \/ L < 2 * W + N * W)
  <2>1. (2 + N) * W = 2 * W + N * W /\ N * W \in Nat /\ 2 * W \in Nat
    BY <1>0, <1>1
  <2>2. L >= 2 * W /\ N * W <= L - 2 * W => N <= q
    <3>1. L >= 2 * W => L - 2 * W \in Nat
      BY <1>0
    <3> QED
      BY <1>0, <1>1, <3>1, QuotientTimes
  <2>3. L >= 2 * W => q \in Nat
    <3>1. L >= 2 * W => L - 2 * W \in Nat
      BY <1>0
    <3> QED
      BY <1>0, <3>1, QuotientTimes
  <2> HIDE DEF q
  <2> QED
    BY <1>0, <1>1, <2>1, <2>2, <2>3
<1> HIDE DEF Fits, q
<1>7. DecodeArray(b, size) = IF Fits THEN Decoded(Arr(N)) ELSE Error
  BY <1>5, <1>6
<1>8. Decoded(Arr(N)).ok /\ Decoded(Arr(N)).value = Arr(N) /\ ~Error.ok
  BY DEF Decoded, Error
<1> QED
  BY <1>2, <1>7, <1>8 DEF Agrees

\* A part of a buffer that starts with a word.
LEMMA BytesSplit ==
  ASSUME AbiOK, NEW b \in Seq(Bytes0), NEW from \in Nat, NEW n \in Nat,
         NEW w \in Words, NEW s \in Seq(Bytes0), Len(s) = n
  PROVE  Holds(b, from, w \o s)
           <=> /\ from + WordSize + n <= Len(b)
               /\ Bytes(b, from, WordSize) = w
               /\ Bytes(b, from + WordSize, n) = s
<1> DEFINE W == WordSize
           all == Bytes(b, from, W + n)
           head == Bytes(b, from, W)
           tail == Bytes(b, from + W, n)
           c == w \o s
<1>0. /\ W \in Nat /\ Len(b) \in Nat /\ w \in Seq(Bytes0) /\ Len(w) = W
      /\ W + n \in Nat /\ from + W \in Nat
  BY DEF AbiOK, Words
<1>1. c \in Seq(Bytes0) /\ Len(c) = W + n
      /\ \A i \in 1..(W + n) : c[i] = IF i <= W THEN w[i] ELSE s[i - W]
  BY <1>0, ConcatProperties
<1>2. /\ all \in Seq(Bytes0) /\ Len(all) = W + n
      /\ \A i \in 1..(W + n) : all[i] = ByteAt(b, from + i)
  <2>1. all \in Seq(Bytes0) /\ Len(all) = W + n
    BY <1>0, BytesIs, Zenon
  <2>2. \A i \in 1..(W + n) : all[i] = ByteAt(b, from + i)
    BY <1>0, ByteOfBytes
  <2> QED
    BY <2>1, <2>2
<1>3. /\ head \in Seq(Bytes0) /\ Len(head) = W
      /\ \A i \in 1..W : head[i] = ByteAt(b, from + i)
  <2>1. head \in Seq(Bytes0) /\ Len(head) = W
    BY <1>0, BytesIs, Zenon
  <2>2. \A i \in 1..W : head[i] = ByteAt(b, from + i)
    BY <1>0, ByteOfBytes
  <2> QED
    BY <2>1, <2>2
<1>4. /\ tail \in Seq(Bytes0) /\ Len(tail) = n
      /\ \A i \in 1..n : tail[i] = ByteAt(b, from + W + i)
  <2>1. tail \in Seq(Bytes0) /\ Len(tail) = n
    BY <1>0, BytesIs, Zenon
  <2>2. \A i \in 1..n : tail[i] = ByteAt(b, from + W + i)
    BY <1>0, ByteOfBytes
  <2> QED
    BY <2>1, <2>2
<1> HIDE DEF c
<1>5. Holds(b, from, c) <=> from + W + n <= Len(b) /\ all = c
  BY <1>0, <1>1 DEF Holds
<1> HIDE DEF all, head, tail
<1>6. \A i \in 1..W : i \in 1..(W + n) /\ i <= W /\ all[i] = head[i]
  BY <1>0, <1>2, <1>3
<1>7. \A i \in 1..n : W + i \in 1..(W + n) /\ ~(W + i <= W) /\ (W + i) - W = i
                      /\ all[W + i] = tail[i]
  <2>1. \A i \in 1..n : W + i \in 1..(W + n) /\ ~(W + i <= W) /\ (W + i) - W = i
                        /\ from + (W + i) = from + W + i
    BY <1>0
  <2> QED
    BY <1>2, <1>4, <2>1
<1>8. all = c => head = w /\ tail = s
  <2>1. ASSUME all = c
        PROVE  \A i \in 1..W : head[i] = w[i]
    BY <1>1, <1>6, <2>1
  <2>2. ASSUME all = c
        PROVE  \A i \in 1..n : tail[i] = s[i]
    BY <1>1, <1>7, <2>2
  <2>3. (\A i \in 1..W : head[i] = w[i]) => head = w
    BY <1>0, <1>3, SeqEqual
  <2>4. (\A i \in 1..n : tail[i] = s[i]) => tail = s
    BY <1>4, SeqEqual
  <2> QED
    BY <2>1, <2>2, <2>3, <2>4
<1>9. head = w /\ tail = s => all = c
  <2> SUFFICES ASSUME head = w, tail = s
               PROVE  all = c
    OBVIOUS
  <2>1. ASSUME NEW i \in 1..(W + n)
        PROVE  all[i] = c[i]
    <3>1. CASE i <= W
      <4>1. i \in 1..W
        BY <1>0, <3>1
      <4> QED
        BY <1>1, <1>6, <3>1, <4>1
    <3>2. CASE ~(i <= W)
      <4>1. i - W \in 1..n /\ W + (i - W) = i
        BY <1>0, <3>2
      <4>2. all[i] = tail[i - W]
        BY <1>7, <4>1
      <4> QED
        BY <1>1, <3>2, <4>2
    <3> QED
      BY <3>1, <3>2
  <2> QED
    BY <1>1, <1>2, <2>1, SeqEqual
<1> QED
  BY <1>5, <1>8, <1>9 DEF c, head, tail

\* The decoder of strings, for every buffer that is no longer than the longest
\* string behind its offset.
LEMMA StringAlwaysDecoded ==
  ASSUME AbiOK, NEW b, IsBuffer(b), Len(b) <= LenMax + WordSize
  PROVE  StringDecoded(b)
<1> DEFINE W == WordSize
           L == Len(b)
           o == WordAt(b, W)
           len == WordAt(b, o)
           s == Bytes(b, o + W, len)
           Inside == 2 * W <= L /\ o + W + len <= L /\ Utf8(s)
           decoded == DecodeStringAtOffsetWord(b, 1)
           In(x) == \E p \in 0..L : /\ Holds(b, W, Word(p))
                                    /\ Holds(b, p, Word(Len(x)) \o x)
<1>0. /\ W \in Nat \ {0} /\ L \in Nat /\ b \in Seq(Bytes0) /\ 1 * W = W /\ (1 + 1) * W = 2 * W
      /\ LenMax \in Nat /\ NativeMax \in Nat /\ LenMax <= NativeMax /\ L <= LenMax + W
  BY DEF AbiOK, IsBuffer
<1>1. \A p \in 0..L : p \in WordValues
  BY <1>0 DEF IsBuffer
<1>2. o \in WordValues /\ o \in Nat
      /\ \A p \in 0..L : Holds(b, W, Word(p)) <=> (2 * W <= L /\ o = p)
  <2>1. ASSUME NEW p \in 0..L
        PROVE  /\ o \in WordValues
               /\ Holds(b, W, Word(p)) <=> (W + W <= L /\ o = p)
    BY <1>0, <1>1, HoldsNumber
  <2>2. o \in Nat
    BY <1>0, <2>1, FittingWord
  <2> QED
    BY <1>0, <2>1, <2>2
<1> HIDE DEF o
<1>3. len \in WordValues /\ len \in Nat
  <2>1. len \in WordValues
    BY <1>0, <1>1, <1>2, HoldsNumber
  <2> QED
    BY <2>1, FittingWord
<1>4. len = Value(Bytes(b, o, W)) /\ Bytes(b, o, W) \in Words
  BY <1>0, <1>2, BytesIs DEF WordAt, Words
<1> HIDE DEF len
<1>5. s \in Seq(Bytes0) /\ Len(s) = len
  <2>1. o + W \in Nat
    BY <1>0, <1>2
  <2> QED
    BY <1>0, <1>3, <2>1, BytesIs, Zenon
<1>6. ASSUME NEW x \in Seq(Bytes0), Len(x) \in 0..L
      PROVE  In(x) <=> 2 * W <= L /\ o + W + len <= L /\ x = s
  <2> DEFINE n == Len(x)
  <2>1. n \in WordValues /\ n \in Nat /\ Word(n) \in Words
        /\ (Value(Bytes(b, o, W)) = n <=> Bytes(b, o, W) = Word(n))
    <3>1. n \in WordValues
      BY <1>1, <1>6
    <3> QED
      BY <1>4, <3>1, FittingWord
  <2>2. Holds(b, o, Word(n) \o x)
          <=> /\ o + W + n <= L /\ Bytes(b, o, W) = Word(n)
              /\ Bytes(b, o + W, n) = x
    BY <1>0, <1>2, <2>1, BytesSplit
  <2>3. In(x) <=> /\ 2 * W <= L /\ o \in 0..L
                  /\ Holds(b, o, Word(n) \o x)
    BY <1>2
  <2>4. Bytes(b, o, W) = Word(n) <=> len = n
    BY <1>4, <2>1
  <2>5. len = n => Bytes(b, o + W, n) = s
    OBVIOUS
  <2>6. o + W + n <= L => o \in 0..L
    BY <1>0, <1>2, <2>1
  <2>7. x = s => n = len
    BY <1>5
  <2> HIDE DEF n, s, In
  <2> QED
    BY <2>2, <2>3, <2>4, <2>5, <2>6, <2>7
<1>7. StringsIn(b, 1) = IF Inside THEN {s} ELSE {}
  <2> DEFINE Parts == {Bytes(b, p + W, n) : p, n \in 0..L}
  <2>1. StringsIn(b, 1) = {x \in Parts : Utf8(x) /\ In(x)}
    BY <1>0 DEF StringsIn
  <2>2. \A x \in Parts : x \in Seq(Bytes0) /\ Len(x) \in 0..L
    <3>1. ASSUME NEW p \in 0..L, NEW n \in 0..L
          PROVE  /\ Bytes(b, p + W, n) \in Seq(Bytes0)
                 /\ Len(Bytes(b, p + W, n)) \in 0..L
      <4>1. p + W \in Nat /\ n \in Nat
        BY <1>0
      <4>2. /\ Bytes(b, p + W, n) \in Seq(Bytes0)
            /\ Len(Bytes(b, p + W, n)) = n
        BY <1>0, <4>1, BytesIs, Zenon
      <4> QED
        BY <4>2, Zenon
    <3>2. ASSUME NEW x \in Parts
          PROVE  \E p, n \in 0..L : x = Bytes(b, p + W, n)
      OBVIOUS
    <3> HIDE DEF Parts, L, W
    <3> QED
      BY <3>1, <3>2, Zenon
  <2>3. Inside => s \in Parts
    <3>1. o + W + len <= L => o \in 0..L /\ len \in 0..L
      BY <1>0, <1>2, <1>3
    <3> QED
      BY <3>1
  <2> HIDE DEF Parts, In, s
  <2>4. \A x \in Parts : In(x) <=> 2 * W <= L /\ o + W + len <= L /\ x = s
    BY <1>6, <2>2
  <2> QED
    BY <2>1, <2>3, <2>4
<1>8. decoded = IF Inside THEN Decoded(s) ELSE Error
  <2>1. decoded = IF \/ L < 2 * W \/ o > NativeMax \/ L < o + W \/ len > LenMax
                     \/ ~(L >= o + W + len) \/ ~Utf8(s)
                  THEN Error ELSE Decoded(s)
    BY <1>0 DEF DecodeStringAtOffsetWord, StringInside, o, len
  <2>2. Inside <=> ~(\/ L < 2 * W \/ o > NativeMax \/ L < o + W \/ len > LenMax
                     \/ ~(L >= o + W + len) \/ ~Utf8(s))
    <3> HIDE DEF s
    <3> QED
      BY <1>0, <1>2, <1>3
  <2> HIDE DEF s, Inside, decoded
  <2> QED
    BY <2>1, <2>2
<1>9. Decoded(s).ok /\ Decoded(s).value = s /\ ~Error.ok
  BY DEF Decoded, Error
<1> HIDE DEF s, Inside
<1>10. Agrees(decoded, StringsIn(b, 1))
  BY <1>7, <1>8, <1>9 DEF Agrees
<1> QED
  BY <1>10 DEF StringDecoded

\* A part of two buffers put together.
LEMMA BytesOfFront ==
  ASSUME AbiOK, NEW u \in Seq(Bytes0), NEW v \in Seq(Bytes0),
         NEW from \in Nat, NEW n \in Nat, from + n <= Len(u)
  PROVE  Bytes(u \o v, from, n) = Bytes(u, from, n)
<1> DEFINE c == u \o v
<1>1. c \in Seq(Bytes0) /\ Len(c) = Len(u) + Len(v)
      /\ \A i \in 1..(Len(u) + Len(v)) : c[i] = IF i <= Len(u) THEN u[i] ELSE v[i - Len(u)]
  BY ConcatProperties
<1>2. Len(u) \in Nat /\ Len(v) \in Nat
  OBVIOUS
<1> HIDE DEF c
<1>3. ASSUME NEW i \in 1..n
      PROVE  Bytes(c, from, n)[i] = Bytes(u, from, n)[i]
  <2>1. Bytes(c, from, n)[i] = ByteAt(c, from + i)
    BY <1>1, ByteOfBytes
  <2>2. Bytes(u, from, n)[i] = ByteAt(u, from + i)
    BY ByteOfBytes
  <2>3. from + i \in 1..Len(u) /\ from + i \in 1..(Len(u) + Len(v)) /\ from + i <= Len(u)
    BY <1>2
  <2>4. c[from + i] = u[from + i]
    BY <1>1, <2>3
  <2> QED
    BY <1>1, <2>1, <2>2, <2>3, <2>4 DEF ByteAt
<1>4. Bytes(c, from, n) \in Seq(Bytes0) /\ Len(Bytes(c, from, n)) = n
  BY <1>1, BytesIs
<1>5. Bytes(u, from, n) \in Seq(Bytes0) /\ Len(Bytes(u, from, n)) = n
  BY BytesIs
<1> QED
  BY <1>3, <1>4, <1>5, SeqEqual DEF c

\* What is read behind the first of two joined buffers is read off the second.
LEMMA BytesOfBack ==
  ASSUME AbiOK, NEW u \in Seq(Bytes0), NEW v \in Seq(Bytes0), NEW n \in Nat
  PROVE  Bytes(u \o v, Len(u), n) = Bytes(v, 0, n)
<1> DEFINE c == u \o v
           m == Len(u)
<1>1. c \in Seq(Bytes0) /\ Len(c) = m + Len(v)
      /\ \A i \in 1..(m + Len(v)) : c[i] = IF i <= m THEN u[i] ELSE v[i - m]
  BY ConcatProperties
<1>2. m \in Nat /\ Len(v) \in Nat
  OBVIOUS
<1> HIDE DEF c, m
<1>3. ASSUME NEW i \in 1..n
      PROVE  Bytes(c, m, n)[i] = Bytes(v, 0, n)[i]
  <2>1. Bytes(c, m, n)[i] = ByteAt(c, m + i)
    BY <1>1, <1>2, ByteOfBytes
  <2>0. 0 \in Nat /\ 0 + i = i
    OBVIOUS
  <2>2. Bytes(v, 0, n)[i] = ByteAt(v, i)
    BY <2>0, ByteOfBytes, Zenon
  <2>3. /\ m + i \in 1..(m + Len(v)) <=> i \in 1..Len(v)
        /\ ~(m + i <= m) /\ (m + i) - m = i
    BY <1>2
  <2> QED
    BY <1>1, <2>0, <2>1, <2>2, <2>3 DEF ByteAt
<1>4. Bytes(c, m, n) \in Seq(Bytes0) /\ Len(Bytes(c, m, n)) = n
  BY <1>1, <1>2, BytesIs
<1>5. Bytes(v, 0, n) \in Seq(Bytes0) /\ Len(Bytes(v, 0, n)) = n
  BY BytesIs
<1> QED
  BY <1>3, <1>4, <1>5, SeqEqual DEF c, m

\* All of a buffer, and its beginning.
LEMMA BytesOfAll ==
  ASSUME AbiOK, NEW v \in Seq(Bytes0), NEW n \in 0..Len(v)
  PROVE  Bytes(v, 0, n) = SubSeq(v, 1, n)
<1>0. Len(v) \in Nat /\ n \in Nat /\ n \in Int /\ 1 \in Int
  OBVIOUS
<1>1. Bytes(v, 0, n) \in Seq(Bytes0) /\ Len(Bytes(v, 0, n)) = n
  BY <1>0, BytesIs
<1>2. \A i \in 1..n : Bytes(v, 0, n)[i] = v[i]
  <2>1. ASSUME NEW i \in 1..n
        PROVE  Bytes(v, 0, n)[i] = v[i]
    <3>0. 0 \in Nat /\ 0 + i = i /\ i \in 1..Len(v)
      BY <1>0
    <3>1. Bytes(v, 0, n)[i] = ByteAt(v, i)
      BY <1>0, <3>0, ByteOfBytes, Zenon
    <3> QED
      BY <3>0, <3>1 DEF ByteAt
  <2> QED
    BY <2>1
<1>3. /\ SubSeq(v, 1, n) \in Seq(Bytes0) /\ Len(SubSeq(v, 1, n)) = n
      /\ \A i \in 1..n : SubSeq(v, 1, n)[i] = v[i]
  <2>1. \A i \in 1..n : v[i] \in Bytes0
    BY <1>0
  <2>2. /\ SubSeq(v, 1, n) \in Seq(Bytes0)
        /\ Len(SubSeq(v, 1, n)) = IF 1 <= n THEN n - 1 + 1 ELSE 0
        /\ \A i \in 1..(n - 1 + 1) : SubSeq(v, 1, n)[i] = v[1 + i - 1]
    BY <1>0, <2>1, SubSeqProperties
  <2>3. n - 1 + 1 = n /\ \A i \in 1..n : 1 + i - 1 = i
    BY <1>0
  <2> QED
    BY <1>0, <2>2, <2>3
<1>4. \A i \in 1..n : Bytes(v, 0, n)[i] = SubSeq(v, 1, n)[i]
  BY <1>2, <1>3
<1> QED
  BY <1>1, <1>3, <1>4, SeqEqual

\* A word put behind a buffer is read there.
LEMMA WordAppended ==
  ASSUME AbiOK, NEW u \in Seq(Bytes0), NEW w \in Words, NEW m, m = Len(u)
  PROVE  /\ u \o w \in Seq(Bytes0) /\ Len(u \o w) = m + WordSize
         /\ Bytes(u \o w, m, WordSize) = w
<1>1. WordSize \in Nat /\ w \in Seq(Bytes0) /\ Len(w) = WordSize
  BY DEF AbiOK, Words
<1>2. u \o w \in Seq(Bytes0) /\ Len(u \o w) = Len(u) + Len(w)
  BY <1>1, ConcatProperties
<1>3. Bytes(u \o w, Len(u), WordSize) = Bytes(w, 0, WordSize)
  BY <1>1, BytesOfBack
<1>4. Bytes(w, 0, WordSize) = SubSeq(w, 1, WordSize)
  BY <1>1, BytesOfAll
<1>5. SubSeq(w, 1, WordSize) = w
  BY <1>1, SubSeqFull
<1> QED
  BY <1>1, <1>2, <1>3, <1>4, <1>5

\* A word put behind a buffer leaves what is read in front of it.
LEMMA WordKept ==
  ASSUME AbiOK, NEW u \in Seq(Bytes0), NEW w \in Words,
         NEW from \in Nat, from + WordSize <= Len(u)
  PROVE  Bytes(u \o w, from, WordSize) = Bytes(u, from, WordSize)
<1>1. WordSize \in Nat /\ w \in Seq(Bytes0)
  BY DEF AbiOK, Words
<1> QED
  BY <1>1, BytesOfFront

\* Six words and what follows them.
SixAnd(a1, a2, a3, a4, a5, a6, rest) == a1 \o a2 \o a3 \o a4 \o a5 \o a6 \o rest

\* What is read off them.
ReadsSix(b, a3, a5, a6, rest) ==
  /\ b \in Seq(Bytes0) /\ Len(b) = 6 * WordSize + Len(rest)
  /\ Bytes(b, 2 * WordSize, WordSize) = a3
  /\ Bytes(b, 4 * WordSize, WordSize) = a5
  /\ Bytes(b, 5 * WordSize, WordSize) = a6
  /\ \A n \in Nat : Bytes(b, 6 * WordSize, n) = Bytes(rest, 0, n)

\* The tuple of getProviderInfo, word for word.
LEMMA SixWords ==
  ASSUME AbiOK, NEW a1 \in Words, NEW a2 \in Words, NEW a3 \in Words, NEW a4 \in Words,
         NEW a5 \in Words, NEW a6 \in Words, NEW rest \in Seq(Bytes0)
  PROVE  ReadsSix(SixAnd(a1, a2, a3, a4, a5, a6, rest), a3, a5, a6, rest)
<1> DEFINE W == WordSize
           p2 == a1 \o a2
           p3 == p2 \o a3
           p4 == p3 \o a4
           p5 == p4 \o a5
           p6 == p5 \o a6
<1>0. /\ W \in Nat /\ a1 \in Seq(Bytes0) /\ Len(a1) = W
      /\ 2 * W \in Nat /\ 3 * W \in Nat /\ 4 * W \in Nat /\ 5 * W \in Nat /\ 6 * W \in Nat
      /\ W + W = 2 * W /\ 2 * W + W = 3 * W /\ 3 * W + W = 4 * W /\ 4 * W + W = 5 * W
      /\ 5 * W + W = 6 * W
      /\ 3 * W <= 4 * W /\ 3 * W <= 5 * W /\ 3 * W <= 6 * W /\ 5 * W <= 6 * W
  BY DEF AbiOK, Words
<1>1. p2 \in Seq(Bytes0) /\ Len(p2) = 2 * W
  <2>1. /\ p2 \in Seq(Bytes0) /\ Len(p2) = W + W
        /\ Bytes(p2, W, W) = a2
    BY <1>0, WordAppended, Zenon
  <2> HIDE DEF p2
  <2> QED
    BY <1>0, <2>1
<1> HIDE DEF p2
<1>2. /\ p3 \in Seq(Bytes0) /\ Len(p3) = 3 * W
      /\ Bytes(p3, 2 * W, W) = a3
  <2>1. /\ p3 \in Seq(Bytes0) /\ Len(p3) = 2 * W + W
        /\ Bytes(p3, 2 * W, W) = a3
    BY <1>0, <1>1, WordAppended, Zenon
  <2> HIDE DEF p3
  <2> QED
    BY <1>0, <1>1, <2>1
<1> HIDE DEF p3
<1>3. /\ p4 \in Seq(Bytes0) /\ Len(p4) = 4 * W
      /\ Bytes(p4, 2 * W, W) = a3
  <2>1. /\ p4 \in Seq(Bytes0) /\ Len(p4) = 3 * W + W
        /\ Bytes(p4, 3 * W, W) = a4
    BY <1>0, <1>2, WordAppended, Zenon
  <2>2. Bytes(p4, 2 * W, W) = Bytes(p3, 2 * W, W)
    BY <1>0, <1>2, WordKept
  <2> HIDE DEF p4
  <2> QED
    BY <1>0, <1>2, <2>1, <2>2
<1> HIDE DEF p4
<1>4. /\ p5 \in Seq(Bytes0) /\ Len(p5) = 5 * W
      /\ Bytes(p5, 2 * W, W) = a3
      /\ Bytes(p5, 4 * W, W) = a5
  <2>1. /\ p5 \in Seq(Bytes0) /\ Len(p5) = 4 * W + W
        /\ Bytes(p5, 4 * W, W) = a5
    BY <1>0, <1>3, WordAppended, Zenon
  <2>2. Bytes(p5, 2 * W, W) = Bytes(p4, 2 * W, W)
    BY <1>0, <1>3, WordKept
  <2> HIDE DEF p5
  <2> QED
    BY <1>0, <1>3, <2>1, <2>2
<1> HIDE DEF p5
<1>5. /\ p6 \in Seq(Bytes0) /\ Len(p6) = 6 * W
      /\ Bytes(p6, 2 * W, W) = a3
      /\ Bytes(p6, 4 * W, W) = a5
      /\ Bytes(p6, 5 * W, W) = a6
  <2>1. /\ p6 \in Seq(Bytes0) /\ Len(p6) = 5 * W + W
        /\ Bytes(p6, 5 * W, W) = a6
    BY <1>0, <1>4, WordAppended, Zenon
  <2>2. Bytes(p6, 2 * W, W) = Bytes(p5, 2 * W, W)
    BY <1>0, <1>4, WordKept
  <2>3. Bytes(p6, 4 * W, W) = Bytes(p5, 4 * W, W)
    BY <1>0, <1>4, WordKept
  <2> HIDE DEF p6
  <2> QED
    BY <1>0, <1>4, <2>1, <2>2, <2>3
<1> DEFINE b == SixAnd(a1, a2, a3, a4, a5, a6, rest)
<1>6. b = p6 \o rest
  BY DEF p2, p3, p4, p5, SixAnd
<1> HIDE DEF p6, b
<1>7. b \in Seq(Bytes0) /\ Len(b) = 6 * W + Len(rest)
  BY <1>5, <1>6, ConcatProperties
<1>8. /\ Bytes(b, 2 * W, W) = a3 /\ Bytes(b, 4 * W, W) = a5
      /\ Bytes(b, 5 * W, W) = a6
  <2>1. Bytes(p6 \o rest, 2 * W, W) = Bytes(p6, 2 * W, W)
    BY <1>0, <1>5, BytesOfFront
  <2>2. Bytes(p6 \o rest, 4 * W, W) = Bytes(p6, 4 * W, W)
    BY <1>0, <1>5, BytesOfFront
  <2>3. Bytes(p6 \o rest, 5 * W, W) = Bytes(p6, 5 * W, W)
    BY <1>0, <1>5, BytesOfFront
  <2> QED
    BY <1>5, <1>6, <2>1, <2>2, <2>3
<1>9. \A n \in Nat : Bytes(b, 6 * W, n) = Bytes(rest, 0, n)
  BY <1>5, <1>6, BytesOfBack
<1> QED
  BY <1>7, <1>8, <1>9 DEF ReadsSix, b

\* Any number written down is a word, and ends in its last byte.
LEMMA WordType ==
  ASSUME AbiOK, NEW v \in Nat
  PROVE  Word(v) \in Words /\ (v \in Bytes0 => Word(v)[WordSize] = v)
<1>0. Base \in Nat \ {0} /\ WordSize \in Nat \ {0}
  BY DEF AbiOK
<1>1. PICK r \in [0..WordSize -> Nat] :
        /\ r[0] = v /\ \A k \in 1..WordSize : r[k] = r[k - 1] \div Base
        /\ Word(v) = [i \in 1..WordSize |-> r[WordSize - i] % Base]
  BY WordIs
<1>2. \A i \in 1..WordSize : r[WordSize - i] % Base \in Bytes0
  <2>1. ASSUME NEW i \in 1..WordSize
        PROVE  r[WordSize - i] % Base \in Bytes0
    <3>1. WordSize - i \in 0..WordSize
      BY <1>0
    <3>2. r[WordSize - i] \in Nat
      BY <3>1
    <3> QED
      BY <1>0, <3>2 DEF Bytes0
  <2> QED
    BY <2>1
<1>3. Word(v) \in Words
  BY <1>1, <1>2 DEF Words
<1>4. ASSUME v \in Bytes0
      PROVE  Word(v)[WordSize] = v
  <2>1. WordSize \in 1..WordSize /\ WordSize - WordSize = 0
    BY <1>0
  <2>2. Word(v)[WordSize] = v % Base
    BY <1>1, <2>1
  <2>3. 0 * Base + v = v /\ v \in 0..(Base - 1) /\ 0 \in Nat
    BY <1>0, <1>4 DEF Bytes0
  <2>4. (0 * Base + v) % Base = v
    BY <1>0, <2>3, LastByteOff, Zenon
  <2> QED
    BY <2>2, <2>3, <2>4
<1> QED
  BY <1>3, <1>4

\* The decoder of the tuple of getProviderInfo, for every load, flag, declared
\* length and rest of the buffer.
LEMMA ProviderAlwaysDecoded ==
  ASSUME AbiOK, NEW load \in WordValues, NEW active \in Bytes0,
         NEW declared \in WordValues, NEW rest \in Seq(Bytes0)
  PROVE  ProviderDecoded(load, active, declared, rest)
<1> DEFINE W == WordSize
           R == Len(rest)
           b == Word(5 * W) \o Word(0) \o Word(load) \o Word(0)
                  \o Word(active) \o Word(declared) \o rest
           endpoints == {s \in {SubSeq(rest, 1, n) : n \in 0..R} :
                           Len(s) = declared /\ Utf8(s)}
           decoded == DecodeProviderInfo(b)
           e == Bytes(b, 6 * W, declared)
           Good == declared <= R /\ Utf8(e)
           loaded == IF load > LenMax THEN LenMax ELSE load
<1>0. /\ W \in Nat \ {0} /\ R \in Nat /\ 5 * W \in Nat /\ 6 * W \in Nat /\ 4 * W \in Nat
      /\ 2 * W \in Nat /\ active \in Nat /\ load \in Nat /\ declared \in Nat
      /\ 4 * W + W = 5 * W
  BY FittingWord DEF AbiOK, Bytes0
<1>1. /\ Word(5 * W) \in Words /\ Word(0) \in Words /\ Word(load) \in Words
      /\ Word(active) \in Words /\ Word(declared) \in Words
      /\ Word(active)[W] = active
  BY <1>0, WordType
<1>2. PICK c : c = b
  OBVIOUS
<1>3. /\ c \in Seq(Bytes0) /\ Len(c) = 6 * W + R
      /\ Bytes(c, 2 * W, W) = Word(load)
      /\ Bytes(c, 4 * W, W) = Word(active)
      /\ Bytes(c, 5 * W, W) = Word(declared)
      /\ \A n \in Nat : Bytes(c, 6 * W, n) = Bytes(rest, 0, n)
  <2>1. PICK a1 \in Words, a2 \in Words, a3 \in Words, a5 \in Words, a6 \in Words :
          /\ a1 = Word(5 * W) /\ a2 = Word(0) /\ a3 = Word(load)
          /\ a5 = Word(active) /\ a6 = Word(declared)
    BY <1>1
  <2>2. c = SixAnd(a1, a2, a3, a2, a5, a6, rest)
    BY <1>2, <2>1 DEF SixAnd
  <2> HIDE DEF b
  <2>3. ReadsSix(c, a3, a5, a6, rest)
    BY <2>2, SixWords
  <2> QED
    BY <2>1, <2>3 DEF ReadsSix
<1>4. WordAt(c, 2 * W) = load /\ WordAt(c, 5 * W) = declared
  BY <1>3, FittingWord DEF WordAt
<1>5. c[5 * W] = active
  <2>1. W \in 1..W
    BY <1>0
  <2>2. Bytes(c, 4 * W, W)[W] = ByteAt(c, 4 * W + W)
    <3>1. PICK from : from = 4 * W
      OBVIOUS
    <3>2. from \in Nat /\ W \in Nat /\ c \in Seq(Bytes0)
      BY <1>0, <1>3, <3>1
    <3>3. Bytes(c, from, W)[W] = ByteAt(c, from + W)
      BY <2>1, <3>2, ByteOfBytes
    <3>4. QED
      BY <3>1, <3>3
  <2>3. 5 * W \in 1..Len(c)
    BY <1>0, <1>3
  <2> QED
    BY <1>0, <1>1, <1>3, <2>2, <2>3 DEF ByteAt
<1>6. \A n \in 0..R : SubSeq(rest, 1, n) = Bytes(rest, 0, n)
                      /\ Len(SubSeq(rest, 1, n)) = n
  <2>1. ASSUME NEW n \in 0..R
        PROVE  SubSeq(rest, 1, n) = Bytes(rest, 0, n) /\ Len(Bytes(rest, 0, n)) = n
    <3>1. n \in Nat /\ 0 \in Nat
      BY <1>0
    <3> QED
      BY <3>1, BytesOfAll, BytesIs
  <2> QED
    BY <2>1
<1> HIDE DEF b, e
<1>7. e = Bytes(rest, 0, declared)
  BY <1>0, <1>2, <1>3 DEF e
<1>8. endpoints = IF Good THEN {e} ELSE {}
  <2>1. \A n \in 0..R : Len(SubSeq(rest, 1, n)) = declared <=> n = declared
    BY <1>6
  <2>2. declared <= R => declared \in 0..R /\ SubSeq(rest, 1, declared) = e
    BY <1>0, <1>6, <1>7
  <2>3. CASE Good
    <3>1. e \in endpoints
      BY <2>1, <2>2, <2>3
    <3>2. \A s \in endpoints : s = e
      BY <2>1, <2>2, <2>3
    <3> HIDE DEF endpoints
    <3> QED
      BY <2>3, <3>1, <3>2
  <2>4. CASE ~Good
    <3>1. ASSUME NEW n \in 0..R, Len(SubSeq(rest, 1, n)) = declared,
                 Utf8(SubSeq(rest, 1, n))
          PROVE  FALSE
      <4>1. n = declared /\ declared <= R
        BY <1>0, <2>1, <3>1
      <4>2. SubSeq(rest, 1, n) = e
        BY <2>2, <4>1
      <4>3. Utf8(e)
        BY <3>1, <4>2
      <4> QED
        BY <2>4, <4>1, <4>3
    <3>2. endpoints = {}
      BY <3>1
    <3> QED
      BY <2>4, <3>2
  <2> QED
    BY <2>3, <2>4
<1> HIDE DEF endpoints
<1>9. decoded = IF Good
                THEN Decoded([endpoint |-> e, load |-> loaded, active |-> active # 0])
                ELSE Error
  <2>1. Len(c) - 6 * W = R /\ ~(Len(c) < 6 * W)
    BY <1>0, <1>3
  <2> DEFINE len == AbiLenBounded(declared, R)
  <2>2. decoded = IF ~len.ok \/ ~Utf8(Bytes(c, 6 * W, len.value)) THEN Error
                  ELSE Decoded([endpoint |-> Bytes(c, 6 * W, len.value),
                                     load |-> loaded, active |-> active # 0])
    <3> HIDE DEF W
    <3> QED
      BY <1>2, <1>4, <1>5, <2>1, Zenon DEF DecodeProviderInfo, W
  <2>3. len = IF declared > R THEN Error ELSE Decoded(declared)
    BY DEF AbiLenBounded
  <2>4. ~Error.ok /\ Decoded(declared).ok /\ Decoded(declared).value = declared
    BY DEF Error, Decoded
  <2> HIDE DEF len, decoded
  <2>5. CASE declared > R
    <3>1. ~len.ok /\ ~Good
      BY <1>0, <2>3, <2>4, <2>5
    <3> QED
      BY <2>2, <3>1, Zenon
  <2>6. CASE ~(declared > R)
    <3>1. len.ok /\ len.value = declared /\ declared <= R
      BY <1>0, <2>3, <2>4, <2>6
    <3>2. Bytes(c, 6 * W, len.value) = e
      BY <1>2, <3>1 DEF e
    <3>3. Good <=> Utf8(e)
      BY <3>1
    <3> HIDE DEF Good, loaded
    <3> QED
      BY <2>2, <3>1, <3>2, <3>3, Zenon
  <2> QED
    BY <2>5, <2>6
<1> HIDE DEF Good
<1> DEFINE v == [endpoint |-> e, load |-> loaded, active |-> active # 0]
<1>10. v.endpoint = e /\ v.load = loaded /\ (v.active <=> active # 0)
  OBVIOUS
<1> HIDE DEF v
<1>11. Decoded(v).ok /\ Decoded(v).value = v /\ ~Error.ok
  BY DEF Decoded, Error
<1>12. decoded = IF Good THEN Decoded(v) ELSE Error
  BY <1>9 DEF v
<1>13. /\ IF decoded.ok THEN endpoints = {decoded.value.endpoint} ELSE endpoints = {}
       /\ decoded.ok => /\ decoded.value.active <=> active # 0
                        /\ \/ decoded.value.load = load
                           \/ load > LenMax /\ decoded.value.load = LenMax
  <2> HIDE DEF decoded
  <2>1. CASE Good
    BY <1>8, <1>10, <1>11, <1>12, <2>1
  <2>2. CASE ~Good
    BY <1>8, <1>11, <1>12, <2>2
  <2> QED
    BY <2>1, <2>2
<1> QED
  BY <1>13, Zenon DEF ProviderDecoded, b, endpoints

\* DecodersAgree: the decoders accept what is an encoding, return its value and
\* refuse everything else, for every buffer and every tuple.
THEOREM DecodersAlwaysAgree == Spec => []DecodersAgree
<1> USE AbiAssumption, InputsAssumption
<1>1. ASSUME Init
      PROVE  DecodersAgree
  <2>1. ASSUME input.kind = "buffer"
        PROVE  ArraysDecoded(input.bytes) /\ StringDecoded(input.bytes)
    <3>1. BufferInit
      BY <1>1, <2>1, KindOfInput
    <3>2. PICK b \in UpTo(MaxBuffer, Byte) : input = [kind |-> "buffer", bytes |-> b]
      BY <3>1 DEF BufferInit
    <3>3. PICK k \in 0..MaxBuffer : b \in [1..k -> Bytes0]
      BY DEF UpTo, Byte, Bytes0
    <3>4. b \in Seq(Bytes0) /\ Len(b) = k
      BY <3>3 DEF BuffersOK
    <3>5. IsBuffer(b)
      BY <3>4 DEF IsBuffer, BuffersOK
    <3>6. Len(b) <= LenMax + WordSize
      BY <3>4 DEF BuffersOK, AbiOK
    <3>7. AddressSize \in 1..WordSize /\ WordSize \in 1..WordSize
      BY DEF AbiOK
    <3>8. ArraysDecoded(b)
      <4>1. Agrees(DecodeArray(b, AddressSize), ArraysIn(b, AddressSize))
        BY <3>5, <3>7, ArrayDecoded
      <4>2. Agrees(DecodeArray(b, WordSize), ArraysIn(b, WordSize))
        BY <3>5, <3>7, ArrayDecoded
      <4> QED
        BY <4>1, <4>2, Zenon
           DEF ArraysDecoded, DecodeAddressArray, DecodeBytes32Array
    <3>9. StringDecoded(b)
      BY <3>5, <3>6, StringAlwaysDecoded
    <3>10. input.bytes = b
      BY <3>2
    <3> QED
      BY <3>8, <3>9, <3>10
  <2>2. ASSUME input.kind = "tuple"
        PROVE  ProviderDecoded(input.load, input.active, input.declared, input.rest)
    <3>1. TupleInit
      BY <1>1, <2>2, KindOfInput
    <3>2. PICK r \in UpTo(MaxTail, Byte), l, d \in WordValues, a \in Byte :
            input = [kind |-> "tuple", load |-> l, active |-> a, declared |-> d, rest |-> r]
      BY <3>1, Zenon DEF TupleInit
    <3>3. PICK k \in 0..MaxTail : r \in [1..k -> Bytes0]
      BY DEF UpTo, Byte, Bytes0
    <3>4. r \in Seq(Bytes0) /\ a \in Bytes0
      <4>1. k \in Nat
        BY DEF BuffersOK
      <4>2. r \in Seq(Bytes0)
        BY <3>3, <4>1
      <4> QED
        BY <4>2 DEF Byte, Bytes0
    <3>5. ProviderDecoded(l, a, d, r)
      BY <3>4, ProviderAlwaysDecoded
    <3>6. input.load = l /\ input.active = a /\ input.declared = d /\ input.rest = r
      BY <3>2
    <3> QED
      BY <3>5, <3>6
  <2> QED
    BY <2>1, <2>2 DEF DecodersAgree
<1>2. DecodersAgree /\ [Next]_input => DecodersAgree'
  <2> SUFFICES ASSUME DecodersAgree, [Next]_input
               PROVE  DecodersAgree'
    OBVIOUS
  <2>1. CASE input' = input
    BY <2>1 DEF DecodersAgree
  <2>2. CASE input'.kind = "date"
    BY <2>2 DEF DecodersAgree
  <2> QED
    BY <2>1, <2>2, InputStep
<1> QED
  BY <1>1, <1>2, PTL DEF Spec
-----------------------------------------------------------------------------
(* The calendar.  A day is counted from a 1st of March: it is day doy of a *)
(* year that ends with a February, which is year yoe of an era of 400.     *)

\* The quotients that civil_date computes with.
LEMMA DivSmall ==
  ASSUME NEW n \in Int
  PROVE  /\ n \div 4 \in Int /\ 4 * (n \div 4) <= n /\ n <= 4 * (n \div 4) + 3
         /\ n \div 100 \in Int /\ 100 * (n \div 100) <= n /\ n <= 100 * (n \div 100) + 99
<1>1. n \div 4 \in Int /\ 4 * (n \div 4) <= n /\ n <= 4 * (n \div 4) + 3
  BY SMT
<1>2. n \div 100 \in Int /\ 100 * (n \div 100) <= n /\ n <= 100 * (n \div 100) + 99
  BY SMT
<1> QED
  BY <1>1, <1>2, Zenon

\* What the quotients of civil_date are: the number, but for a rest.
LEMMA Div365 ==
  ASSUME NEW n \in Int
  PROVE  n \div 365 \in Int /\ 365 * (n \div 365) <= n /\ n <= 365 * (n \div 365) + 364
BY SMT

\* In four years.
LEMMA Div1460 ==
  ASSUME NEW n \in Int
  PROVE  n \div 1460 \in Int /\ 1460 * (n \div 1460) <= n /\ n <= 1460 * (n \div 1460) + 1459
BY SMT

\* In a century.
LEMMA Div36524 ==
  ASSUME NEW n \in Int
  PROVE  n \div 36524 \in Int /\ 36524 * (n \div 36524) <= n
         /\ n <= 36524 * (n \div 36524) + 36523
BY SMT

\* In an era, its last day left out.
LEMMA Div146096 ==
  ASSUME NEW n \in Int
  PROVE  n \div 146096 \in Int /\ 146096 * (n \div 146096) <= n
         /\ n <= 146096 * (n \div 146096) + 146095
BY SMT

\* In an era.
LEMMA Div146097 ==
  ASSUME NEW n \in Int
  PROVE  n \div 146097 \in Int /\ 146097 * (n \div 146097) <= n
         /\ n <= 146097 * (n \div 146097) + 146096
BY SMT

\* YearOfEra finds the year of the era a day is in: one that started by then,
\* and the next did not.
LEMMA YearArithmetic ==
  ASSUME NEW d \in Int, NEW a \in Int, NEW b \in Int, NEW c \in Int, NEW y \in Int,
         NEW p \in Int, NEW q \in Int, NEW r \in Int, NEW s \in Int,
         0 <= d, d <= 146096,
         1460 * a <= d, d <= 1460 * a + 1459,
         36524 * b <= d, d <= 36524 * b + 36523,
         146096 * c <= d, d <= 146096 * c + 146095,
         365 * y <= d - a + b - c, d - a + b - c <= 365 * y + 364,
         4 * p <= y, y <= 4 * p + 3, 100 * q <= y, y <= 100 * q + 99,
         4 * r <= y + 1, y + 1 <= 4 * r + 3, 100 * s <= y + 1, y + 1 <= 100 * s + 99
  PROVE  /\ 0 <= y /\ y <= 399 /\ 365 * y + p - q <= d
         /\ d < 365 * (y + 1) + r - s \/ y = 399
<1>1. 0 <= y /\ y <= 399
  BY SMTT(20)
<1>2. 0 <= a /\ a <= 100 /\ 0 <= b /\ b <= 4 /\ 0 <= c /\ c <= 1
  BY SMT
<1>3. 365 * y + p - q <= d
  BY <1>1, <1>2, SMTT(30)
<1>4. d < 365 * (y + 1) + r - s \/ y = 399
  BY <1>1, <1>2, SMTT(30)
<1> QED
  BY <1>1, <1>3, <1>4, SMT

YearStart(y) == 365 * y + y \div 4 - y \div 100

\* civil_date finds the year that a day of an era is in.
LEMMA YearFound ==
  ASSUME NEW doe \in Int, 0 <= doe, doe <= 146096, NEW y, y = YearOfEra(doe)
  PROVE  /\ y \in Int /\ 0 <= y /\ y <= 399
         /\ YearStart(y) <= doe
         /\ doe < YearStart(y + 1) \/ y = 399
<1> DEFINE a == doe \div 1460
           b == doe \div 36524
           c == doe \div 146096
           k == doe - a + b - c
           p == y \div 4
           q == y \div 100
           r == (y + 1) \div 4
           s == (y + 1) \div 100
<1>1. a \in Int /\ 1460 * a <= doe /\ doe <= 1460 * a + 1459
  BY Div1460, SMT
<1>2. b \in Int /\ 36524 * b <= doe /\ doe <= 36524 * b + 36523
  BY Div36524, SMT
<1>3. c \in Int /\ 146096 * c <= doe /\ doe <= 146096 * c + 146095
  BY Div146096, SMT
<1>4. y = k \div 365
  BY SMT DEF YearOfEra
<1> HIDE DEF a, b, c
<1>5. k \in Int
  BY <1>1, <1>2, <1>3
<1>6. y \in Int /\ 365 * y <= k /\ k <= 365 * y + 364
  <2> HIDE DEF k
  <2> QED
    BY <1>4, <1>5, Div365, SMT
<1>7. y + 1 \in Int
  BY <1>6
<1>8. /\ p \in Int /\ 4 * p <= y /\ y <= 4 * p + 3
      /\ q \in Int /\ 100 * q <= y /\ y <= 100 * q + 99
  BY <1>6, DivSmall, SMT
<1>9. /\ r \in Int /\ 4 * r <= y + 1 /\ y + 1 <= 4 * r + 3
      /\ s \in Int /\ 100 * s <= y + 1 /\ y + 1 <= 100 * s + 99
  BY <1>7, DivSmall, SMT
<1>10. /\ YearStart(y) = 365 * y + p - q
       /\ YearStart(y + 1) = 365 * (y + 1) + r - s
  BY SMT DEF YearStart
<1> HIDE DEF p, q, r, s
<1>11. /\ 0 <= y /\ y <= 399 /\ 365 * y + p - q <= doe
       /\ doe < 365 * (y + 1) + r - s \/ y = 399
  <2>1. 365 * y <= doe - a + b - c /\ doe - a + b - c <= 365 * y + 364
    BY <1>6 DEF k
  <2> HIDE DEF k
  <2> QED
    BY <1>1, <1>2, <1>3, <1>6, <1>8, <1>9, <2>1, YearArithmetic, SMTT(40)
<1> QED
  BY <1>6, <1>10, <1>11, SMT

\* The first day of year y of an era: p is y divided by 4, q by 100.
FirstDay(y, p, q) == 365 * y + p - q

\* A year of the era, with the quotients that its start and its end take.
IsYear(y, p, q, r, s) ==
  /\ 0 <= y /\ y <= 399
  /\ 4 * p <= y /\ y <= 4 * p + 3 /\ 100 * q <= y /\ y <= 100 * q + 99
  /\ 4 * r <= y + 1 /\ y + 1 <= 4 * r + 3 /\ 100 * s <= y + 1 /\ y + 1 <= 100 * s + 99

\* Its February has 29 days.
Leaps(y, r, s) == y + 1 = 4 * r /\ (y + 1 # 100 * s \/ y = 399)

\* It is as long as the calendar says of the year its February is in.
LEMMA YearLength ==
  ASSUME NEW y \in Int, NEW p \in Int, NEW q \in Int, NEW r \in Int, NEW s \in Int,
         IsYear(y, p, q, r, s)
  PROVE  /\ y # 399 /\ Leaps(y, r, s) => FirstDay(y + 1, r, s) = FirstDay(y, p, q) + 366
         /\ y # 399 /\ ~Leaps(y, r, s) => FirstDay(y + 1, r, s) = FirstDay(y, p, q) + 365
<1> SUFFICES ASSUME y # 399
             PROVE  /\ Leaps(y, r, s) => FirstDay(y + 1, r, s) = FirstDay(y, p, q) + 366
                    /\ ~Leaps(y, r, s) => FirstDay(y + 1, r, s) = FirstDay(y, p, q) + 365
  OBVIOUS
<1>1. r = p \/ (r = p + 1 /\ y + 1 = 4 * r)
  BY SMT DEF IsYear
<1>2. s = q \/ (s = q + 1 /\ y + 1 = 100 * s)
  BY SMT DEF IsYear
<1>3. CASE y + 1 = 4 * r /\ y + 1 # 100 * s
  <2>1. r = p + 1 /\ s = q
    BY <1>2, <1>3, SMT DEF IsYear
  <2> QED
    BY <1>3, <2>1, SMT DEF Leaps, FirstDay
<1>4. CASE y + 1 = 100 * s
  <2>1. r = p + 1 /\ s = q + 1
    BY <1>4, SMT DEF IsYear
  <2> QED
    BY <1>4, <2>1, SMT DEF Leaps, FirstDay
<1>5. CASE y + 1 # 4 * r
  <2>1. r = p /\ s = q
    BY <1>1, <1>2, <1>5, SMT DEF IsYear
  <2> QED
    BY <1>5, <2>1, SMT DEF Leaps, FirstDay
<1> QED
  BY <1>3, <1>4, <1>5, SMT

\* The last year of an era.
LEMMA LastYear ==
  ASSUME NEW p \in Int, NEW q \in Int, NEW r \in Int, NEW s \in Int, IsYear(399, p, q, r, s)
  PROVE  FirstDay(399, p, q) + 366 = 146097 /\ Leaps(399, r, s)
BY SMT DEF IsYear, FirstDay, Leaps

\* Two years that both hold a day are one, and their order is that of their
\* days.
LEMMA YearsInOrder ==
  ASSUME NEW y \in Int, NEW p \in Int, NEW q \in Int, NEW r \in Int, NEW s \in Int,
         NEW z \in Int, NEW t \in Int, NEW u \in Int, NEW v \in Int, NEW w \in Int,
         IsYear(y, p, q, r, s), IsYear(z, t, u, v, w), y < z
  PROVE  FirstDay(y + 1, r, s) <= FirstDay(z, t, u)
BY SMTT(30) DEF IsYear, FirstDay

\* Day n is day d of era e, in year y of it.
IsDay(n, e, d, y, p, q, r, s) ==
  /\ n + 719468 = 146097 * e + d
  /\ 0 <= d /\ d <= 146096
  /\ IsYear(y, p, q, r, s)
  /\ FirstDay(y, p, q) <= d
  /\ d < FirstDay(y + 1, r, s) \/ y = 399

\* The day after a day is in the same year, in the next one or in the next era.
LEMMA DaysInOrder ==
  ASSUME NEW n \in Int, NEW e \in Int, NEW d \in Int, NEW y \in Int, NEW p \in Int, NEW q \in Int,
         NEW r \in Int, NEW s \in Int,
         NEW m \in Int, NEW f \in Int, NEW g \in Int, NEW z \in Int, NEW t \in Int, NEW u \in Int,
         NEW v \in Int, NEW w \in Int,
         IsDay(n, e, d, y, p, q, r, s), IsDay(m, f, g, z, t, u, v, w), m = n + 1
  PROVE  \/ f = e /\ g = d + 1 /\ z = y /\ t = p /\ u = q
         \/ /\ f = e /\ g = d + 1 /\ z = y + 1 /\ y # 399
            /\ g = FirstDay(z, t, u) /\ g = FirstDay(y + 1, r, s)
         \/ f = e + 1 /\ g = 0 /\ z = 0 /\ t = 0 /\ u = 0 /\ y = 399
<1>0. /\ IsYear(y, p, q, r, s) /\ IsYear(z, t, u, v, w)
      /\ 0 <= d /\ d <= 146096 /\ FirstDay(y, p, q) <= d
      /\ 0 <= g /\ g <= 146096 /\ FirstDay(z, t, u) <= g
      /\ d < FirstDay(y + 1, r, s) \/ y = 399
      /\ g < FirstDay(z + 1, v, w) \/ z = 399
      /\ 146097 * e + d + 1 = 146097 * f + g
  BY SMT DEF IsDay
<1>1. CASE d = 146096
  <2>1. f = e + 1 /\ g = 0
    BY <1>0, <1>1, SMT
  <2>2. y = 399
    BY <1>0, <1>1, SMT DEF IsYear, FirstDay
  <2>3. z = 0 /\ t = 0 /\ u = 0
    BY <1>0, <2>1, SMT DEF IsYear, FirstDay
  <2> QED
    BY <1>0, <1>1, <2>1, <2>2, <2>3, SMT
<1>2. CASE d < 146096
  <2>1. f = e /\ g = d + 1
    BY <1>0, <1>2, SMT
  <2>2. CASE z < y
    <3>1. FirstDay(z + 1, v, w) <= FirstDay(y, p, q)
      BY <1>0, <2>2, YearsInOrder, SMT
    <3> QED
      BY <1>0, <2>1, <2>2, <3>1, SMT DEF IsYear, FirstDay
  <2>3. CASE z = y
    <3>1. t = p /\ u = q
      BY <1>0, <2>3, SMT DEF IsYear, FirstDay
    <3> QED
      BY <1>0, <2>1, <2>3, <3>1, SMT
  <2>4. CASE y < z
    <3>1. FirstDay(y + 1, r, s) <= FirstDay(z, t, u)
      BY <1>0, <2>4, YearsInOrder, SMT
    <3>2. y # 399
      BY <1>0, <2>4, SMT DEF IsYear, FirstDay
    <3>3. g = FirstDay(z, t, u) /\ g = FirstDay(y + 1, r, s)
      BY <1>0, <2>1, <3>1, <3>2, SMT DEF FirstDay
    <3>4. z = y + 1
      BY <1>0, <2>4, <3>3, SMT DEF IsYear, FirstDay
    <3> QED
      BY <1>0, <2>1, <3>2, <3>3, <3>4, SMT
  <2> QED
    BY <2>2, <2>3, <2>4, SMT
<1> QED
  BY <1>0, <1>1, <1>2, SMT

\* The parts of a day.
Era(n) == (n + 719468) \div 146097
DayOfEra(n) == n + 719468 - Era(n) * 146097
YearInEra(n) == YearOfEra(DayOfEra(n))
DayOfYear(n) == DayOfEra(n) - YearStart(YearInEra(n))

\* A day has an era, a year in it and a day in that year.
LEMMA PartsOfDay ==
  ASSUME NEW n \in Nat
  PROVE  /\ Era(n) \in Int /\ DayOfEra(n) \in Int /\ YearInEra(n) \in Int
         /\ \E p, q, r, s \in Int :
              /\ IsDay(n, Era(n), DayOfEra(n), YearInEra(n), p, q, r, s)
              /\ DayOfYear(n) = DayOfEra(n) - FirstDay(YearInEra(n), p, q)
<1> DEFINE x == n + 719468
           e == Era(n)
           d == DayOfEra(n)
           y == YearInEra(n)
           p == y \div 4
           q == y \div 100
           r == (y + 1) \div 4
           s == (y + 1) \div 100
<1>1. x \in Int
  BY SMT
<1>2. e = x \div 146097 /\ d = x - e * 146097 /\ y = YearOfEra(d)
      /\ DayOfYear(n) = d - YearStart(y)
  BY SMT DEF Era, DayOfEra, YearInEra, DayOfYear
<1> HIDE DEF e, d, y
<1>3. e \in Int /\ 146097 * e <= x /\ x <= 146097 * e + 146096
  <2> HIDE DEF x
  <2> QED
    BY <1>1, <1>2, Div146097, SMT
<1>4. d \in Int /\ 0 <= d /\ d <= 146096 /\ x = 146097 * e + d
  BY <1>1, <1>2, <1>3, SMT
<1>5. /\ y \in Int /\ 0 <= y /\ y <= 399
      /\ YearStart(y) <= d
      /\ d < YearStart(y + 1) \/ y = 399
  BY <1>2, <1>4, YearFound, SMT
<1>6. y + 1 \in Int
  BY <1>5, SMT
<1>7. /\ p \in Int /\ 4 * p <= y /\ y <= 4 * p + 3
      /\ q \in Int /\ 100 * q <= y /\ y <= 100 * q + 99
  BY <1>5, DivSmall, SMT
<1>8. /\ r \in Int /\ 4 * r <= y + 1 /\ y + 1 <= 4 * r + 3
      /\ s \in Int /\ 100 * s <= y + 1 /\ y + 1 <= 100 * s + 99
  BY <1>6, DivSmall, SMT
<1>9. /\ YearStart(y) = FirstDay(y, p, q)
      /\ YearStart(y + 1) = FirstDay(y + 1, r, s)
  BY SMT DEF YearStart, FirstDay
<1> HIDE DEF p, q, r, s
<1>10. IsYear(y, p, q, r, s)
  BY <1>5, <1>7, <1>8, SMT DEF IsYear, FirstDay
<1>11. IsDay(n, e, d, y, p, q, r, s)
  BY <1>4, <1>5, <1>9, <1>10, SMT DEF IsDay, x
<1>12. DayOfYear(n) = d - FirstDay(y, p, q)
  BY <1>2, <1>9, SMT
<1>13. \E pp, qq, rr, ss \in Int :
         IsDay(n, e, d, y, pp, qq, rr, ss) /\ DayOfYear(n) = d - FirstDay(y, pp, qq)
  BY <1>7, <1>8, <1>11, <1>12, SMT
<1> QED
  BY <1>3, <1>4, <1>5, <1>13, SMT DEF e, d, y

\* The rests that tell the leap years.
LEMMA Mod4 ==
  ASSUME NEW n \in Int
  PROVE  n % 4 = n - 4 * (n \div 4) /\ n \div 4 \in Int /\ n % 4 \in 0..3
<1>1. n % 4 = n - 4 * (n \div 4) /\ n \div 4 \in Int
  BY SMT
<1>2. n % 4 \in 0..3
  BY SMT
<1> QED
  BY <1>1, <1>2, SMT

\* Of a century.
LEMMA Mod100 ==
  ASSUME NEW n \in Int
  PROVE  n % 100 = n - 100 * (n \div 100) /\ n \div 100 \in Int /\ n % 100 \in 0..99
<1>1. n % 100 = n - 100 * (n \div 100) /\ n \div 100 \in Int
  BY SMT
<1>2. n % 100 \in 0..99
  BY SMT
<1> QED
  BY <1>1, <1>2, SMT

\* Of an era.
LEMMA Mod400 ==
  ASSUME NEW n \in Int
  PROVE  n % 400 = n - 400 * (n \div 400) /\ n \div 400 \in Int /\ n % 400 \in 0..399
<1>1. n % 400 = n - 400 * (n \div 400) /\ n \div 400 \in Int
  BY SMT
<1>2. n % 400 \in 0..399
  BY SMT
<1> QED
  BY <1>1, <1>2, SMT

\* The number of year y of era e.
YearOf(e, y) == y + e * 400

\* Which Februaries have 29 days.
LEMMA LeapYears ==
  ASSUME NEW n \in Int, NEW e \in Int, NEW d \in Int, NEW y \in Int, NEW p \in Int, NEW q \in Int,
         NEW r \in Int, NEW s \in Int,
         IsDay(n, e, d, y, p, q, r, s)
  PROVE  Leap(YearOf(e, y) + 1) <=> Leaps(y, r, s)
<1> DEFINE year == YearOf(e, y) + 1
<1>1. year \in Int /\ year = y + e * 400 + 1
  BY SMT DEF YearOf
<1> HIDE DEF year
<1>year. IsYear(y, p, q, r, s)
  BY SMT DEF IsDay
<1> DEFINE m == year % 4
           c == year % 100
           x == year % 400
           k == year \div 4
           i == year \div 100
           j == year \div 400
<1>2. m = year - 4 * k /\ k \in Int /\ m \in 0..3
  BY <1>1, Mod4, SMT
<1>3. c = year - 100 * i /\ i \in Int /\ c \in 0..99
  BY <1>1, Mod100, SMT
<1>4. x = year - 400 * j /\ j \in Int /\ x \in 0..399
  BY <1>1, Mod400, SMT
<1>6. Leap(year) <=> m = 0 /\ (c # 0 \/ x = 0)
  BY SMT DEF Leap
<1> HIDE DEF m, c, x, k, i, j
<1>7. m = 0 <=> y + 1 = 4 * r
  BY <1>year, <1>1, <1>2, SMT DEF IsYear
<1>8. c = 0 <=> y + 1 = 100 * s
  BY <1>year, <1>1, <1>3, SMT DEF IsYear
<1>9. x = 0 <=> y = 399
  BY <1>year, <1>1, <1>4, SMT DEF IsYear
<1> QED
  BY <1>6, <1>7, <1>8, <1>9, SMT DEF Leaps, year

Year(n) == YearOf(Era(n), YearInEra(n))

\* How year and day go on.
LEMMA DayStep ==
  ASSUME NEW n \in Nat
  PROVE  LET leap == Leap(Year(n) + 1)
             day == DayOfYear(n)
         IN /\ Year(n) \in Int /\ day \in Int /\ 0 <= day /\ day <= 365
            /\ \/ /\ Year(n + 1) = Year(n) /\ DayOfYear(n + 1) = day + 1
                  /\ day <= 363 \/ (day = 364 /\ leap)
               \/ /\ Year(n + 1) = Year(n) + 1 /\ DayOfYear(n + 1) = 0
                  /\ day = 365 \/ (day = 364 /\ ~leap)
<1>0. PICK m \in Nat : m = n + 1
  BY SMT
<1> DEFINE e == Era(n)
           d == DayOfEra(n)
           y == YearInEra(n)
           D == DayOfYear(n)
           f == Era(m)
           g == DayOfEra(m)
           z == YearInEra(m)
           E == DayOfYear(m)
           year == Year(n) + 1
           leap == Leap(year)
<1>1. e \in Int /\ d \in Int /\ y \in Int
  BY PartsOfDay, Zenon
<1>2. PICK p, q, r, s \in Int : IsDay(n, e, d, y, p, q, r, s) /\ D = d - FirstDay(y, p, q)
  BY PartsOfDay, Zenon
<1>3. f \in Int /\ g \in Int /\ z \in Int
  BY PartsOfDay, Zenon
<1>4. PICK t, u, v, w \in Int : IsDay(m, f, g, z, t, u, v, w) /\ E = g - FirstDay(z, t, u)
  BY PartsOfDay, Zenon
<1>i. n \in Int /\ m \in Int
  BY <1>0, SMT
<1>n. IsDay(n, e, d, y, p, q, r, s)
  BY <1>2, Zenon
<1>m. IsDay(m, f, g, z, t, u, v, w)
  BY <1>4, Zenon
<1>5. Year(n) = YearOf(e, y) /\ Year(m) = YearOf(f, z) /\ year = YearOf(e, y) + 1
  BY Zenon DEF Year
<1> HIDE DEF e, d, y, D, f, g, z, E, year
<1>6. leap <=> Leaps(y, r, s)
  <2>1. year = YearOf(e, y) + 1
    BY <1>5, Zenon
  <2>2. Leap(YearOf(e, y) + 1) <=> Leaps(y, r, s)
    BY <1>1, <1>i, <1>n, LeapYears, Zenon
  <2> QED
    BY <2>1, <2>2, Zenon
<1> HIDE DEF leap
<1>7. /\ 0 <= d /\ d <= 146096 /\ IsYear(y, p, q, r, s) /\ FirstDay(y, p, q) <= d
      /\ d < FirstDay(y + 1, r, s) \/ y = 399
      /\ 0 <= g /\ g <= 146096 /\ IsYear(z, t, u, v, w)
      /\ g < FirstDay(z + 1, v, w) \/ z = 399
  BY <1>2, <1>4, SMT DEF IsDay
<1>8. \/ f = e /\ g = d + 1 /\ z = y /\ t = p /\ u = q
      \/ /\ f = e /\ g = d + 1 /\ z = y + 1 /\ y # 399
         /\ g = FirstDay(z, t, u) /\ g = FirstDay(y + 1, r, s)
      \/ f = e + 1 /\ g = 0 /\ z = 0 /\ t = 0 /\ u = 0 /\ y = 399
  BY <1>0, <1>1, <1>3, <1>i, <1>n, <1>m, DaysInOrder, ZenonT(40)
<1> DEFINE from == FirstDay(y, p, q)
           to == FirstDay(y + 1, r, s)
<1>9. from \in Int /\ to \in Int /\ D = d - from /\ from <= d /\ (d < to \/ y = 399)
  BY <1>1, <1>2, <1>7, SMT DEF FirstDay
<1>10. /\ y = 399 => from + 366 = 146097 /\ leap
       /\ y # 399 /\ leap => to = from + 366
       /\ y # 399 /\ ~leap => to = from + 365
  <2>1. y = 399 => from + 366 = 146097 /\ Leaps(y, r, s)
    BY <1>7, LastYear, SMT
  <2>2. IsYear(y, p, q, r, s)
    BY <1>7, SMT
  <2>3. /\ y # 399 /\ Leaps(y, r, s) => to = from + 366
        /\ y # 399 /\ ~Leaps(y, r, s) => to = from + 365
    BY <1>1, <2>2, YearLength, SMT
  <2> HIDE DEF from, to
  <2> QED
    BY <1>6, <2>1, <2>3, SMT
<1>11. D \in Int /\ 0 <= D /\ D <= 365
  <2> HIDE DEF from, to
  <2> QED
    BY <1>1, <1>7, <1>9, <1>10, SMT
<1>12. ASSUME f = e /\ g = d + 1 /\ z = y /\ t = p /\ u = q
       PROVE  Year(m) = Year(n) /\ E = D + 1 /\ (D <= 363 \/ (D = 364 /\ leap))
  <2>1. Year(m) = Year(n) /\ E = D + 1
    BY <1>1, <1>2, <1>3, <1>4, <1>5, <1>12, SMT DEF YearOf, FirstDay
  <2>2. g < to \/ y = 399
    <3>1. v = r /\ w = s
      BY <1>1, <1>3, <1>7, <1>12, SMT DEF IsYear
    <3> QED
      BY <1>7, <1>12, <3>1, SMT
  <2> HIDE DEF from, to
  <2>3. D <= 363 \/ (D = 364 /\ leap)
    BY <1>1, <1>7, <1>9, <1>10, <1>11, <1>12, <2>2, SMT
  <2> QED
    BY <2>1, <2>3, Zenon
<1>13. ASSUME /\ f = e /\ g = d + 1 /\ z = y + 1 /\ y # 399
              /\ g = FirstDay(z, t, u) /\ g = to
       PROVE  Year(m) = Year(n) + 1 /\ E = 0 /\ (D = 365 \/ (D = 364 /\ ~leap))
  <2>1. Year(m) = Year(n) + 1 /\ E = 0
    BY <1>1, <1>3, <1>4, <1>5, <1>13, SMT DEF YearOf, FirstDay
  <2> HIDE DEF from, to
  <2>2. D = 365 \/ (D = 364 /\ ~leap)
    BY <1>1, <1>9, <1>10, <1>11, <1>13, SMT
  <2> QED
    BY <2>1, <2>2, Zenon
<1>14. ASSUME f = e + 1, g = 0, z = 0, t = 0, u = 0, y = 399
       PROVE  Year(m) = Year(n) + 1 /\ E = 0 /\ D = 365
  <2>1. Year(m) = Year(n) + 1 /\ E = 0
    BY <1>1, <1>3, <1>4, <1>5, <1>14, SMT DEF YearOf, FirstDay
  <2> HIDE DEF from, to
  <2>d. d = 146096
    BY <1>0, <1>1, <1>2, <1>3, <1>4, <1>14, SMT DEF IsDay
  <2>2. D = 365
    BY <1>1, <1>9, <1>10, <1>11, <1>14, <2>d, SMT
  <2> QED
    BY <2>1, <2>2, Zenon
<1>15. Year(n) \in Int
  BY <1>1, <1>5, SMT DEF YearOf
<1>16. \/ Year(m) = Year(n) /\ E = D + 1 /\ (D <= 363 \/ (D = 364 /\ leap))
       \/ Year(m) = Year(n) + 1 /\ E = 0 /\ (D = 365 \/ (D = 364 /\ ~leap))
  BY <1>8, <1>12, <1>13, <1>14, Zenon
<1> QED
  BY <1>0, <1>11, <1>15, <1>16, Zenon DEF D, E, leap, year

\* Month mp of a year that starts in March, with the days before it.
IsMonth(day, mp, w) ==
  /\ mp \in Int /\ w \in Int
  /\ 153 * mp <= 5 * day + 2 /\ 5 * day + 2 <= 153 * mp + 152
  /\ 5 * w <= 153 * mp + 2 /\ 153 * mp + 2 <= 5 * w + 4

\* The days of month mp, of February in a leap year.
Length(mp) == IF mp = 11 THEN 29 ELSE IF mp \in {1, 3, 6, 8} THEN 30 ELSE 31

\* The months, from March on, and their first days.
LEMMA MonthTable ==
  ASSUME NEW day \in Int, 0 <= day, day <= 365, NEW mp, NEW w, IsMonth(day, mp, w)
  PROVE  \/ mp = 0 /\ w = 0 /\ day <= 30
         \/ mp = 1 /\ w = 31 /\ 31 <= day /\ day <= 60
         \/ mp = 2 /\ w = 61 /\ 61 <= day /\ day <= 91
         \/ mp = 3 /\ w = 92 /\ 92 <= day /\ day <= 121
         \/ mp = 4 /\ w = 122 /\ 122 <= day /\ day <= 152
         \/ mp = 5 /\ w = 153 /\ 153 <= day /\ day <= 183
         \/ mp = 6 /\ w = 184 /\ 184 <= day /\ day <= 213
         \/ mp = 7 /\ w = 214 /\ 214 <= day /\ day <= 244
         \/ mp = 8 /\ w = 245 /\ 245 <= day /\ day <= 274
         \/ mp = 9 /\ w = 275 /\ 275 <= day /\ day <= 305
         \/ mp = 10 /\ w = 306 /\ 306 <= day /\ day <= 336
         \/ mp = 11 /\ w = 337 /\ 337 <= day
BY SMTT(30) DEF IsMonth

\* The next day is in the same month, or is the first of the next.
LEMMA MonthsInOrder ==
  ASSUME NEW day \in Int, 0 <= day, day <= 364, NEW mp, NEW w, IsMonth(day, mp, w),
         NEW np, NEW x, IsMonth(day + 1, np, x)
  PROVE  \/ np = mp /\ x = w /\ day - w + 1 < Length(mp)
         \/ np = mp + 1 /\ x = day + 1 /\ day - w + 1 = Length(mp) /\ mp <= 10
<1>1. mp \in Int /\ w \in Int /\ np \in Int /\ x \in Int
  BY SMT DEF IsMonth
<1>2. \/ mp = 0 /\ w = 0 /\ day <= 30
      \/ mp = 1 /\ w = 31 /\ 31 <= day /\ day <= 60
      \/ mp = 2 /\ w = 61 /\ 61 <= day /\ day <= 91
      \/ mp = 3 /\ w = 92 /\ 92 <= day /\ day <= 121
      \/ mp = 4 /\ w = 122 /\ 122 <= day /\ day <= 152
      \/ mp = 5 /\ w = 153 /\ 153 <= day /\ day <= 183
      \/ mp = 6 /\ w = 184 /\ 184 <= day /\ day <= 213
      \/ mp = 7 /\ w = 214 /\ 214 <= day /\ day <= 244
      \/ mp = 8 /\ w = 245 /\ 245 <= day /\ day <= 274
      \/ mp = 9 /\ w = 275 /\ 275 <= day /\ day <= 305
      \/ mp = 10 /\ w = 306 /\ 306 <= day /\ day <= 336
      \/ mp = 11 /\ w = 337 /\ 337 <= day
  BY MonthTable, SMT
<1>3. \/ /\ 153 * mp <= 5 * (day + 1) + 2 /\ 5 * (day + 1) + 2 <= 153 * mp + 152
         /\ np = mp /\ x = w
      \/ /\ 5 * (day + 1) + 2 > 153 * mp + 152 /\ np = mp + 1
  BY <1>1, SMT DEF IsMonth
<1>4. CASE np = mp /\ x = w
  BY <1>1, <1>2, <1>4, SMTT(30) DEF Length, IsMonth
<1>5. CASE 5 * (day + 1) + 2 > 153 * mp + 152 /\ np = mp + 1
  BY <1>1, <1>2, <1>5, SMTT(30) DEF Length, IsMonth
<1> QED
  BY <1>3, <1>4, <1>5, SMT

\* The month's number, and the calendar year it is in.
Month(mp) == IF mp < 10 THEN mp + 3 ELSE mp - 9
YearOfMonth(y, mp) == IF Month(mp) <= 2 THEN y + 1 ELSE y

\* The month of the table is as long as the calendar says.
LEMMA MonthLength ==
  ASSUME NEW y \in Int, NEW mp \in Int, 0 <= mp, mp <= 11
  PROVE  /\ mp # 11 => LastDay(YearOfMonth(y, mp), Month(mp)) = Length(mp)
         /\ mp = 11 => LastDay(YearOfMonth(y, mp), Month(mp)) =
                         IF Leap(y + 1) THEN 29 ELSE 28
<1>1. Month(mp) \in 1..12 /\ (Month(mp) = 2 <=> mp = 11)
      /\ (Month(mp) \in {4, 6, 9, 11} <=> mp \in {1, 3, 6, 8})
  BY SMT DEF Month
<1>2. mp = 11 => YearOfMonth(y, mp) = y + 1
  BY <1>1, SMT DEF YearOfMonth
<1> QED
  BY <1>1, <1>2, SMT DEF Length, LastDay

\* civil_date from year and day.
DateOf(y, day) ==
  LET mp == (5 * day + 2) \div 153 IN
  [year |-> YearOfMonth(y, mp), month |-> Month(mp), day |-> day - (153 * mp + 2) \div 5 + 1]

\* civil_date is the date of the parts of the day.
LEMMA CivilIsDate ==
  ASSUME NEW n \in Nat
  PROVE  Civil(n) = DateOf(Year(n), DayOfYear(n))
BY SMT DEF Civil, DateOf, Year, DayOfYear, YearOf, Era, DayOfEra, YearInEra, YearStart,
           YearOfMonth, Month

\* A date, field by field.
Dates == [year : Int, month : Int, day : Int]

\* Dates are the same field by field.
LEMMA SameDate ==
  ASSUME NEW d \in Dates, NEW e \in Dates, d.year = e.year, d.month = e.month, d.day = e.day
  PROVE  d = e
BY SMT DEF Dates

\* A date with another month.
LEMMA MonthField ==
  ASSUME NEW d \in Dates, NEW v \in Int
  PROVE  LET e == [d EXCEPT !.month = v] IN
         e \in Dates /\ e.year = d.year /\ e.month = v /\ e.day = d.day
BY SMT DEF Dates

\* A date with another day.
LEMMA DayField ==
  ASSUME NEW d \in Dates
  PROVE  LET e == [d EXCEPT !.day = 1] IN
         e \in Dates /\ e.year = d.year /\ e.month = d.month /\ e.day = 1
BY SMT DEF Dates

\* The first of the month after a date of the same year.
LEMMA NewMonth ==
  ASSUME NEW d \in Dates, ~(d.day < LastDay(d.year, d.month)), d.month < 12
  PROVE  DayAfter(d) = [year |-> d.year, month |-> d.month + 1, day |-> 1]
<1> DEFINE m == d.month
           e == [d EXCEPT !.day = 1]
           f == [e EXCEPT !.month = m + 1]
           g == [year |-> d.year, month |-> m + 1, day |-> 1]
<1>1. d.year \in Int /\ m \in Int
  BY SMT DEF Dates
<1>2. e \in Dates /\ e.year = d.year /\ e.month = m /\ e.day = 1
  BY DayField, SMT
<1>3. DayAfter(d) = [e EXCEPT !.month = @ + 1]
  BY SMT DEF DayAfter
<1> HIDE DEF e
<1>4. [e EXCEPT !.month = @ + 1] = f
  BY <1>2, SMT
<1>5. m + 1 \in Int
  BY <1>1, SMT
<1> HIDE DEF m
<1>6. f \in Dates /\ f.year = d.year /\ f.month = m + 1 /\ f.day = 1
  BY <1>2, <1>5, MonthField, Zenon
<1>7. g \in Dates /\ g.year = d.year /\ g.month = m + 1 /\ g.day = 1
  BY <1>1, <1>5, SMT DEF Dates
<1> HIDE DEF f, g
<1>8. f = g
  BY <1>6, <1>7, SameDate, Zenon
<1> QED
  BY <1>3, <1>4, <1>8, SMT DEF g, m

\* The quotients of civil_date are the month and the days before it.
LEMMA MonthFound ==
  ASSUME NEW day \in Int
  PROVE  IsMonth(day, (5 * day + 2) \div 153, (153 * ((5 * day + 2) \div 153) + 2) \div 5)
<1> DEFINE a == 5 * day + 2
           mp == a \div 153
           b == 153 * mp + 2
           w == b \div 5
<1>1. a \in Int
  BY SMT
<1>2. mp \in Int /\ 153 * mp <= a /\ a <= 153 * mp + 152
  <2> HIDE DEF a
  <2> QED
    BY <1>1, SMT
<1> HIDE DEF mp
<1>3. b \in Int
  BY <1>2, SMT
<1>4. w \in Int /\ 5 * w <= b /\ b <= 5 * w + 4
  <2> HIDE DEF b
  <2> QED
    BY <1>3, SMT
<1> HIDE DEF w
<1>5. IsMonth(day, mp, w)
  BY <1>2, <1>4, SMT DEF IsMonth
<1> QED
  BY <1>5, SMT DEF mp, w

\* The first day of the year is a 1st of March, and the last one the end of a
\* February.
LEMMA FirstOfMarch ==
  ASSUME NEW y \in Int
  PROVE  DateOf(y, 0) = [year |-> y, month |-> 3, day |-> 1]
<1>1. (5 * 0 + 2) \div 153 = 0 /\ (153 * 0 + 2) \div 5 = 0
  BY SMT
<1>2. Month(0) = 3 /\ YearOfMonth(y, 0) = y
  BY SMT DEF Month, YearOfMonth
<1> QED
  BY <1>1, <1>2, SMT DEF DateOf

\* The last day of a year that ends with February.
LEMMA EndOfFebruary ==
  ASSUME NEW y \in Int, NEW day \in Int, day \in {364, 365}
  PROVE  DateOf(y, day) = [year |-> y + 1, month |-> 2, day |-> day - 336]
<1>1. (5 * day + 2) \div 153 = 11 /\ (153 * 11 + 2) \div 5 = 337
  BY SMT
<1>2. Month(11) = 2 /\ YearOfMonth(y, 11) = y + 1
  BY SMT DEF Month, YearOfMonth
<1>3. day - 337 + 1 = day - 336
  BY SMT
<1> QED
  BY <1>1, <1>2, <1>3, SMT DEF DateOf

\* Within a year the dates go on as the calendar does.
LEMMA DateStep ==
  ASSUME NEW y \in Int, NEW day \in Int, 0 <= day,
         day <= 363 \/ (day = 364 /\ Leap(y + 1))
  PROVE  DateOf(y, day + 1) = DayAfter(DateOf(y, day))
<1> DEFINE mp == (5 * day + 2) \div 153
           w == (153 * mp + 2) \div 5
           np == (5 * (day + 1) + 2) \div 153
           x == (153 * np + 2) \div 5
           d == DateOf(y, day)
<1>1. IsMonth(day, mp, w) /\ IsMonth(day + 1, np, x)
  BY MonthFound, SMT
<1>2. d = [year |-> YearOfMonth(y, mp), month |-> Month(mp), day |-> day - w + 1]
  BY SMT DEF DateOf
<1>3. DateOf(y, day + 1) =
        [year |-> YearOfMonth(y, np), month |-> Month(np), day |-> (day + 1) - x + 1]
  BY SMT DEF DateOf
<1> HIDE DEF mp, w, np, x, d
<1>4. mp \in Int /\ w \in Int /\ np \in Int /\ x \in Int /\ 0 <= mp /\ mp <= 11
  BY <1>1, SMT DEF IsMonth
<1>5. \/ np = mp /\ x = w /\ day - w + 1 < Length(mp)
      \/ np = mp + 1 /\ x = day + 1 /\ day - w + 1 = Length(mp) /\ mp <= 10
  BY <1>1, MonthsInOrder, SMT
<1>6. /\ mp # 11 => LastDay(YearOfMonth(y, mp), Month(mp)) = Length(mp)
      /\ mp = 11 => LastDay(YearOfMonth(y, mp), Month(mp)) =
                      IF Leap(y + 1) THEN 29 ELSE 28
  BY <1>4, MonthLength, SMT
<1>7. d.year = YearOfMonth(y, mp) /\ d.month = Month(mp) /\ d.day = day - w + 1
  BY <1>2, SMT
<1>8. CASE np = mp /\ x = w /\ day - w + 1 < Length(mp)
  <2>1. mp = 11 => w = 337
    BY <1>1, <1>4, SMT DEF IsMonth
  <2>2. mp = 11 => day - w + 1 < IF Leap(y + 1) THEN 29 ELSE 28
    BY <2>1, <1>4, SMT
  <2>3. d.day < LastDay(d.year, d.month)
    BY <1>6, <1>7, <1>8, <2>2, SMT
  <2>4. DayAfter(d) = [d EXCEPT !.day = @ + 1]
    BY <2>3, SMT DEF DayAfter
  <2>5. (day - w + 1) + 1 = (day + 1) - x + 1
    BY <1>4, <1>8, SMT
  <2>6. [d EXCEPT !.day = @ + 1] =
          [year |-> YearOfMonth(y, mp), month |-> Month(mp), day |-> (day - w + 1) + 1]
    BY <1>2, SMT
  <2> QED
    BY <1>3, <1>8, <2>4, <2>5, <2>6, SMT DEF d
<1>9. CASE np = mp + 1 /\ x = day + 1 /\ day - w + 1 = Length(mp) /\ mp <= 10
  <2>1. ~(d.day < LastDay(d.year, d.month))
    BY <1>4, <1>6, <1>7, <1>9, SMT DEF Length
  <2>2. (day + 1) - x + 1 = 1
    BY <1>4, <1>9, SMT
  <2>3. CASE mp = 9
    <3>1. /\ Month(mp) = 12 /\ Month(np) = 1 /\ YearOfMonth(y, mp) = y
          /\ YearOfMonth(y, np) = y + 1
      BY <1>9, <2>3, SMT DEF Month, YearOfMonth
    <3>2. DayAfter(d) = [year |-> d.year + 1, month |-> 1, day |-> 1]
      BY <1>7, <2>1, <3>1, SMT DEF DayAfter
    <3> QED
      BY <1>3, <1>7, <2>2, <3>1, <3>2, SMT DEF d
  <2>4. CASE mp # 9
    <3>1. /\ Month(mp) < 12 /\ Month(np) = Month(mp) + 1
          /\ YearOfMonth(y, np) = YearOfMonth(y, mp)
      BY <1>4, <1>9, <2>4, SMT DEF Month, YearOfMonth
    <3>2. d \in Dates
      <4>1. YearOfMonth(y, mp) \in Int /\ Month(mp) \in Int /\ day - w + 1 \in Int
        BY <1>4, SMT DEF YearOfMonth, Month
      <4> QED
        BY <1>2, <4>1, SMT DEF Dates
    <3>3. DayAfter(d) = [year |-> d.year, month |-> d.month + 1, day |-> 1]
      BY <1>7, <2>1, <3>1, <3>2, NewMonth, SMT
    <3> QED
      BY <1>3, <1>7, <2>2, <3>1, <3>3, SMT DEF d
  <2> QED
    BY <2>3, <2>4
<1> QED
  BY <1>5, <1>8, <1>9

\* The day after it.
LEMMA EndOfYear ==
  ASSUME NEW y \in Int, NEW day \in Int, day = 365 \/ (day = 364 /\ ~Leap(y + 1))
  PROVE  DateOf(y + 1, 0) = DayAfter(DateOf(y, day))
<1> DEFINE d == DateOf(y, day)
<1>1. d = [year |-> y + 1, month |-> 2, day |-> day - 336]
  BY EndOfFebruary, SMT
<1>2. DateOf(y + 1, 0) = [year |-> y + 1, month |-> 3, day |-> 1]
  BY FirstOfMarch, SMT
<1> HIDE DEF d
<1>3. d.year = y + 1 /\ d.month = 2 /\ d.day = day - 336
  BY <1>1, SMT
<1>4. LastDay(d.year, d.month) = IF Leap(y + 1) THEN 29 ELSE 28
  BY <1>3, SMT DEF LastDay
<1>5. ~(d.day < LastDay(d.year, d.month))
  BY <1>3, <1>4, SMT
<1>6. d \in Dates
  BY <1>1, SMT DEF Dates
<1>7. DayAfter(d) = [year |-> d.year, month |-> d.month + 1, day |-> 1]
  BY <1>3, <1>5, <1>6, NewMonth, SMT
<1> QED
  BY <1>2, <1>3, <1>7, SMT DEF d

\* civil_date of the next day is the day after in the Gregorian calendar.
LEMMA CivilStep ==
  ASSUME NEW n \in Nat
  PROVE  Civil(n + 1) = DayAfter(Civil(n))
<1> DEFINE y == Year(n)
           day == DayOfYear(n)
<1>1. n + 1 \in Nat
  BY SMT
<1>2. /\ Civil(n) = DateOf(y, day)
      /\ Civil(n + 1) = DateOf(Year(n + 1), DayOfYear(n + 1))
  BY <1>1, CivilIsDate, Zenon
<1>3. /\ y \in Int /\ day \in Int /\ 0 <= day /\ day <= 365
      /\ \/ /\ Year(n + 1) = y /\ DayOfYear(n + 1) = day + 1
            /\ day <= 363 \/ (day = 364 /\ Leap(y + 1))
         \/ /\ Year(n + 1) = y + 1 /\ DayOfYear(n + 1) = 0
            /\ day = 365 \/ (day = 364 /\ ~Leap(y + 1))
  BY DayStep, SMT
<1> HIDE DEF y, day
<1> QED
  BY <1>2, <1>3, DateStep, EndOfYear, SMT

\* The first day is 1970-01-01.
LEMMA CivilStart == Civil(0) = Epoch
<1> DEFINE z == 0 + 719468
           era == z \div 146097
           doe == z - era * 146097
           yoe == YearOfEra(doe)
           doy == doe - (365 * yoe + yoe \div 4 - yoe \div 100)
           mp == (5 * doy + 2) \div 153
           m == IF mp < 10 THEN mp + 3 ELSE mp - 9
           y == yoe + era * 400
<1>1. era = 4 /\ doe = 135080
  BY SMT
<1>2. yoe = 369
  BY <1>1, SMT DEF YearOfEra
<1>3. doy = 306
  BY <1>1, <1>2, SMT
<1>4. mp = 10 /\ m = 1 /\ y = 1969
  BY <1>1, <1>2, <1>3, SMT
<1>5. doy - (153 * mp + 2) \div 5 + 1 = 1 /\ (IF m <= 2 THEN y + 1 ELSE y) = 1970
  BY <1>3, <1>4, SMT
<1>6. Civil(0) = [year |-> IF m <= 2 THEN y + 1 ELSE y, month |-> m,
                       day |-> doy - (153 * mp + 2) \div 5 + 1]
  BY SMT DEF Civil
<1> HIDE DEF doy, mp, m, y
<1> QED
  BY <1>4, <1>5, <1>6, SMT DEF Epoch

\* DatesFollowCalendar, for any number of days: what civil_date computes of the
\* days since 1970 is the date that a calendar reaches by counting them one by
\* one, so usage is never counted under another day than today's.
THEOREM DatesAlwaysFollowCalendar == Spec => []DatesFollowCalendar
<1> DEFINE Inv == input.kind = "date" => input.days \in Nat /\ DatesFollowCalendar
<1>1. Init => Inv
  <2> SUFFICES ASSUME Init, input.kind = "date"
               PROVE  input.days \in Nat /\ DatesFollowCalendar
    OBVIOUS
  <2>a. ~PathInit /\ ~BodyInit /\ ~ChatInit /\ ~BatchInit
    BY DEF PathInit, BodyInit, ChatInit, BatchInit
  <2>b1. ~ProvidersInit
    BY DEF ProvidersInit
  <2>b2. ~ResultsInit
    <3>1. ASSUME NEW a, NEW r, NEW q,
                 input = [kind |-> "results", answers |-> a, results |-> r, required |-> q]
          PROVE  FALSE
      BY <3>1
    <3> QED
      BY <3>1, Zenon DEF ResultsInit
  <2>b3. ~EndpointInit
    BY DEF EndpointInit
  <2>c. ~BufferInit /\ ~TupleInit
    BY DEF BufferInit, TupleInit
  <2>d. ~BootInit /\ ~ReadInit /\ ~WalletInit
    BY DEF BootInit, ReadInit, WalletInit
  <2>1. DateInit
    BY <2>a, <2>b1, <2>b2, <2>b3, <2>c, <2>d DEF Init
  <2>2. input.days = 0 /\ input.date = Epoch
    BY <2>1 DEF DateInit
  <2> QED
    BY <2>2, CivilStart, SMT DEF DatesFollowCalendar, DateIs
<1>2. Inv /\ [Next]_input => Inv'
  <2>1. CASE NextDay
    <3>1. /\ input.kind = "date" /\ input'.kind = "date" /\ input'.days = input.days + 1
          /\ input'.date = DayAfter(input.date)
      BY <2>1 DEF NextDay
    <3>2. Inv => /\ input.days \in Nat /\ Civil(input.days) = input.date
      BY <3>1 DEF DatesFollowCalendar, DateIs
    <3>3. Inv => Civil(input'.days) = input'.date /\ input'.days \in Nat
      BY <3>1, <3>2, CivilStep, SMT
    <3> QED
      BY <3>1, <3>3 DEF DatesFollowCalendar, DateIs
  <2>2. CASE UNCHANGED input
    BY <2>2 DEF DatesFollowCalendar
  <2> QED
    BY <2>1, <2>2 DEF Next
<1>3. Inv => DatesFollowCalendar
  BY DEF DatesFollowCalendar
<1> QED
  BY <1>1, <1>2, <1>3, PTL DEF Spec

-----------------------------------------------------------------------------

\* What a number in the environment can be.
Numbers == Nat \cup {NotSet, NotParsed}

\* The routes of a boot, and what stands before them.
LEMMA RouteGuards ==
  /\ \A r \in FreeRoutes : r.path \in {"health", "models", "metrics"} /\ r.guard = "none"
  /\ \A r \in BatchReads : r.path = "batch_id" /\ r.guard = "none"
  /\ \A g : \A r \in WorkRoutes(g) : r.path \in {"chat", "batch"} /\ r.guard = g
BY DEF FreeRoutes, BatchReads, WorkRoutes, Route

\* What a boot serves is what its parts say.
LEMMA ServingFields ==
  ASSUME NEW r, NEW s, NEW b, NEW l
  PROVE  LET g == Serving(r, s, b, l) IN
         g.up /\ g.routes = r /\ g.store = s /\ g.bind = b /\ g.limits = l
BY DEF Serving

\* What does not serve is not up.
LEMMA NotServingIsDown == ~NotServing.up
BY DEF NotServing

\* BootFailsClosedFor: in every environment, run_marketplace and build_router
\* serve unpaid and unauthenticated inference to this machine and under the
\* dev profile only, build_router_with takes no placeholder for a payee, and
\* main.rs keeps money in memory under the dev profile only.
THEOREM BootAlwaysFailsClosed ==
  ASSUME NEW env
  PROVE  BootFailsClosedFor(env)
<1> DEFINE g == Boot(env)
           unpaid == \E r \in g.routes : r \in WorkRoutes("none")
           paid == \E r \in g.routes : r.guard \in {"x402", "key or x402"}
<1> SUFFICES ASSUME g.up
             PROVE  /\ unpaid => g.bind = "loopback" /\ env.dev = "1"
                    /\ paid => {env.wsalt, env.treasury} \cap {"zero", "placeholder"} = {}
                    /\ env.mode # "library" /\ g.store = "volatile" => env.dev = "1"
  BY DEF BootFailsClosedFor
<1>1. CASE env.mode \in {Unset, "", "marketplace"}
  <2> DEFINE store == OpenMarketplaceStore(env)
             open == ResolveOpenChat(env.open, env.dev)
             bind == IF env.bind = Unset THEN "loopback" ELSE env.bind
             routes == FreeRoutes \cup
                         (IF open THEN WorkRoutes("none") \cup BatchReads ELSE {})
  <2>1. g = RunMarketplace(env)
    BY <1>1 DEF Boot, Unset
  <2>2. /\ ~(open /\ ~OpenChatBindAllowed(bind))
        /\ g = Serving(routes, store, bind, Default)
    BY <2>1, NotServingIsDown DEF RunMarketplace
  <2> HIDE DEF g
  <2>3. g.routes = routes /\ g.store = store /\ g.bind = bind
    BY <2>2, ServingFields
  <2>4. unpaid => open
    BY <2>3, RouteGuards
  <2>5. ~paid
    BY <2>3, RouteGuards
  <2>6. open => env.dev = "1" /\ bind = "loopback"
    BY <2>2 DEF ResolveOpenChat, OpenChatBindAllowed
  <2>7. store = "volatile" => env.dev = "1"
    BY DEF OpenMarketplaceStore, ResolveMarketplaceStore
  <2> QED
    BY <2>3, <2>4, <2>5, <2>6, <2>7
<1>2. CASE env.mode = "local-proxy"
  <2> DEFINE routes == {Route("health", "none"), Route("work", "key")}
                         \cup (IF EnvFlag(env.member) = "on"
                               THEN {Route("member_key", "idp")} ELSE {})
  <2>1. g = RunLocalProxy(env)
    BY <1>2 DEF Boot, Unset
  <2>2. \E b : g = Serving(routes, "durable", b, Limits(env))
    BY <2>1, NotServingIsDown DEF RunLocalProxy
  <2> HIDE DEF g
  <2>3. g.routes = routes /\ g.store = "durable"
    BY <2>2, ServingFields
  <2>4. \A r \in routes : r.path \in {"health", "work", "member_key"}
                          /\ r.guard \in {"none", "key", "idp"}
    BY DEF Route
  <2> HIDE DEF routes
  <2>5. ~unpaid /\ ~paid
    BY <2>3, <2>4, RouteGuards
  <2> QED
    BY <2>3, <2>5
<1>3. CASE env.mode = "library"
  <2> DEFINE guard == IF env.keys THEN "key or x402" ELSE "x402"
             routes == FreeRoutes \cup {Route("usage", "bearer")} \cup BatchReads
                         \cup WorkRoutes(guard)
  <2>1. g = BuildRouterWith(env)
    BY <1>3 DEF Boot, Unset
  <2>2. /\ MoneyAddressOk(env.wsalt) /\ MoneyAddressOk(env.treasury)
        /\ g = Serving(routes, IF env.keys THEN "given" ELSE "volatile", env.bind, Default)
    BY <2>1, NotServingIsDown DEF BuildRouterWith
  <2> HIDE DEF g
  <2>3. g.routes = routes
    <3> HIDE DEF routes
    <3> QED
      BY <2>2, ServingFields
  <2>4. guard # "none"
    OBVIOUS
  <2>5. Route("usage", "bearer").path = "usage"
    BY DEF Route
  <2> HIDE DEF guard
  <2>6. ~unpaid
    BY <2>3, <2>4, <2>5, RouteGuards
  <2>7. {env.wsalt, env.treasury} \cap {"zero", "placeholder"} = {}
    BY <2>2 DEF MoneyAddressOk
  <2> QED
    BY <1>3, <2>6, <2>7
<1>4. CASE env.mode \notin {Unset, "", "marketplace", "local-proxy", "library"}
  <2>1. g = NotServing
    BY <1>4 DEF Boot
  <2> QED
    BY <2>1, NotServingIsDown
<1> QED
  BY <1>1, <1>2, <1>3, <1>4

\* LimitsInForceFor: a local proxy that run_local_proxy brings up enforces
\* what was configured, whatever the numbers are, and a limit of zero is a
\* refused start but for the pool, where it means none.
THEOREM LimitsAlwaysInForce ==
  ASSUME BootOK, NEW env, env.numbers \in [NumericSettings -> Numbers]
  PROVE  LimitsInForceFor(env)
<1> SUFFICES ASSUME env.mode = "local-proxy", Boot(env).up,
                    NEW f \in SettingsRead(env)
             PROVE  /\ f # "pool" => Boot(env).limits[f] >= 1
                    /\ env.numbers[f] # NotSet =>
                         Boot(env).limits[f] = env.numbers[f]
  BY DEF LimitsInForceFor
<1> DEFINE l == Limits(env)
           raw == env.numbers[f]
           least == IF f = "pool" THEN 0 ELSE 1
           n == EnvNumber(raw, Default[f], least)
<1>1. Boot(env) = RunLocalProxy(env)
  BY DEF Boot, Unset
<1>2. l[f] # NotParsed /\ \E r, s, b : Boot(env) = Serving(r, s, b, l)
  BY <1>1, NotServingIsDown DEF RunLocalProxy
<1>3. Boot(env).limits = l
  BY <1>2, ServingFields
<1>4. f \in NumericSettings
  BY DEF SettingsRead
<1>5. raw \in Numbers /\ Default[f] \in Nat \ {0}
  BY <1>4 DEF BootOK
<1>6. RpsMax \in Nat /\ Default["rps"] <= RpsMax
  BY DEF BootOK
<1>7. l[f] = IF f = "rps" THEN MemberRps(n) ELSE n
  BY <1>4 DEF Limits
<1> HIDE DEF l
<1>8. l[f] = n
  BY <1>2, <1>7 DEF MemberRps
<1>9. /\ raw = NotSet => n = Default[f]
      /\ raw # NotSet /\ raw >= least => n = raw
      /\ raw # NotSet /\ ~(raw >= least) => n = NotParsed
  BY DEF EnvNumber
<1> HIDE DEF n
<1>10. f # "pool" => n >= 1
  BY <1>2, <1>5, <1>8, <1>9 DEF Numbers
<1>11. raw # NotSet => n = raw
  BY <1>2, <1>8, <1>9
<1> QED
  BY <1>3, <1>8, <1>10, <1>11

\* CustodyAsConfigured: from_env builds a wallet only with a spend cap, and
\* over a key file only where no KMS key is named and the opt-in is given.
THEOREM CustodyAlwaysAsConfigured ==
  ASSUME BootOK, NEW env, env.cap \in Numbers, env.epoch \in Numbers
  PROVE  CustodyAsConfigured(env)
<1> DEFINE w == WalletFromEnv(env)
           e == EpochBlocks(env.epoch)
<1> SUFFICES ASSUME w.up
             PROVE  /\ w.custody = "file" => ~Given(env.kms) /\ env.allowLocal = "1"
                    /\ w.ceiling = env.cap /\ w.ceiling >= 0
                    /\ w.epochBlocks >= 1
  BY DEF CustodyAsConfigured
<1>1. \A c : LET v == Wallet(c, env.cap, e) IN
               v.custody = c /\ v.ceiling = env.cap /\ v.epochBlocks = e
  BY DEF Wallet
<1>2. /\ env.cap \notin {NotSet, NotParsed}
      /\ \/ Given(env.kms) /\ w = Wallet("kms", env.cap, e)
         \/ /\ ~Given(env.kms) /\ env.allowLocal = "1"
            /\ w = Wallet("file", env.cap, e)
  BY NotServingIsDown DEF WalletFromEnv
<1>3. env.cap >= 0
  BY <1>2 DEF Numbers
<1>4. e >= 1
  <2>1. Default["epoch"] \in Nat \ {0}
    BY DEF BootOK
  <2> QED
    BY <2>1 DEF EpochBlocks, Numbers
<1> HIDE DEF w, e
<1> QED
  BY <1>1, <1>2, <1>3, <1>4

\* A slot before and after a restart.
LEMMA SlotsRestored ==
  ASSUME NEW c, NEW states, NEW old,
         NEW record, record = BatchRecordOf(c, states),
         NEW restored, restored = IntoRecord(FromRecord(record, old))
  PROVE  /\ DOMAIN record.slots = DOMAIN states /\ DOMAIN restored.slots = DOMAIN states
         /\ \A i \in DOMAIN states :
              /\ record.slots[i].state = states[i]
              /\ restored.slots[i] = [state |-> states[i], response |-> None]
         /\ record.payer_api_key_id = (IF c \in Bearers THEN c ELSE None)
         /\ restored.payer_api_key_id = record.payer_api_key_id
         /\ record.read_token_hash = (IF c \in Tokens402 THEN HashKeyId(c) ELSE None)
         /\ restored.read_token_hash = (IF old THEN None ELSE record.read_token_hash)
<1> DEFINE row == FromRecord(record, old)
<1>1. /\ record.payer_api_key_id = (IF c \in Bearers THEN c ELSE None)
      /\ record.read_token_hash = (IF c \in Tokens402 THEN HashKeyId(c) ELSE None)
      /\ record.slots = [i \in DOMAIN states |-> Slot(states[i])]
  BY DEF BatchRecordOf
<1>2. \A s : Slot(s).state = s
  BY DEF Slot
<1>3. /\ row.owner = record.payer_api_key_id
      /\ row.token = (IF old THEN None ELSE record.read_token_hash)
      /\ row.states = [i \in DOMAIN record.slots |-> record.slots[i].state]
  BY DEF FromRecord
<1>4. /\ restored.payer_api_key_id = row.owner /\ restored.read_token_hash = row.token
      /\ restored.slots = [i \in DOMAIN row.states |->
                             [state |-> row.states[i], response |-> None]]
  BY DEF IntoRecord
<1> HIDE DEF row
<1>5. /\ DOMAIN record.slots = DOMAIN states
      /\ \A i \in DOMAIN states : record.slots[i].state = states[i]
  BY <1>1, <1>2
<1>6. DOMAIN row.states = DOMAIN states /\ \A i \in DOMAIN states : row.states[i] = states[i]
  BY <1>3, <1>5
<1>7. /\ DOMAIN restored.slots = DOMAIN states
      /\ \A i \in DOMAIN states :
           restored.slots[i] = [state |-> states[i], response |-> None]
  BY <1>4, <1>6
<1> QED
  BY <1>1, <1>3, <1>4, <1>5, <1>7

\* Whether a record is readable depends on the credential that is presented.
LEMMA ReadsAnswer ==
  ASSUME NEW record, NEW headers
  PROVE  /\ GetBatch(record, headers).found <=> BatchReadAuthorized(record, headers)
         /\ GetBatchOutput(record, headers).found
              <=> BatchReadAuthorized(record, headers)
         /\ BatchReadAuthorized(record, headers) =>
              /\ GetBatch(record, headers) = BuildStatus(record)
              /\ GetBatchOutput(record, headers).rows = record.slots
BY DEF GetBatch, GetBatchOutput, BuildStatus, NotFound

\* ReadsAreTheSubmitters: for any number of slots, batch_read_authorized
\* opens a batch to the credential of its submitter and to no other, and a
\* restart, which loses the response bodies, changes neither who may read nor
\* the progress that is reported.
THEOREM ReadsAlwaysTheSubmitters ==
  ASSUME ReadsOK, NEW c \in Credentials, NEW S, NEW states \in Seq(S), NEW old \in BOOLEAN,
         NEW headers, headers.bearer \in Credentials \cup {None, Blanks},
         headers.token \in Credentials \cup {None, Blanks}
  PROVE  ReadsAreTheSubmitters(c, states, headers, old)
<1> DEFINE record == BatchRecordOf(c, states)
           restored == IntoRecord(FromRecord(record, old))
           p == Presented(headers)
           owns == \/ headers.bearer = c
                   \/ headers.bearer \in {None, Blanks} /\ headers.token = c
           orphaned == old /\ c \notin Bearers
<1>1. /\ DOMAIN record.slots = DOMAIN states /\ DOMAIN restored.slots = DOMAIN states
      /\ \A i \in DOMAIN states :
           /\ record.slots[i].state = states[i]
           /\ restored.slots[i] = [state |-> states[i], response |-> None]
      /\ record.payer_api_key_id = (IF c \in Bearers THEN c ELSE None)
      /\ restored.payer_api_key_id = record.payer_api_key_id
      /\ record.read_token_hash = (IF c \in Tokens402 THEN HashKeyId(c) ELSE None)
      /\ restored.read_token_hash = (IF old THEN None ELSE record.read_token_hash)
  <2>1. record = BatchRecordOf(c, states)
    OBVIOUS
  <2>2. restored = IntoRecord(FromRecord(record, old))
    OBVIOUS
  <2> HIDE DEF record, restored
  <2> QED
    BY <2>1, <2>2, SlotsRestored
<1> HIDE DEF record, restored
<1>2. /\ Credentials = Bearers \cup Tokens402 /\ Bearers \cap Tokens402 = {}
      /\ None \notin Credentials /\ Blanks \notin Credentials
      /\ \A d \in Credentials : HashKeyId(d) # None
  BY DEF ReadsOK, Credentials
<1>3. \A d, e : HashKeyId(d) = HashKeyId(e) => d = e
  BY DEF HashKeyId
<1>4. (p \in Credentials \/ p = None) /\ (p = c <=> owns)
  BY <1>2 DEF Presented
<1> HIDE DEF p, owns
<1>5. BatchReadAuthorized(record, headers) <=> owns
  BY <1>1, <1>2, <1>3, <1>4 DEF BatchReadAuthorized, p
<1>6. BatchReadAuthorized(restored, headers) <=> owns /\ ~orphaned
  BY <1>1, <1>2, <1>3, <1>4 DEF BatchReadAuthorized, p
<1>7. BuildStatus(restored) = BuildStatus(record)
  <2>1. Len(restored.slots) = Len(record.slots)
    BY <1>1
  <2>2. \A i \in DOMAIN states : restored.slots[i].state = record.slots[i].state
    <3>1. \A s : [state |-> s, response |-> None].state = s
      OBVIOUS
    <3> QED
      BY <1>1, <3>1, Zenon
  <2>3. \A s : {i \in DOMAIN restored.slots : restored.slots[i].state = s} =
               {i \in DOMAIN record.slots : record.slots[i].state = s}
    BY <1>1, <2>2
  <2> QED
    BY <2>1, <2>3 DEF BuildStatus
<1>8. owns /\ ~orphaned =>
        /\ GetBatch(restored, headers) = GetBatch(record, headers)
        /\ \A i \in DOMAIN states :
             GetBatchOutput(restored, headers).rows[i] =
               [state |-> states[i], response |-> None]
  BY <1>1, <1>5, <1>6, <1>7, ReadsAnswer
<1>9. /\ GetBatch(record, headers).found <=> owns
      /\ GetBatch(restored, headers).found <=> owns /\ ~orphaned
      /\ GetBatchOutput(record, headers).found <=> GetBatch(record, headers).found
  BY <1>5, <1>6, ReadsAnswer
<1> QED
  BY <1>8, <1>9 DEF ReadsAreTheSubmitters, record, restored, owns

\* GatesFailClosed: the four facts above, of every environment and every read,
\* for any numbers, credentials and batch sizes.
THEOREM GatesAlwaysFailClosed == Spec => []GatesFailClosed
<1> USE BootAssumption, ReadsAssumption, InputsAssumption
<1>1. ASSUME Init
      PROVE  GatesFailClosed
  <2>1. ASSUME input.kind = "boot"
        PROVE  BootFailsClosedFor(input.env) /\ LimitsInForceFor(input.env)
    <3>1. PICK e \in MarketplaceBoots \cup ProxyBoots \cup LibraryBoots :
            input = [kind |-> "boot", env |-> e]
      BY <1>1, <2>1, KindOfInput DEF BootInit
    <3>2. input.kind = "boot" /\ input.env = e
      BY <3>1
    <3>3. BootFailsClosedFor(e)
      BY BootAlwaysFailsClosed
    <3>4. LimitsInForceFor(e)
      <4>1. CASE e \in ProxyBoots
        <5>1. e.numbers \in NumberSettings
          BY <4>1 DEF ProxyBoots
        <5>2. e.numbers \in [NumericSettings -> Settings \cup {NotSet}]
          BY <5>1 DEF NumberSettings
        <5>3. Settings \cup {NotSet} \subseteq Numbers
          BY DEF Numbers, InputsOK
        <5>4. e.numbers \in [NumericSettings -> Numbers]
          BY <5>2, <5>3
        <5> QED
          BY <5>4, LimitsAlwaysInForce
      <4>2. CASE e \notin ProxyBoots
        <5>1. e.mode # "local-proxy"
          BY <3>1, <4>2 DEF MarketplaceBoots, LibraryBoots, Unset
        <5> QED
          BY <5>1 DEF LimitsInForceFor
      <4> QED
        BY <4>1, <4>2
    <3> QED
      BY <3>2, <3>3, <3>4
  <2>2. ASSUME input.kind = "read"
        PROVE  ReadsAreTheSubmitters(input.submitter, input.states, input.headers, input.old)
    <3>1. PICK c \in Credentials, s \in UpTo(MaxSlots, SlotStates), o \in BOOLEAN :
            \E b, t \in Credentials \cup {None, Blanks} :
              input = [kind |-> "read", submitter |-> c, states |-> s, old |-> o,
                       headers |-> [bearer |-> b, token |-> t]]
      BY <1>1, <2>2, KindOfInput DEF ReadInit
    <3>2. PICK b \in Credentials \cup {None, Blanks},
               t \in Credentials \cup {None, Blanks} :
            input = [kind |-> "read", submitter |-> c, states |-> s, old |-> o,
                     headers |-> [bearer |-> b, token |-> t]]
      BY <3>1
    <3>3. /\ input.kind = "read" /\ input.submitter = c /\ input.states = s /\ input.old = o
          /\ input.headers.bearer = b /\ input.headers.token = t
      BY <3>2
    <3>4. s \in Seq(SlotStates)
      BY <3>1 DEF UpTo, InputsOK
    <3>5. ReadsAreTheSubmitters(c, s, input.headers, o)
      BY <3>3, <3>4, ReadsAlwaysTheSubmitters
    <3> QED
      BY <3>3, <3>5
  <2>3. ASSUME input.kind = "wallet"
        PROVE  CustodyAsConfigured(input.env)
    <3>1. PICK e \in Wallets : input = [kind |-> "wallet", env |-> e]
      BY <1>1, <2>3, KindOfInput DEF WalletInit
    <3>2. input.kind = "wallet" /\ input.env = e
      BY <3>1
    <3>3. e.cap \in Numbers /\ e.epoch \in Numbers
      BY DEF Wallets, Numbers, InputsOK
    <3>4. CustodyAsConfigured(e)
      BY <3>3, CustodyAlwaysAsConfigured
    <3> QED
      BY <3>2, <3>4
  <2> QED
    BY <2>1, <2>2, <2>3 DEF GatesFailClosed
<1>2. GatesFailClosed /\ [Next]_input => GatesFailClosed'
  <2> SUFFICES ASSUME GatesFailClosed, [Next]_input
               PROVE  GatesFailClosed'
    OBVIOUS
  <2>1. CASE input' = input
    BY <2>1 DEF GatesFailClosed
  <2>2. CASE input'.kind = "date"
    BY <2>2 DEF GatesFailClosed
  <2> QED
    BY <2>1, <2>2, InputStep
<1> QED
  BY <1>1, <1>2, PTL DEF Spec
=============================================================================
