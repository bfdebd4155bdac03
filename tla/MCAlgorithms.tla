---------------------------- MODULE MCAlgorithms ----------------------------
(***************************************************************************)
(* Runs the pure functions on all small inputs.  A state is one input: an  *)
(* initial state each, except for dates, which are counted on day by day.  *)
(***************************************************************************)
EXTENDS MCGates, ProxyRequest, TokenPricing, ProviderChoice, AbiDecode, CivilDate

CONSTANTS
  PathChars, MaxPath,          \* the paths that are tried
  Counts, Values, Caps,        \* numbers in a body; the configured max_tokens
  Prompts, Tokens, Ceilings, Reports,   \* sizes of chats, max_tokens, usage
  MaxBatch,                    \* bound: length of a batch
  Addresses, Bps, Loads, MaxLoad, PoolScores, MaxListed,   \* providers
  MaxBuffer, MaxTail,          \* bounds: bytes of a buffer, behind a tuple
  LastDayCounted               \* bound: days since 1970

\* Numbers in a body, caps, sizes, numbers of tokens and of slots,
\* reputations and loads, and what a number in the environment is set to.
InputsOK ==
  /\ Counts \cup Values \subseteq Int /\ Caps \subseteq Nat
  /\ Prompts \cup Tokens \cup Ceilings \cup Reports \subseteq Nat
  /\ Bps \cup Loads \subseteq Nat /\ MaxLoad \in Nat
  /\ MaxBatch \in Nat /\ MaxSlots \in Nat
  /\ Settings \subseteq Nat \cup {NotSet, NotParsed}

\* A buffer is shorter than a word can say, and but for its offset word than
\* the longest string.
BuffersOK ==
  /\ MaxBuffer \in Nat /\ 0..MaxBuffer \subseteq WordValues
  /\ MaxBuffer <= LenMax + WordSize /\ MaxTail \in Nat

ASSUME InputsAssumption == InputsOK /\ BuffersOK

TraversalChars == {".", "/", "\\", "%", "2", "5", "e", "f", "F", "c"}
SomeCounts == {Absent, NotANumber, 0, 2, 3}
SomeValues == {Absent, Null, NotANumber, 0, 1, 2, 4}
SomeSettings == {NotParsed, 0, 1, 4}
RateOf == [m \in Models |-> IF m = DefaultModel THEN 3 ELSE 2]
SmallDefaults == [f \in NumericSettings \cup {"epoch"} |-> 2]

SmallChats == Chats(UpTo(1, Prompts), Tokens)

PathInit == \E p \in UpTo(MaxPath, PathChars) : input = [kind |-> "path", path |-> p]
BodyInit ==
  \E b \in Bodies(Counts, Values), c \in Caps : input = [kind |-> "body", body |-> b, cap |-> c]
ChatInit ==
  \E c \in Chats(UpTo(2, Prompts), Tokens), t \in Ceilings, i, o \in Reports :
    input = [kind |-> "chat", chat |-> c, ceiling |-> t, report |-> [input |-> i, output |-> o]]
BatchInit ==
  \E t \in Ceilings :
    \/ \E r \in UpTo(MaxBatch, SmallChats) :
         input = [kind |-> "batch", body |-> Bodied(r, NoChat), ceiling |-> t]
    \/ \E r \in UpTo(1, SmallChats), c \in SmallChats :
         input = [kind |-> "batch", body |-> Bodied(r, c), ceiling |-> t]
ProvidersInit ==
  \E a \in UpTo(MaxListed, Answers(Addresses, Bps, Loads, MaxLoad)),
     s \in {{}} \cup {{x} : x \in PoolScores} :
    input = [kind |-> "providers", answers |-> a, pools |-> s]
ResultsInit ==
  \E a \in UpTo(MaxListed, {x \in Answers(Addresses, Bps, {0}, MaxLoad) : x.active}),
     r \in [Addresses -> Results], q \in BOOLEAN :
    input = [kind |-> "results", answers |-> a, results |-> r, required |-> q]
EndpointInit ==
  \E s \in {"https", "http", "ftp"}, c, p \in BOOLEAN, a \in UpTo(3, IpKinds) :
    input = [kind |-> "endpoint", allowPrivate |-> p,
             endpoint |-> [scheme |-> s, credentials |-> c, addrs |-> a]]
BufferInit == \E b \in UpTo(MaxBuffer, Byte) : input = [kind |-> "buffer", bytes |-> b]
TupleInit ==
  \E r \in UpTo(MaxTail, Byte), l, d \in WordValues, a \in Byte :
    input = [kind |-> "tuple", load |-> l, active |-> a, declared |-> d, rest |-> r]
DateInit == input = [kind |-> "date", days |-> 0, date |-> Epoch]

Init ==
  \/ PathInit \/ BodyInit \/ ChatInit \/ BatchInit \/ ProvidersInit \/ ResultsInit \/ EndpointInit
  \/ BufferInit \/ TupleInit \/ BootInit \/ ReadInit \/ WalletInit \/ DateInit

NextDay ==
  /\ input.kind = "date"
  /\ input.days < LastDayCounted
  /\ input' = [kind |-> "date", days |-> input.days + 1, date |-> DayAfter(input.date)]

Next == NextDay
Spec == Init /\ [][Next]_input

-----------------------------------------------------------------------------
(* Properties: those of the modules, of every input of their kind.         *)

\* RequestsBounded: a path that path_is_unsafe lets through has no other
\* reading upstream, and clamp_generation_budget bounds all generations of a
\* request together and leaves alone what is within the budget
\* (local_proxy.rs).
RequestsBounded ==
  /\ input.kind = "path" => SafePathIsPlain(input.path)
  /\ input.kind = "body" => BudgetHoldsFor(input.body, input.cap)
                            /\ ModestRequestUnchanged(input.body, input.cap)

\* PricesAgree: an accepted batch was priced at the sum of its slots, unless
\* its body is a chat request as well, and is never escrowed for more than
\* was paid (pricing.rs, batch.rs); no report of a provider makes usage cost
\* more than was charged (chat.rs).
PricesAgree ==
  /\ input.kind = "batch" => BatchPriceIsCost(input.body, input.ceiling)
  /\ input.kind = "chat" => UsageIsPaidFor(input.chat, input.ceiling, input.report)

\* ProvidersChosenWell: failover is best first, without repetition and
\* complete, a request is served by the best result that may be accepted
\* (chat.rs, provider.rs), and the address connected to is allowed.
ProvidersChosenWell ==
  /\ input.kind = "providers" => FailoverIsBestFirst(input.answers, input.pools)
  /\ input.kind = "results" => BestGoodResultServes(input.answers, input.results, input.required)
  /\ input.kind = "endpoint" => PinnedAddressAllowed(input.endpoint, input.allowPrivate)

\* DecodersAgree: the ABI decoders accept what is an encoding, return its
\* value and refuse everything else (queries.rs).
DecodersAgree ==
  /\ input.kind = "buffer" => ArraysDecoded(input.bytes) /\ StringDecoded(input.bytes)
  /\ input.kind = "tuple" =>
       ProviderDecoded(input.load, input.active, input.declared, input.rest)

\* DatesFollowCalendar: civil_date counts usage under the calendar's day
\* (usage.rs).
DatesFollowCalendar == input.kind = "date" => DateIs(input.days, input.date)
=============================================================================
