---------------------------- MODULE ProxyRequest ----------------------------
(***************************************************************************)
(* What local_proxy.rs decides about a request before it forwards it: is   *)
(* the path safe, and how much may the request generate.                   *)
(* Pure functions, compared with reference definitions on all small inputs.*)
(***************************************************************************)
EXTENDS Integers, Sequences, FiniteSets

CONSTANTS
  MaxGenerations   \* MAX_GENERATIONS_PER_REQUEST

-----------------------------------------------------------------------------
(* Paths.                                                                  *)

HexChars == {"0", "1", "2", "3", "4", "5", "6", "7", "8", "9", "a", "b", "c", "d", "e", "f",
             "A", "B", "C", "D", "E", "F"}

Lower(c) == CASE c = "F" -> "f" [] c = "E" -> "e" [] c = "C" -> "c" [] OTHER -> c

\* The byte a hexadecimal pair stands for, as far as paths care.
DecodedChar(high, low) ==
  CASE <<high, Lower(low)>> = <<"2", "e">> -> "."
    [] <<high, Lower(low)>> = <<"2", "f">> -> "/"
    [] <<high, Lower(low)>> = <<"5", "c">> -> "\\"
    [] <<high, Lower(low)>> = <<"2", "5">> -> "%"
    [] OTHER -> "x"

\* percent_decode_path: a percent sign without two hexadecimal digits after
\* it stays as it is.
PercentDecodePath(p) ==
  LET decoded[i \in 1..(Len(p) + 1)] ==
        IF i > Len(p) THEN <<>>
        ELSE IF p[i] = "%" /\ i + 2 <= Len(p) /\ p[i + 1] \in HexChars /\ p[i + 2] \in HexChars
        THEN <<DecodedChar(p[i + 1], p[i + 2])>> \o decoded[i + 3]
        ELSE <<p[i]>> \o decoded[i + 1]
  IN decoded[1]

\* The parts of a path between its slashes.
Segments(p) ==
  LET Bounds == {0, Len(p) + 1} \cup {i \in DOMAIN p : p[i] = "/"}
  IN {SubSeq(p, gap[1] + 1, gap[2] - 1) : gap \in
        {b \in Bounds \X Bounds : b[1] < b[2] /\ ~\E k \in Bounds : b[1] < k /\ k < b[2]}}

ContainsDotSegment(p) == Segments(PercentDecodePath(p)) \cap {<<".">>, <<".", ".">>} # {}

HasPart(p, s) == \E i \in 1..(Len(p) - Len(s) + 1) : SubSeq(p, i, i + Len(s) - 1) = s

EncodedSeparators == {<<"%", "2", "e">>, <<"%", "2", "f">>, <<"%", "5", "c">>}

EncodedSeparator(p) ==
  LET lower == [i \in DOMAIN p |-> Lower(p[i])] IN
  \E enc \in EncodedSeparators : HasPart(lower, enc)

PathIsUnsafe(p) ==
  \/ HasPart(p, <<"\\">>)
  \/ EncodedSeparator(p)
  \/ ContainsDotSegment(p)

-----------------------------------------------------------------------------
(* The generation budget.  A number in a body, or what is there instead.   *)

Absent == -3
Null == -2
NotANumber == -1      \* also negative numbers, which mean "unlimited" upstream

\* GENERATION_LIMIT_FIELDS
LimitFields == {"max_tokens", "max_completion_tokens", "n_predict"}

\* A body is a JSON object or not.  `prompts`: how many entries the prompt
\* array has, 0 for any other prompt and for one array of token ids.
Bodies(counts, values) ==
  [object : BOOLEAN, prompts : counts \cap Nat, n : counts, best_of : counts,
   limits : [LimitFields -> values]]

Larger(a, b) == IF a >= b THEN a ELSE b

CountsOk(b) == NotANumber \notin {b.n, b.best_of}

\* generation_count: prompts times n or best_of, whichever is larger.
GenerationCount(b) == Larger(b.prompts, 1) * Larger(1, Larger(b.n, b.best_of))

\* Mutant: the cap is given to every generation.
PerGenerationWhole(b, cap) == Larger(cap, 1)

PerGeneration(b, cap) == Larger(cap \div GenerationCount(b), 1)

BodyRefused(b) == ~b.object \/ ~CountsOk(b) \/ GenerationCount(b) > MaxGenerations

\* A limit that is named stays if it is a number within the budget.
ClampedField(v, per) == IF v = Absent \/ v \in 0..per THEN v ELSE per

\* clamp_generation_budget: every limit that is named is clamped; a body that
\* names none gets max_tokens.
Clamped(b, cap) ==
  LET per == PerGeneration(b, cap) IN
  [b EXCEPT !.limits =
     IF \A f \in LimitFields : @[f] = Absent THEN [@ EXCEPT !["max_tokens"] = per]
     ELSE [f \in LimitFields |-> ClampedField(@[f], per)]]

-----------------------------------------------------------------------------
(* Properties.                                                             *)

\* A path that passes means the same to an upstream that decodes it, or reads
\* \ as a slash, as to the proxy: the same number of segments, none of which
\* is a dot segment.
SafePathIsPlain(p) ==
  ~PathIsUnsafe(p) =>
    LET d == PercentDecodePath(p)
        Slashes(q) == Cardinality({i \in DOMAIN q : q[i] \in {"/", "\\"}})
    IN /\ Slashes(d) = Slashes(p)
       /\ \A s \in Segments(d) : s \notin {<<".">>, <<".", ".">>}

\* What a request that passes can generate, all its generations together and
\* whichever limit field the upstream obeys, is at most the cap (one token
\* each, if the cap is smaller than the number of generations).
BudgetHoldsFor(b, cap) ==
  ~BodyRefused(b) =>
    LET limits == Clamped(b, cap).limits
        Named == {f \in LimitFields : limits[f] # Absent}
    IN /\ Named # {}
       /\ \A f \in Named :
            /\ limits[f] >= 0
            /\ limits[f] * GenerationCount(b) <= Larger(cap, GenerationCount(b))

\* A request that asks for no more than its share is forwarded as it came,
\* and clamping twice is clamping once.
ModestRequestUnchanged(b, cap) ==
  ~BodyRefused(b) =>
    LET Named == {f \in LimitFields : b.limits[f] # Absent} IN
    /\ Clamped(Clamped(b, cap), cap) = Clamped(b, cap)
    /\ Named # {} /\ (\A f \in Named : b.limits[f] >= 0 /\ b.limits[f] * GenerationCount(b) <= cap)
         => Clamped(b, cap) = b
=============================================================================
