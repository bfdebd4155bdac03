----------------------------- MODULE AbiDecode -----------------------------
(***************************************************************************)
(* How queries.rs reads what contracts return: arrays of addresses and of  *)
(* hashes, a string behind an offset, and the tuple of getProviderInfo.    *)
(* A buffer is a sequence of bytes.  Word size, address size, byte values  *)
(* and the native integer width are scaled down.  What lies past the end   *)
(* of a buffer reads as zero here: a decoder that went there would accept  *)
(* buffers that the reference definitions do not.                          *)
(***************************************************************************)
EXTENDS Integers, Sequences

CONSTANTS
  Base,          \* the number of values of a byte
  WordSize,      \* 32
  AddressSize,   \* 20
  NativeMax,     \* u64::MAX, smaller than what a word can hold
  LenMax,        \* u32::MAX
  NotUtf8        \* a byte that is not UTF-8

AbiOK ==
  /\ Base \in Nat \ {0, 1} /\ WordSize \in Nat \ {0}
  /\ AddressSize \in 1..WordSize
  /\ LenMax \in Nat /\ NativeMax \in Nat /\ LenMax <= NativeMax

ASSUME AbiAssumption == AbiOK

Byte == 0..(Base - 1)
Decoded(value) == [ok |-> TRUE, value |-> value]
Error == [ok |-> FALSE, value |-> <<>>]

\* bytes[from..from + n]
Bytes(b, from, n) == [i \in 1..n |-> IF from + i \in DOMAIN b THEN b[from + i] ELSE 0]

\* U256::from_big_endian
Value(word) ==
  LET upTo[i \in 0..Len(word)] == IF i = 0 THEN 0 ELSE upTo[i - 1] * Base + word[i]
  IN upTo[Len(word)]
WordAt(b, from) == Value(Bytes(b, from, WordSize))

Utf8(s) == \A i \in DOMAIN s : s[i] # NotUtf8

-----------------------------------------------------------------------------
(* The decoders.                                                           *)

\* Mutant: the length is brought to native width before it is compared.
AbiLenBoundedLate(v, maxItems) ==
  IF v % (NativeMax + 1) > maxItems THEN Error ELSE Decoded(v % (NativeMax + 1))

\* abi_len_bounded: compared before it is converted.
AbiLenBounded(v, maxItems) == IF v > maxItems THEN Error ELSE Decoded(v)

\* The offset word is skipped; an item is the last `size` bytes of its word.
DecodeArray(b, size) ==
  LET head == 2 * WordSize
      len == AbiLenBounded(WordAt(b, WordSize), (Len(b) - head) \div WordSize)
  IN IF Len(b) < head \/ ~len.ok \/ Len(b) < head + len.value * WordSize THEN Error
     ELSE Decoded([i \in 1..len.value |->
            Bytes(b, head + (i - 1) * WordSize + (WordSize - size), size)])
DecodeAddressArray(b) == DecodeArray(b, AddressSize)
DecodeBytes32Array(b) == DecodeArray(b, WordSize)

StringInside(b, offset, len) == Len(b) >= offset + WordSize + len

\* decode_string_at_offset_word
DecodeStringAtOffsetWord(b, word) ==
  LET offset == WordAt(b, word * WordSize)
      len == WordAt(b, offset)
      s == Bytes(b, offset + WordSize, len)
  IN IF \/ Len(b) < (word + 1) * WordSize
        \/ offset > NativeMax
        \/ Len(b) < offset + WordSize
        \/ len > LenMax
        \/ ~StringInside(b, offset, len)
        \/ ~Utf8(s)
     THEN Error ELSE Decoded(s)

\* decode_provider_info: (endpoint, stake, currentLoad, totalInferences,
\* isActive); the offset word is not looked at.
DecodeProviderInfo(b) ==
  LET head == 6 * WordSize
      len == AbiLenBounded(WordAt(b, 5 * WordSize), Len(b) - head)
      load == WordAt(b, 2 * WordSize)
      endpoint == Bytes(b, head, len.value)
  IN IF Len(b) < head \/ ~len.ok \/ ~Utf8(endpoint) THEN Error
     ELSE Decoded([endpoint |-> endpoint, load |-> IF load > LenMax THEN LenMax ELSE load,
                   active |-> b[5 * WordSize] # 0])

-----------------------------------------------------------------------------
(* Reference definitions: what a contract encodes.                         *)

\* v as a word, most significant byte first; `rest` is what is left of v
\* without its last bytes.
Word(v) ==
  LET rest[k \in 0..WordSize] == IF k = 0 THEN v ELSE rest[k - 1] \div Base
  IN [i \in 1..WordSize |-> rest[WordSize - i] % Base]

\* The numbers that a word can hold.
WordValues == {Value(w) : w \in [1..WordSize -> Byte]}

Holds(b, from, bytes) == from + Len(bytes) <= Len(b) /\ Bytes(b, from, Len(bytes)) = bytes

\* The arrays of items of `size` bytes that b holds, whatever pads them and
\* follows them.
ArraysIn(b, size) ==
  UNION {{a \in {[i \in 1..n |-> Bytes(b, (2 + i) * WordSize - size, size)]} :
            Holds(b, WordSize, Word(n)) /\ (2 + n) * WordSize <= Len(b)}
         : n \in 0..Len(b)}

\* The strings that b holds where the offset in the word points.
StringsIn(b, word) ==
  {s \in {Bytes(b, o + WordSize, n) : o, n \in 0..Len(b)} :
     /\ Utf8(s)
     /\ \E o \in 0..Len(b) : Holds(b, word * WordSize, Word(o)) /\ Holds(b, o, Word(Len(s)) \o s)}

\* A decoder accepts a buffer exactly if it holds a value, and returns it.
Agrees(result, values) ==
  IF result.ok THEN values = {result.value} ELSE values = {}

-----------------------------------------------------------------------------
(* Properties.                                                             *)

\* Whatever a node returns, the array decoders take a declared length only if
\* the buffer holds as many items, and return those.
ArraysDecoded(b) ==
  /\ Agrees(DecodeAddressArray(b), ArraysIn(b, AddressSize))
  /\ Agrees(DecodeBytes32Array(b), ArraysIn(b, WordSize))

\* The same for the string behind an offset, which may point anywhere.
StringDecoded(b) == Agrees(DecodeStringAtOffsetWord(b, 1), StringsIn(b, 1))

\* An endpoint comes out of the tuple as the contract encoded it, if its
\* declared length is there, and a load that is too large stays larger than
\* any capacity.
ProviderDecoded(load, active, declared, rest) ==
  LET b == Word(5 * WordSize) \o Word(0) \o Word(load) \o Word(0)
             \o Word(active) \o Word(declared) \o rest
      endpoints == {s \in {SubSeq(rest, 1, n) : n \in 0..Len(rest)} : Len(s) = declared /\ Utf8(s)}
      decoded == DecodeProviderInfo(b)
  IN /\ IF decoded.ok THEN endpoints = {decoded.value.endpoint} ELSE endpoints = {}
     /\ decoded.ok => /\ decoded.value.active <=> active # 0
                      /\ decoded.value.load = load \/ (load > LenMax /\ decoded.value.load = LenMax)
=============================================================================
