-------------------------------- MODULE Bits --------------------------------
(***************************************************************************)
(* The integer encodings of binary Ion: what ion/bits.go appends to a      *)
(* byte slice, the lengths it computes ahead of appending, and what the    *)
(* bitstream (ion/bitstream.go) reads back.                                *)
(*                                                                         *)
(* The width of a byte and of a machine word are parameters, so that a     *)
(* word can be made small enough to enumerate while everything that        *)
(* depends on the widths (the flag bit, the sign bit, the wrap-around of   *)
(* an overlong value) still happens.  A loop "v >>= g; for v > 0" is       *)
(* given by the number of its iterations, Shifts(v, g).                    *)
(***************************************************************************)
EXTENDS Integers, Sequences, FiniteSets

CONSTANTS
  ByteBits,    \* bits of a byte: 8 in the code
  WordBits     \* bits of uint64 and int64: 64 in the code

ASSUME BitsAssumption == /\ ByteBits \in Nat /\ ByteBits > 2
                         /\ WordBits \in Nat /\ WordBits >= ByteBits

Group     == ByteBits - 1          \* payload bits of a VarUInt byte
Byte      == 0 .. 2^ByteBits - 1
Flag      == 2^(ByteBits - 1)      \* 0x80: last byte of a VarUInt, sign of an Int
SignFlag  == 2^(ByteBits - 2)      \* 0x40: sign of a VarInt
Word      == 2^WordBits
MaxVarLen == (WordBits + Group - 1) \div Group     \* 10 in the code
WordBytes == WordBits \div ByteBits                \* 8 in the code

Wrap(x)       == x % Word
WrapSigned(x) == LET u == x % Word IN IF u < Word \div 2 THEN u ELSE u - Word
Mag(n)        == IF n < 0 THEN -n ELSE n
Shr(v, k)     == IF k > WordBits THEN 0 ELSE v \div 2^k

\* How many times "v >>= g" can be repeated before v is zero, less one.
Shifts(v, g) == Cardinality({k \in 1 .. WordBits \div g : Shr(v, k * g) > 0})

\* The n low groups of g bits of v, most significant first.
Digits(v, g, n) == [i \in 1 .. n |-> Shr(v, g * (n - i)) % 2^g]
-----------------------------------------------------------------------------
(***************************************************************************)
(* Writing.                                                                *)
(***************************************************************************)
uintLen(v)    == 1 + Shifts(v, ByteBits)
appendUint(v) == Digits(v, ByteBits, 1 + Shifts(v, ByteBits))

\* The byte holding the sign is extra when the magnitude fills its top byte.
intLen(n) ==
  IF n = 0 THEN 0
  ELSE LET len == uintLen(Mag(n))
           hb  == Shr(Mag(n), (len - 1) * ByteBits)
       IN  IF hb >= Flag THEN len + 1 ELSE len

\* BitLen/8 + 1, the +1 giving room to the sign bit.
bigIntLen(v) == IF v = 0 THEN 0 ELSE (1 + Shifts(Mag(v), 1)) \div ByteBits + 1

\* appendInt and appendBigInt: the sign takes the top bit of the first byte.
appendInt(n) ==
  IF n = 0 THEN << >>
  ELSE LET bits == appendUint(Mag(n))
           sign == IF n < 0 THEN Flag ELSE 0
       IN  IF bits[1] < Flag THEN <<bits[1] + sign>> \o Tail(bits)
           ELSE <<sign>> \o bits

varUintLen(v) == 1 + Shifts(v, Group)

\* The last byte carries the flag.
Ended(groups) ==
  [i \in 1 .. Len(groups) |-> groups[i] + (IF i = Len(groups) THEN Flag ELSE 0)]

appendVarUint(v) == Ended(Digits(v, Group, 1 + Shifts(v, Group)))

varIntLen_AsUint(n) == varUintLen(Mag(n))

\* One bit of the first byte is the sign, so its payload is a bit shorter.
varIntLen(n) ==
  LET rest == Shr(Mag(n), Group - 1)
  IN  IF rest = 0 THEN 1 ELSE 2 + Shifts(rest, Group)

appendVarInt(n) ==
  LET sign  == IF n < 0 THEN SignFlag ELSE 0
      high  == Shr(Mag(n), Group)      \* what is left once the last byte is out
      loops == Cardinality({k \in 0 .. WordBits \div Group :
                              Shr(high, Group * k + Group - 1) > 0})
      first == Shr(Mag(n), Group * (loops + 1)) % SignFlag
  IN  IF Shr(Mag(n), Group - 1) = 0 THEN <<Flag + sign + (Mag(n) % SignFlag)>>
      ELSE <<sign + first>> \o Ended(Digits(Mag(n), Group, loops + 1))

tagLen(length) == IF length < 14 THEN 1 ELSE 1 + varUintLen(length)

\* A code is the high nibble of the tag byte, already shifted.
appendTag(code, length) ==
  IF length < 14 THEN <<code + length>> ELSE <<code + 14>> \o appendVarUint(length)
-----------------------------------------------------------------------------
(***************************************************************************)
(* Reading.  bs is what is left of the input, max the number of bytes the  *)
(* caller allows; a reader answers how many bytes it consumed, and whether *)
(* it failed: "large" for a value with too many bytes, "eof" for an input  *)
(* that ends in the middle of one.                                         *)
(***************************************************************************)
Capped(max) == IF max > MaxVarLen THEN MaxVarLen ELSE max

\* val <<= 7; val ^= c & 0x7F over the bytes from..to of bs, in a word.
ShiftIn(bs, val0, from, to) ==
  LET val[i \in (from - 1) .. to] ==
        IF i < from THEN val0 ELSE Wrap(val[i - 1] * 2^Group + (bs[i] % Flag))
  IN  val[to]

\* In the loops, read or skip at length is what becomes of it once length bytes are
\* consumed.
readVarUintLen(bs, max) ==
  LET read[length \in 0 .. Capped(max)] ==
        CASE length >= Capped(max)     -> [err |-> "large", val |-> 0, len |-> length]
          [] length = Len(bs)          -> [err |-> "eof", val |-> 0, len |-> length]
          [] bs[length + 1] >= Flag    ->
               [err |-> "nil", val |-> ShiftIn(bs, 0, 1, length + 1), len |-> length + 1]
          [] OTHER                     -> read[length + 1]
  IN  read[0]

skipVarUintLen_LooksLate(bs, max) ==
  LET skip[length \in 0 .. Capped(max) + 1] ==
        CASE length > Capped(max)   -> [err |-> "large", val |-> 0, len |-> length]
          [] length = Len(bs)       -> [err |-> "eof", val |-> 0, len |-> length]
          [] bs[length + 1] >= Flag -> [err |-> "nil", val |-> 0, len |-> length + 1]
          [] OTHER                  -> skip[length + 1]
  IN  skip[0]

skipVarUintLen(bs, max) ==
  LET skip[length \in 0 .. Capped(max)] ==
        CASE length >= Capped(max)  -> [err |-> "large", val |-> 0, len |-> length]
          [] length = Len(bs)       -> [err |-> "eof", val |-> 0, len |-> length]
          [] bs[length + 1] >= Flag -> [err |-> "nil", val |-> 0, len |-> length + 1]
          [] OTHER                  -> skip[length + 1]
  IN  skip[0]

\* The first byte holds the sign and six bits; the value is a signed word.
readVarIntLen(bs, max) ==
  LET sign == IF bs[1] % Flag >= SignFlag THEN -1 ELSE 1
      Ends(length) ==
        [err |-> "nil", len |-> length,
         val |-> WrapSigned(sign * ShiftIn(bs, bs[1] % SignFlag, 2, length))]
      read[length \in 1 .. Capped(max)] ==
        CASE length >= Capped(max)     -> [err |-> "large", val |-> 0, len |-> length]
          [] length = Len(bs)          -> [err |-> "eof", val |-> 0, len |-> length]
          [] bs[length + 1] >= Flag    -> Ends(length + 1)
          [] OTHER                     -> read[length + 1]
  IN  CASE max = 0      -> [err |-> "large", val |-> 0, len |-> 0]
        [] bs = << >>   -> [err |-> "eof", val |-> 0, len |-> 0]
        [] bs[1] >= Flag -> Ends(1)
        [] OTHER        -> read[1]

\* The unsigned value of a byte string, most significant byte first.
Magnitude(bs) ==
  LET val[i \in 0 .. Len(bs)] ==
        IF i = 0 THEN 0 ELSE val[i - 1] * 2^ByteBits + bs[i]
  IN  val[Len(bs)]

readBigInt(bs) ==
  LET mag == Magnitude([bs EXCEPT ![1] = @ % Flag])
  IN  IF bs[1] >= Flag THEN -mag ELSE mag

ReadInt_EightBytesFit(bs, negative) ==
  LET mag == Magnitude(bs)
  IN  IF mag = 0 /\ negative THEN [err |-> "syntax", val |-> 0, big |-> FALSE]
      ELSE IF Len(bs) <= WordBytes
      THEN [err |-> "nil", val |-> WrapSigned(IF negative THEN -mag ELSE mag), big |-> FALSE]
      ELSE [err |-> "nil", val |-> IF negative THEN -mag ELSE mag, big |-> TRUE]

\* A magnitude of a full word with its top bit set does not fit an int64 and
\* becomes a big.Int; everything shorter is accumulated in an int64.
ReadInt(bs, negative) ==
  LET mag   == Magnitude(bs)
      small == \/ Len(bs) < WordBytes
               \/ Len(bs) = WordBytes /\ bs[1] < Flag
  IN  IF mag = 0 /\ negative THEN [err |-> "syntax", val |-> 0, big |-> FALSE]
      ELSE IF small
      THEN [err |-> "nil", val |-> WrapSigned(IF negative THEN -mag ELSE mag), big |-> FALSE]
      ELSE [err |-> "nil", val |-> IF negative THEN -mag ELSE mag, big |-> TRUE]
=============================================================================
