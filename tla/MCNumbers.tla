----------------------------- MODULE MCNumbers -----------------------------
(***************************************************************************)
(* Every input of the encodings of Bits, of the decimals and of the        *)
(* timestamps, one state per input.                                        *)
(*                                                                         *)
(* n counts through the byte strings of length MaxBytes, read as numbers;  *)
(* its value modulo the word is the unsigned word under test, the same     *)
(* bits, read as a signed word, the signed one, and fields of its bits are *)
(* the coefficients and scales of a decimal and of a pair of decimals, and *)
(* the parts of a timestamp.                                               *)
(***************************************************************************)
EXTENDS Timestamps

CONSTANT MaxBytes     \* length of the byte strings handed to the decoders

VARIABLE n

Limit == 2^(ByteBits * MaxBytes)

\* From each value of the last byte on.
Init == n \in 0 .. 2^ByteBits - 1
Enumerate == n + 2^ByteBits < Limit /\ n' = n + 2^ByteBits
Spec == Init /\ [][Enumerate]_n

u     == Wrap(n)
i     == WrapSigned(n)
input == Digits(n, ByteBits, MaxBytes)

\* bits bits of n, from the bit shift up, as a signed number.
Field(shift, bits) == ((n \div 2^shift) % 2^bits) - 2^(bits - 1)

d == LET coef == Field(0, 11)
     IN  Decimal(coef, Field(11, ScaleBits), coef = 0 /\ Field(14, 1) = 0)
x == Decimal(Field(0, 5), Field(5, ScaleBits), FALSE)
y == Decimal(Field(8, 4), Field(12, ScaleBits), FALSE)

\* Two months of two days, of two hours of two minutes of four seconds.
MCCalendar == <<2, 2, 2, 2, 4>>

\* length bits of n, from the bit shift up.
Part(shift, length) == (n \div 2^shift) % 2^length

Ns     == <<0, 1, 5, 9, 10, 50, 90, 99>>
Zones  == <<[kind |-> "utc", offset |-> 0], [kind |-> "unspecified", offset |-> 0],
            [kind |-> "local", offset |-> 1], [kind |-> "local", offset |-> -2]>>

\* The seconds of any date and time of the years 2 and 3, and what a precision keeps.
AnyTime == DateOf(<<2, 1, 1, 0, 0, 0>>) + Part(0, 7)
Cut(precision, secs) ==
  DateOf([k \in 1 .. 6 |-> IF k <= FieldCount(precision) THEN FieldsOf(secs)[k] ELSE First[k]])

stamp ==
  LET p0        == 1 + Part(7, 3)
      precision == IF p0 > Nanosecond THEN Nanosecond ELSE p0
      zone      == Zones[1 + Part(14, 2)]
      secs      == Cut(precision, AnyTime)
  IN  IF precision <= Day THEN DateTimestamp(secs, 0, precision)
      ELSE WithFraction(secs, IF precision = Nanosecond THEN Ns[1 + Part(11, 3)] ELSE 0, zone.offset,
                        precision, zone.kind, 1 + Part(10, 1))

\* The same with one digit behind the second, which is counted in a few bits.
Coarse(bits) == INSTANCE Timestamps WITH FractionDigits <- 1, PrecisionBits <- bits
-----------------------------------------------------------------------------
\* A VarUInt reads back as the word that was written, a VarInt (timestamp offset,
\* decimal exponent) with its sign, the most negative word included, and each takes
\* exactly the bytes varUintLen or varIntLen announced: the length of an annotation
\* wrapper and of every tag is summed up from these announcements
\* (binarywriter.go:551) before the bytes exist.  The bytes that follow are not
\* touched.
VarRoundTrip ==
  /\ LET r == readVarUintLen(appendVarUint(u) \o input, MaxVarLen)
     IN  r = [err |-> "nil", val |-> u, len |-> varUintLen(u)]
  /\ LET r == readVarIntLen(appendVarInt(i) \o input, MaxVarLen)
     IN  r = [err |-> "nil", val |-> i, len |-> varIntLen(i)]
  /\ Len(appendVarUint(u)) = varUintLen(u) /\ Len(appendVarInt(i)) = varIntLen(i)

\* A signed coefficient reads back, and both length functions (one counting
\* bytes, one counting bits) announce the number of bytes it takes.  An integer
\* value reads back as the number its sign code and its magnitude denote, whichever
\* representation (int64 or big.Int) the reader chooses and however many leading
\* zeros the magnitude has; only a negative zero is refused.
IntRoundTrip ==
  /\ Len(appendInt(i)) = intLen(i) /\ intLen(i) = bigIntLen(i)
  /\ i # 0 => readBigInt(appendInt(i)) = i
  /\ \A negative \in BOOLEAN, bs \in {appendUint(u), input} :
       LET val == IF negative THEN -Magnitude(bs) ELSE Magnitude(bs)
           r   == ReadInt(bs, negative)
       IN  IF val = 0 /\ negative THEN r.err = "syntax" ELSE r.err = "nil" /\ r.val = val

\* The number written in the first len payloads.
Written(payloads, len) ==
  LET val[k \in 0 .. len] == IF k = 0 THEN 0 ELSE val[k - 1] * 2^Group + payloads[k]
  IN  val[len]

\* Whether a loop finds an end behind the len-th byte of the input: with less room the
\* number is too large, more room makes no difference, and when fewer bytes arrive
\* they have all been consumed.
EndsAt(len, loop(_, _)) ==
  /\ \A room \in 0 .. MaxBytes + 1 :
       LET r == loop(input, room)
       IN  IF room < len THEN r.err = "large" /\ r.len = room ELSE r = loop(input, len)
  /\ \A k \in 0 .. len - 1 : LET r == loop(SubSeq(input, 1, k), len)
                              IN  r.err = "eof" /\ r.len = k

\* Where the three loops over VarUInts and VarInts end does not depend on which of them
\* runs, so that a field name that is skipped and one that is read leave the stream at
\* the same place; and what is read is the number that was written.  Only the longest
\* form can say more than fits a word: it is not refused and wraps around
\* (bitstream.go:871), a VarInt to a number of either sign.
OnlyLongestWraps ==
  LET r    == readVarUintLen(input, MaxBytes)
      s    == skipVarUintLen(input, MaxBytes)
      v    == readVarIntLen(input, MaxBytes)
      bits == [k \in 1 .. MaxBytes |-> input[k] % Flag]
      uint == Written(bits, r.len)
      int  == (IF bits[1] >= SignFlag THEN -1 ELSE 1)
              * Written([bits EXCEPT ![1] = @ % SignFlag], v.len)
  IN  /\ s.err = r.err /\ v.err = r.err /\ s.len = r.len /\ v.len = r.len
      /\ r.err = "nil" =>
           /\ EndsAt(r.len, readVarUintLen) /\ EndsAt(r.len, skipVarUintLen)
           /\ EndsAt(r.len, readVarIntLen)
           /\ IF r.len < MaxVarLen THEN r.val = uint ELSE r.val = uint % Word
           /\ IF r.len < MaxVarLen THEN v.val = int ELSE v.val = WrapSigned(int)
      /\ r.err # "nil" => r.err = "large" /\ r.len = MaxVarLen
-----------------------------------------------------------------------------
\* A decimal survives its text, with the point anywhere and an exponent only where
\* the code puts one, and its binary form, negative zeros and the smallest exponent
\* included; its JSON form, which has no exponent, keeps the value.  (Bits encodes
\* coefficients of up to a word.)
DecimalRoundTrip ==
  /\ ParseDecimal(String(d)) = d
  /\ InWord(d.n) => readDecimal(WriteDecimal(d)) = [err |-> "nil", d |-> d]
  /\ d.scale # MinScale => Cmp(ParseDecimal(MarshalJSON(d)), d) = 0

\* The value of a decimal in units of the smallest exponent.
Units(dec) == dec.n * 10^(MaxScale - dec.scale)

\* Operands of different scales are added and compared by value, and a shift is a
\* multiplication by a power of ten; an exponent out of range is a panic, never one
\* that wrapped around.
DecimalArithmetic ==
  /\ Units(Add(x, y)) = Units(x) + Units(y) /\ Units(Sub(x, y)) = Units(x) - Units(y)
  /\ Cmp(x, y) = Sign(Units(x) - Units(y))
  /\ \A k \in MinScale .. MaxScale :
       /\ ShiftR(x, k) = Mul(x, Decimal(1, k, FALSE))
       /\ ShiftL(x, k) = Panic \/ ShiftR(ShiftL(x, k), k) = x

\* "Returns a new decimal, truncated to the given number of decimal digits of
\* precision" (decimal.go:297): as many of the first digits as were asked for and
\* are there, of either sign; and trunc drops the fraction, or says that the rest is
\* no int64, or too large to try.  Of a negative number above -1 it may find nothing to
\* parse but the sign (decimal.go:283): an error, never another number than zero.
DecimalTruncation ==
  /\ \A p \in 1 .. 4 :
       LET t    == Truncate(d, p)
           unit == 10^(d.scale - t.scale)
       IN  t # Panic =>
             /\ NumDigits(Mag(t.n)) = IF p < NumDigits(Mag(d.n)) THEN p ELSE NumDigits(Mag(d.n))
             /\ Sign(t.n) = Sign(d.n) /\ Mag(d.n) - Mag(t.n) * unit \in 0 .. unit - 1
  /\ LET whole == IF d.scale < 0 THEN d.n * 10^(-d.scale)
                  ELSE Sign(d.n) * (Mag(d.n) \div 10^d.scale)
     IN  IF d.scale < -UpscaleLimit THEN trunc(d).err = "range"
         ELSE trunc(d) = AsInt(whole) \/ (d.n < 0 /\ whole = 0 /\ trunc(d).err = "syntax")
-----------------------------------------------------------------------------
\* A timestamp is read back from its binary form, which is as long as announced, and
\* from its text: fields in UTC there and of its zone here, with its precision, the
\* zeros at the end of its fraction, and an offset that is unknown, zero or not; what
\* the fraction has beyond the digits it claims is cut in both.
TimestampRoundTrip ==
  LET unit == 10^(FractionDigits - stamp.fraction)
      cut  == [stamp EXCEPT !.ns = stamp.ns - (stamp.ns % unit)]
  IN  /\ Len(appendTimestamp(stamp)) = timestampLen(stamp)
      /\ ReadTimestamp(appendTimestamp(stamp)) = cut
      /\ ParseTimestamp(TimestampString(stamp)) = cut

\* A fraction of a second in the middle of the calendar, as text and as bytes.
FractionText ==
  [fields   |-> FieldsOf(AnyTime),
   fraction |-> [k \in 1 .. d.scale |-> (d.n \div 10^(d.scale - k)) % 10],
   zone     |-> [neg |-> FALSE, minutes |-> 0]]
FractionBytes == appendTimestamp(Timestamp(AnyTime, 0, 0, Second, "utc", 0)) \o WriteDecimal(d)

\* Of two timestamps whose fraction has been counted in so many bits.
SameFraction(bits, text, binary) ==
  /\ binary = [text EXCEPT !.precision = binary.precision, !.fraction = binary.fraction]
  /\ d.scale < 2^bits => binary = text
  /\ d.scale = 2^bits => binary.precision = Second /\ text.fraction = 1

\* A fraction with more digits than there is room for is rounded to the same point in
\* time whether it comes as text or as a binary decimal, and carries into the second
\* and beyond (timestamp.go:402, bitstream.go:676); ties are taken to go up.  It claims
\* the same digits too if their number fits a byte; of 256 digits in a binary fraction
\* none is left (bitstream.go:704), of as many in a text there are nine.
FractionRounds ==
  d.scale > 0 /\ d.n \in 0 .. 10^d.scale - 1 /\ InWord(d.n) /\ ~d.isNegZero =>
    \A bits \in 1 .. 2 :
      SameFraction(bits, Coarse(bits)!ParseTimestamp(FractionText),
                   Coarse(bits)!ReadTimestamp(FractionBytes))
=============================================================================
