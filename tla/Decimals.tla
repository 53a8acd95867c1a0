------------------------------ MODULE Decimals ------------------------------
(***************************************************************************)
(* Decimals (ion/decimal.go): a coefficient n, a scale of ScaleBits bits   *)
(* and a flag for negative zero; the value is n / 10^scale.  Results are   *)
(* decimals, or Panic where the code panics.                               *)
(*                                                                         *)
(* The text of a decimal is a record of its sign, the digits in front of   *)
(* the point and behind it, and its exponent.                              *)
(***************************************************************************)
EXTENDS Bits

CONSTANTS
  ScaleBits,    \* bits of the scale: 32 in the code
  UpscaleLimit, \* the largest exponent an int is made of: 20 in the code
  MaxDigits     \* bound: digits of a coefficient

ASSUME ScaleAssumption == /\ ScaleBits \in Nat /\ ScaleBits > 1
                          /\ UpscaleLimit \in Nat /\ MaxDigits \in Nat

MinScale == -(2^(ScaleBits - 1))
MaxScale == 2^(ScaleBits - 1) - 1
Scales   == MinScale .. MaxScale

\* An int32 wraps around.
WrapScale(x) == ((x - MinScale) % 2^ScaleBits) + MinScale

Decimal(n, scale, isNegZero) == [n |-> n, scale |-> scale, isNegZero |-> isNegZero]
Panic == [panic |-> TRUE]

NewDecimal(n, exp, negZero) == Decimal(n, WrapScale(-exp), negZero)

Sign(n)          == IF n > 0 THEN 1 ELSE IF n < 0 THEN -1 ELSE 0
Scaled(n, scale) == IF scale \in Scales THEN Decimal(n, scale, FALSE) ELSE Panic
-----------------------------------------------------------------------------
(***************************************************************************)
(* Arithmetic.                                                             *)
(***************************************************************************)
upscale_OneShort(d, scale) ==
  IF scale < d.scale THEN Panic ELSE Decimal(d.n * 10^(scale - 1 - d.scale), scale, FALSE)

upscale(d, scale) ==
  IF scale < d.scale THEN Panic ELSE Decimal(d.n * 10^(scale - d.scale), scale, FALSE)

\* Both decimals at the larger of the two scales.
rescale(d, o) ==
  IF d.scale < o.scale THEN <<upscale(d, o.scale), o>>
  ELSE IF d.scale > o.scale THEN <<d, upscale(o, d.scale)>>
  ELSE <<d, o>>

Abs(d)    == Decimal(Mag(d.n), d.scale, FALSE)
Neg(d)    == Decimal(-d.n, d.scale, FALSE)
Add(d, o) == LET r == rescale(d, o) IN Decimal(r[1].n + r[2].n, r[1].scale, FALSE)
Sub(d, o) == LET r == rescale(d, o) IN Decimal(r[1].n - r[2].n, r[1].scale, FALSE)
Mul(d, o) == Scaled(d.n * o.n, d.scale + o.scale)
Cmp(d, o) == LET r == rescale(d, o) IN Sign(r[1].n - r[2].n)

ShiftL(d, shift) == Scaled(d.n, d.scale - shift)
ShiftR(d, shift) == Scaled(d.n, d.scale + shift)
-----------------------------------------------------------------------------
(***************************************************************************)
(* Digits.                                                                 *)
(***************************************************************************)
NumDigits(n) == CHOOSE k \in 1 .. MaxDigits : n < 10^k /\ (k = 1 \/ n >= 10^(k - 1))
DigitsOf(n)  ==
  LET len == NumDigits(n) IN [i \in 1 .. len |-> (n \div 10^(len - i)) % 10]

NumberOf(digits) ==
  LET val[i \in 0 .. Len(digits)] == IF i = 0 THEN 0 ELSE val[i - 1] * 10 + digits[i]
  IN  val[Len(digits)]

Zeros(k) == [i \in 1 .. k |-> 0]

TrimZeros(digits) ==
  LET nonzero == {i \in 1 .. Len(digits) : digits[i] # 0}
  IN  IF nonzero = {} THEN << >>
      ELSE SubSeq(digits, 1, CHOOSE i \in nonzero : \A j \in nonzero : j <= i)
-----------------------------------------------------------------------------
(***************************************************************************)
(* Fewer digits, and no fraction.                                          *)
(***************************************************************************)
InWord(n) == n >= -(Word \div 2) /\ n < Word \div 2
AsInt(n)  == IF InWord(n) THEN [err |-> "nil", val |-> n] ELSE [err |-> "range", val |-> 0]

checkToUpscale(d) ==
  IF d.scale >= 0 THEN [err |-> "nil", d |-> d]
  ELSE IF d.scale < -UpscaleLimit THEN [err |-> "range", d |-> d]
  ELSE [err |-> "nil", d |-> upscale(d, 0)]

\* The first digits of the number as a string, where a sign is a character too: it
\* may be all that is left.
trunc(d) ==
  LET u    == checkToUpscale(d)
      sign == IF u.d.n < 0 THEN 1 ELSE 0
      keep == NumDigits(Mag(u.d.n)) + sign - u.d.scale
  IN  IF u.err # "nil" THEN [err |-> u.err, val |-> 0]
      ELSE IF keep <= 0 THEN [err |-> "nil", val |-> 0]
      ELSE IF keep = sign THEN [err |-> "syntax", val |-> 0]
      ELSE AsInt(Sign(u.d.n) * (Mag(u.d.n) \div 10^u.d.scale))

\* A float division, taken to be exact; the coefficient is cut to a word first.
round(d) ==
  LET u == checkToUpscale(d)
      n == WrapSigned(u.d.n)
  IN  IF u.err # "nil" THEN [err |-> u.err, val |-> 0]
      ELSE [err |-> "nil",
            val |-> Sign(n) * ((2 * Mag(n) + 10^u.d.scale) \div (2 * 10^u.d.scale))]

\* The sign of a negative number takes the place of a digit.
Truncate_SignIsDigit(d, precision) ==
  LET diff == NumDigits(Mag(d.n)) + (IF d.n < 0 THEN 1 ELSE 0) - precision
  IN  IF diff <= 0 THEN d
      ELSE IF d.scale - diff < MinScale THEN Panic
      ELSE Decimal(Sign(d.n) * (Mag(d.n) \div 10^diff), d.scale - diff, FALSE)

Truncate(d, precision) ==
  LET diff == NumDigits(Mag(d.n)) - precision
  IN  IF diff <= 0 THEN d
      ELSE IF d.scale - diff < MinScale THEN Panic
      ELSE Decimal(Sign(d.n) * (Mag(d.n) \div 10^diff), d.scale - diff, FALSE)
-----------------------------------------------------------------------------
(***************************************************************************)
(* Text, JSON and binary forms.                                            *)
(***************************************************************************)
Text(neg, int, frac, exp) == [neg |-> neg, int |-> int, frac |-> frac, exp |-> exp]

\* The point goes behind the first digit when the number has no digits in front.
String(d) ==
  LET digits == DigitsOf(Mag(d.n))
      neg    == d.n < 0 \/ d.isNegZero
      idx    == Len(digits) - d.scale
  IN  IF d.scale <= 0 THEN Text(neg, digits, << >>, WrapScale(-d.scale))
      ELSE IF idx >= 1
      THEN Text(neg, SubSeq(digits, 1, idx), SubSeq(digits, idx + 1, Len(digits)), 0)
      ELSE Text(neg, SubSeq(digits, 1, 1), Tail(digits), idx - 1)

ParseDecimal_FractionAdds(t) ==
  LET n == NumberOf(t.int \o t.frac)
  IN  NewDecimal(IF t.neg THEN -n ELSE n, WrapScale(t.exp + Len(t.frac)), n = 0 /\ t.neg)

\* The exponent of the text has been checked to be an int32 by then.
ParseDecimal(t) ==
  LET n == NumberOf(t.int \o t.frac)
  IN  NewDecimal(IF t.neg THEN -n ELSE n, WrapScale(t.exp - Len(t.frac)), n = 0 /\ t.neg)

MarshalJSON(d) ==
  LET digits == DigitsOf(Mag(d.n))
      scale  == WrapScale(-d.scale)
      point  == Len(digits) + scale
      neg    == d.n < 0
  IN  IF scale >= 0 THEN Text(neg, digits \o Zeros(scale), << >>, 0)
      ELSE IF point <= 0 THEN Text(neg, <<0>>, TrimZeros(Zeros(-point) \o digits), 0)
      ELSE Text(neg, SubSeq(digits, 1, point), TrimZeros(SubSeq(digits, point + 1, Len(digits))), 0)

\* WriteDecimal: exponent and coefficient; nothing at all for 0d0.
WriteDecimal(d) ==
  LET exp == WrapScale(-d.scale)
  IN  IF d.n = 0 /\ exp = 0 /\ ~d.isNegZero THEN << >>
      ELSE appendVarInt(exp) \o (IF d.isNegZero THEN <<Flag>> ELSE appendInt(d.n))

\* readDecimal: a coefficient that is there and zero is a negative zero.
readDecimal(bs) ==
  LET exp  == readVarIntLen(bs, Len(bs))
      coef == SubSeq(bs, exp.len + 1, Len(bs))
  IN  IF bs = << >> THEN [err |-> "nil", d |-> NewDecimal(0, 0, FALSE)]
      ELSE IF exp.err # "nil" THEN [err |-> exp.err, d |-> Panic]
      ELSE IF exp.val \notin Scales THEN [err |-> "syntax", d |-> Panic]
      ELSE IF coef = << >> THEN [err |-> "nil", d |-> NewDecimal(0, exp.val, FALSE)]
      ELSE [err |-> "nil", d |-> NewDecimal(readBigInt(coef), exp.val, readBigInt(coef) = 0)]
=============================================================================
