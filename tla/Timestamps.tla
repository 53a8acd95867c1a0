----------------------------- MODULE Timestamps -----------------------------
(***************************************************************************)
(* Timestamps (ion/timestamp.go) with their binary form (ion/bits.go,      *)
(* ion/bitstream.go) and their text.                                       *)
(*                                                                         *)
(* The date and time of Go is a number of seconds, secs, the fraction ns   *)
(* in units of the smallest fraction there is, and the offset of its zone  *)
(* in minutes; a calendar with units of any size turns the seconds into    *)
(* fields.  The text is a record: the fields it shows, the digits behind   *)
(* the point, and the zone, which a date has only by name.                  *)
(***************************************************************************)
EXTENDS Decimals

CONSTANTS
  Calendar,       \* months of a year, days of a month, hours, minutes, seconds
  Ones,           \* seconds have a last digit below Ones: 10
  FractionDigits, \* maxFractionalPrecision: 9
  PrecisionBits   \* bits of the number of these digits, an unsigned byte: 8

ASSUME CalendarAssumption ==
  /\ Calendar \in Seq(Nat \ {0}) /\ Len(Calendar) = 5
  /\ Ones \in 1 .. Calendar[5] /\ Calendar[5] % Ones = 0
  /\ FractionDigits \in Nat /\ FractionDigits < SignFlag
  /\ PrecisionBits \in Nat /\ FractionDigits < 2^PrecisionBits

NoPrecision == 0
Year == 1
Month == 2
Day == 3
Minute == 4
Second == 5
Nanosecond == 6

First == <<0, 1, 1, 0, 0, 0>>

\* Seconds in one unit of field i: year, month, day, hour, minute, second.
UnitOf(i) ==
  LET unit[k \in i .. 6] == IF k = 6 THEN 1 ELSE unit[k + 1] * Calendar[k] IN unit[i]

FieldsOf(secs) ==
  [i \in 1 .. 6 |->
     First[i] + IF i = 1 THEN secs \div UnitOf(1) ELSE (secs \div UnitOf(i)) % Calendar[i - 1]]

\* time.Date: fields out of their range are carried.
DateOf(f) ==
  LET sum[i \in 0 .. 6] == IF i = 0 THEN 0 ELSE sum[i - 1] + (f[i] - First[i]) * UnitOf(i)
  IN  sum[6]

Timestamp(secs, ns, offset, precision, kind, fraction) ==
  [secs |-> secs, ns |-> ns, offset |-> offset, precision |-> precision, kind |-> kind,
   fraction |-> fraction]

Invalid == [invalid |-> TRUE]

WithFraction(secs, ns, offset, precision, kind, fraction) ==
  Timestamp(secs, ns, offset, precision, kind,
            IF precision < Nanosecond THEN 0
            ELSE IF fraction > FractionDigits THEN FractionDigits ELSE fraction)

DateTimestamp(secs, ns, precision) ==
  Timestamp(secs, ns, 0, precision, "unspecified",
            IF precision >= Nanosecond THEN FractionDigits ELSE 0)

TruncatedNanoseconds_OneMore(ts) ==
  ts.ns \div 10^(IF ts.fraction = FractionDigits THEN 0 ELSE FractionDigits - ts.fraction - 1)

TruncatedNanoseconds(ts) == ts.ns \div 10^(FractionDigits - ts.fraction)
-----------------------------------------------------------------------------
(***************************************************************************)
(* The binary form.                                                        *)
(***************************************************************************)
\* How many of the fields a precision has.
FieldCount(precision) == IF precision <= Day THEN precision ELSE IF precision = Minute THEN 5 ELSE 6

HasFraction(ts) == ts.precision = Nanosecond /\ ts.fraction > 0

timestampLen(ts) ==
  (IF ts.kind = "unspecified" THEN 1 ELSE varIntLen(ts.offset))
  + varUintLen(FieldsOf(ts.secs)[1])
  + FieldCount(ts.precision) - 1
  + (IF HasFraction(ts) THEN 1 + intLen(TruncatedNanoseconds(ts)) ELSE 0)

appendTimestamp(ts) ==
  LET f     == FieldsOf(ts.secs)
      field[i \in 0 .. FieldCount(ts.precision)] ==
        IF i = 0 THEN << >> ELSE field[i - 1] \o appendVarUint(f[i])
  IN  (IF ts.kind = "unspecified" THEN <<Flag + SignFlag>> ELSE appendVarInt(ts.offset))
      \o field[FieldCount(ts.precision)]
      \o (IF HasFraction(ts)
          THEN <<Flag + SignFlag + ts.fraction>> \o appendInt(TruncatedNanoseconds(ts)) ELSE << >>)

\* uint8(d.scale): an unsigned byte keeps eight bits of a scale, so 256 becomes 0.
FractionOf(scale) == scale % 2^PrecisionBits

readNsecs_NoCarry(bs) ==
  LET r     == readDecimal(bs)
      nsec  == round(ShiftL(r.d, FractionDigits)).val
  IN  IF r.err # "nil" THEN [err |-> r.err]
      ELSE [err |-> "nil", ns |-> nsec % 10^FractionDigits, overflow |-> FALSE,
            fraction |-> FractionOf(r.d.scale)]

readNsecs(bs) ==
  LET r     == readDecimal(bs)
      d     == ShiftL(r.d, FractionDigits)
      whole == trunc(d)
      nsec  == round(d).val
  IN  IF r.err # "nil" THEN [err |-> r.err]
      ELSE IF d = Panic THEN [err |-> "panic"]
      ELSE IF whole.err # "nil" \/ whole.val \notin 0 .. 10^FractionDigits - 1 THEN [err |-> "syntax"]
      ELSE [err |-> "nil",
            ns       |-> IF nsec = 10^FractionDigits THEN 0 ELSE nsec,
            overflow |-> nsec = 10^FractionDigits,
            fraction |-> IF r.d.scale < 0 /\ nsec = 0 THEN 0 ELSE FractionOf(r.d.scale)]

\* sign is that of the offset, for a negative zero.
tryCreateTimestamp(f, ns, overflow, offset, sign, precision, fraction) ==
  LET date == DateOf(f)
      secs == IF overflow THEN date + 1 ELSE date
  IN  IF \E i \in 1 .. 3 : FieldsOf(date)[i] # f[i] THEN Invalid
      ELSE IF precision <= Day THEN DateTimestamp(date, ns, precision)
      ELSE IF offset = 0
      THEN WithFraction(secs, ns, 0, precision, IF sign = -1 THEN "unspecified" ELSE "utc", fraction)
      ELSE WithFraction(secs, ns, offset, precision, "local", fraction)

\* The fields that are there, one VarUint each: their number, their values, the rest
\* and what went wrong.
ReadFields(bs) ==
  LET walk[i \in 0 .. 6] ==
        IF i = 0 THEN [n |-> 0, f |-> <<1, 1, 1, 0, 0, 0>>, rest |-> bs, err |-> "nil"]
        ELSE LET s == walk[i - 1]
                 v == readVarUintLen(s.rest, Len(s.rest))
             IN  IF s.rest = << >> \/ s.err # "nil" THEN s
                 ELSE IF v.err # "nil" THEN [s EXCEPT !.err = v.err]
                 ELSE [n |-> i, f |-> [s.f EXCEPT ![i] = v.val],
                       rest |-> SubSeq(s.rest, v.len + 1, Len(s.rest)), err |-> "nil"]
  IN  walk[6]

ReadTimestamp(bs) ==
  LET off  == readVarIntLen(bs, Len(bs))
      sign == IF bs[1] % Flag >= SignFlag THEN -1 ELSE 1
      r    == ReadFields(SubSeq(bs, off.len + 1, Len(bs)))
      frac == IF r.rest = << >> THEN [err |-> "nil", ns |-> 0, overflow |-> FALSE, fraction |-> 0]
              ELSE readNsecs(r.rest)
      precision == IF frac.fraction > 0 THEN Nanosecond ELSE IF r.n > 3 THEN r.n - 1 ELSE r.n
  IN  IF off.err # "nil" \/ r.err # "nil" \/ r.n = 4 \/ frac.err # "nil" THEN Invalid
      ELSE tryCreateTimestamp(r.f, frac.ns, frac.overflow, off.val, sign, precision, frac.fraction)
-----------------------------------------------------------------------------
(***************************************************************************)
(* The text.                                                               *)
(***************************************************************************)
NsDigits(ns) == [i \in 1 .. FractionDigits |-> (ns \div 10^(FractionDigits - i)) % 10]

\* time.Format cuts the fraction to the digits of the layout and drops the zeros at
\* its end.
FormattedFraction(ts) == TrimZeros(SubSeq(NsDigits(ts.ns), 1, ts.fraction))

\* String adds them again.
ShownFraction(ts) ==
  LET digits == FormattedFraction(ts)
      none   == ts.ns = 0 \/ FractionDigits - NumDigits(ts.ns) >= ts.fraction
  IN  IF none THEN Zeros(ts.fraction)
      ELSE IF digits = << >> THEN << >> ELSE digits \o Zeros(ts.fraction - Len(digits))

\* Z is +00:00 and -00:00 is an unknown offset.
Zone(ts) ==
  [neg |-> ts.offset < 0 \/ (ts.offset = 0 /\ ts.kind = "unspecified"), minutes |-> Mag(ts.offset)]

TimestampString(ts) ==
  [fields |-> SubSeq(FieldsOf(ts.secs + ts.offset * UnitOf(5)), 1, FieldCount(ts.precision)),
   fraction |-> IF HasFraction(ts) THEN ShownFraction(ts) ELSE << >>,
   zone |-> Zone(ts)]

computeTimezoneKind(zone) ==
  IF zone.minutes # 0 THEN "local" ELSE IF zone.neg THEN "unspecified" ELSE "utc"

computeOffset(zone) == IF zone.neg THEN -zone.minutes ELSE zone.minutes

\* time.Parse and NewTimestampFromStr, of a fraction that has room; a field out of its
\* range is an error.
FromString(text, fields, digits, precision) ==
  LET f      == [i \in 1 .. 6 |-> IF i <= Len(fields) THEN fields[i] ELSE 0]
      offset == computeOffset(text.zone)
  IN  IF FieldsOf(DateOf(f)) # f THEN Invalid
      ELSE WithFraction(DateOf(f) - offset * UnitOf(5),
                        NumberOf(digits \o Zeros(FractionDigits - Len(digits))),
                        offset, precision, computeTimezoneKind(text.zone), Len(digits))

\* The last digit of the second and the fraction, as one number, to FractionDigits; at
\* Ones, the text is that of the second before and one more.
roundFractionalSeconds(text) ==
  LET extra   == Len(text.fraction) - FractionDigits
      second  == text.fields[6]
      scaled  == (second % Ones) * 10^Len(text.fraction) + NumberOf(text.fraction)
      rounded == (2 * scaled + 10^extra) \div (2 * 10^extra)
      shown   == IF rounded = Ones * 10^FractionDigits THEN (Ones - 1) * 10^FractionDigits ELSE rounded
      fields  == [text.fields EXCEPT ![6] = @ - (@ % Ones) + shown \div 10^FractionDigits]
      ts      == FromString(text, fields, NsDigits(shown % 10^FractionDigits), Nanosecond)
  IN  IF ts = Invalid \/ rounded = shown THEN ts ELSE [ts EXCEPT !.secs = @ + 1]

ParseTimestamp(text) ==
  LET n == Len(text.fields)
      f == [i \in 1 .. 3 |-> IF i <= n THEN text.fields[i] ELSE 1]
      date == DateOf(f \o <<0, 0, 0>>)
  IN  IF n <= 3
      THEN IF SubSeq(FieldsOf(date), 1, 3) # f THEN Invalid ELSE DateTimestamp(date, 0, n)
      ELSE IF n = 5 THEN FromString(text, text.fields, << >>, Minute)
      ELSE IF text.fraction = << >> THEN FromString(text, text.fields, << >>, Second)
      ELSE IF Len(text.fraction) < FractionDigits
      THEN FromString(text, text.fields, text.fraction, Nanosecond)
      ELSE roundFractionalSeconds(text)
=============================================================================
