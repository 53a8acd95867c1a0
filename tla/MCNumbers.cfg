\* A byte of 4 bits and a word of 8: a VarUInt carries 3 bits a byte, so its
\* longest form has 3 bytes and 9 bits, one more than the word (70 and 64 in
\* the code), and every word is enumerated.
CONSTANTS
  ByteBits = 4
  WordBits = 8
  MaxBytes = 4
  ScaleBits = 3
  UpscaleLimit = 3
  MaxDigits = 9
  Calendar <- MCCalendar
  Ones = 2
  FractionDigits = 2
  PrecisionBits = 2
SPECIFICATION Spec
INVARIANTS
  VarRoundTrip
  IntRoundTrip
  OnlyLongestWraps
  DecimalRoundTrip
  DecimalArithmetic
  DecimalTruncation
  TimestampRoundTrip
  FractionRounds
CHECK_DEADLOCK FALSE
