------------------------------ MODULE Bitstream ------------------------------
(***************************************************************************)
(* The bitstream (ion/bitstream.go): a cursor over the bytes of binary Ion *)
(* which knows where every container it is in will end.                    *)
(*                                                                         *)
(* The record b is the bitstream, together with the input it reads from:   *)
(* in is the whole input, off the number of bytes taken from it, last the  *)
(* number of bytes that will ever come, and after what comes then: "eof"   *)
(* or "io", an error of the io.Reader.  pos is the bitstream's own count;  *)
(* an attempt to read past the end counts too.  A method is an operator    *)
(* from the record to the record it leaves, its error in ret and its       *)
(* result in val: a number, or a sequence where that is said.              *)
(***************************************************************************)
EXTENDS Bits, SymbolTable

Top(s) == s[Len(s)]
Pop(s) == SubSeq(s, 1, Len(s) - 1)

NewBitstream(in, last, after) ==
  [in |-> in, off |-> 0, last |-> last, after |-> after, pos |-> 0,
   state |-> "beforeValue", stack |-> << >>,
   code |-> "none", null |-> FALSE, len |-> 0, ret |-> "nil", val |-> 0]

Ok(b)        == [b EXCEPT !.ret = "nil"]
Fails(b, e)  == [b EXCEPT !.ret = e]
ClearTag(b)  == [b EXCEPT !.code = "none", !.null = FALSE, !.len = 0]
-----------------------------------------------------------------------------
(***************************************************************************)
(* The input.                                                              *)
(***************************************************************************)
Rest(b)    == SubSeq(b.in, b.off + 1, b.last)
Take(b, n) == [b EXCEPT !.off = @ + n, !.pos = @ + n, !.ret = "nil"]

\* The input ends, or breaks, when it is asked for the byte after the last; the
\* attempt is counted in pos.
Exhaust(b) ==
  [b EXCEPT !.off = b.last, !.pos = @ + (b.last - b.off) + 1, !.ret = b.after]

\* "if err != nil { return err }": the next step, if there was no error so far.
Then(b, step(_)) == IF b.ret # "nil" THEN b ELSE step(b)

readN(b, n) ==
  IF n = 0 THEN [Ok(b) EXCEPT !.val = << >>]
  ELSE IF n > Len(Rest(b)) THEN Fails(Take(b, Len(Rest(b))), b.after)
  ELSE [Take(b, n) EXCEPT !.val = SubSeq(Rest(b), 1, n)]

skip_Blind(b, n) == Take(b, n)

\* Skipping past the end of the input is no error.
skip(b, n) ==
  IF n <= Len(Rest(b)) THEN Take(b, n)
  ELSE Fails(Take(b, Len(Rest(b))), IF b.after = "io" THEN "io" ELSE "nil")

Varint_AnyIsSyntax(b, r) ==
  IF r.err # "nil" THEN Fails(Take(b, r.len), "syntax")
  ELSE [Take(b, r.len) EXCEPT !.val = r.val]

\* The readers of Bits, on what is left of the input.
Varint(b, r) ==
  IF r.err = "eof" THEN Exhaust(b)
  ELSE IF r.err = "large" THEN Fails(Take(b, r.len), "syntax")
  ELSE [Take(b, r.len) EXCEPT !.val = r.val]

remaining(b) == IF b.stack = << >> THEN Word - 1 ELSE Top(b.stack).end - b.pos

stateAfterValue(b) ==
  IF b.stack # << >> /\ Top(b.stack).code = "struct" THEN "beforeFieldID" ELSE "beforeValue"

AfterValue(b) == ClearTag([b EXCEPT !.state = stateAfterValue(b)])
-----------------------------------------------------------------------------
(***************************************************************************)
(* Tags.                                                                   *)
(***************************************************************************)
bitcodes ==
  <<"null", "false", "int", "negint", "float", "decimal", "timestamp", "symbol", "string",
    "clob", "blob", "list", "sexp", "struct", "annotation">>

Nibble == 2^(ByteBits \div 2)
CodeOfTag(c) == IF c \div Nibble < 15 THEN bitcodes[(c \div Nibble) + 1] ELSE "none"
LenOfTag(c)  == c % Nibble

\* Skip what is left unread of the field name or value the stream is on.
SkipValue(b) ==
  CASE b.state \in {"beforeFieldID", "beforeValue"} -> Ok(b)
    [] b.state = "onFieldID" ->
         Then(Varint(b, skipVarUintLen(Rest(b), remaining(b))),
              LAMBDA s : ClearTag([s EXCEPT !.state = "beforeValue"]))
    [] OTHER -> Then(skip(b, b.len), AfterValue)

\* The value whose tag was read is of this code and this many bytes.
Extent(b, code, len) ==
  Then(IF len = 14 THEN Varint(b, readVarUintLen(Rest(b), remaining(b)))
       ELSE [Ok(b) EXCEPT !.val = len],
       LAMBDA s : IF s.val > remaining(s) THEN Fails(s, "syntax")
                  ELSE [s EXCEPT !.code = code, !.len = s.val])

\* The length field of an annotation wrapper tells a version marker from a
\* wrapper, that of a bool holds its value, and 15 is the null of every type.
OnValue(b, code, len) ==
  LET b1 == [b EXCEPT !.state = "onValue"]
  IN  IF code = "annotation" /\ len = 0
      THEN IF b.stack # << >> THEN Fails(b1, "syntax")
           ELSE [Ok(b1) EXCEPT !.code = "bvm", !.len = 3]
      ELSE IF code = "annotation" /\ len = 15 THEN Fails(b1, "syntax")
      ELSE IF code = "false" /\ len \notin {0, 1, 15} THEN Fails(b1, "syntax")
      ELSE IF len = 15 THEN [Ok(b1) EXCEPT !.code = code, !.null = TRUE]
      ELSE IF code = "false" /\ len = 1 THEN Extent(b1, "true", 0)
      ELSE Extent(b1, code, len)

\* A struct of length code 1 is ordered: its length follows as a VarUInt, which is
\* then treated as if it were the length field of the tag.
ReadTag(b) ==
  LET c       == Rest(b)[1]
      b1      == Take(b, 1)
      ordered == CodeOfTag(c) = "struct" /\ LenOfTag(c) = 1
  IN  IF Rest(b) = << >>
      THEN IF b.after = "io" THEN Exhaust(b) ELSE [Ok(Exhaust(b)) EXCEPT !.code = "eof"]
      ELSE Then(IF ordered THEN Varint(b1, readVarUintLen(Rest(b1), remaining(b1)))
                ELSE [b1 EXCEPT !.val = LenOfTag(c)],
                LAMBDA s : IF (ordered /\ s.val = 0) \/ CodeOfTag(c) = "none"
                           THEN Fails(s, "syntax")
                           ELSE OnValue(s, CodeOfTag(c), s.val))

NextItem(s) ==
  IF s.state = "beforeFieldID" THEN [s EXCEPT !.code = "fieldid", !.state = "onFieldID"]
  ELSE ReadTag(s)

ToNext(b) == IF b.state \in {"onValue", "onFieldID"} THEN SkipValue(b) ELSE Ok(b)

NextTag_PastEnd(b) == Then(ToNext(b), NextItem)

\* Next: on to the next field name or value.  At the end of a container the user
\* has to step out.
NextTag(b) ==
  Then(ToNext(b),
       LAMBDA s : IF s.stack # << >> /\ s.pos = Top(s.stack).end THEN [s EXCEPT !.code = "eof"]
                  ELSE NextItem(s))
-----------------------------------------------------------------------------
(***************************************************************************)
(* Containers.                                                             *)
(***************************************************************************)
BitsStepIn(b) ==
  IF b.code \notin {"list", "sexp", "struct"} THEN Fails(b, "panic")
  ELSE ClearTag([Ok(b) EXCEPT
         !.stack = Append(@, [code |-> b.code, end |-> b.pos + b.len]),
         !.state = IF b.code = "struct" THEN "beforeFieldID" ELSE "beforeValue"])

\* The node is popped first: a failing skip leaves the stream outside.
BitsStepOut(b) ==
  IF b.stack = << >> \/ Top(b.stack).end < b.pos THEN Fails(b, "panic")
  ELSE Then(skip([b EXCEPT !.stack = Pop(@)], Top(b.stack).end - b.pos), AfterValue)
-----------------------------------------------------------------------------
(***************************************************************************)
(* What a tag announces.                                                   *)
(***************************************************************************)
\* The major and the minor version, in that order.
ReadBVM(b) ==
  LET s == readN(b, 3)
  IN  IF s.ret # "nil" THEN Exhaust(b)
      ELSE IF s.val[3] # 234 THEN Fails(s, "syntax")
      ELSE ClearTag([s EXCEPT !.val = SubSeq(@, 1, 2), !.state = "beforeValue"])

ReadFieldID(b) ==
  Then(Varint(b, readVarUintLen(Rest(b), remaining(b))),
       LAMBDA s : [s EXCEPT !.state = "beforeValue", !.code = "none"])

\* The annotated value must fill what the wrapper has left, and may be neither
\* padding nor another wrapper.  Its tag is looked at, not read.
ValidateAnnotatedValue(b, left) ==
  LET rest   == Rest(b)
      code   == CodeOfTag(rest[1])
      len    == LenOfTag(rest[1])
      long   == len = 14 \/ (code = "struct" /\ len = 1)
      ends   == {i \in 2 .. Len(rest) : rest[i] >= Flag}
      n      == MinOf(ends) - 1
      length == IF long THEN ShiftIn(Tail(rest), 0, 1, n) ELSE len
  IN  IF rest = << >> THEN b.after
      ELSE IF len = 15 THEN IF left = 1 THEN "nil" ELSE "syntax"
      ELSE IF code \in {"null", "annotation"} THEN "syntax"
      ELSE IF long /\ ends = {} THEN b.after
      ELSE IF length = Wrap(left - 1 - IF long THEN n ELSE 0) THEN "nil" ELSE "syntax"

\* The annotations whose ids fill len bytes of the stream, in val.
ReadMarks(b, len, tbl) ==
  LET read[n \in 0 .. len] ==    \* after at most n annotations
        IF n = 0 THEN [bits |-> [Ok(b) EXCEPT !.val = << >>], left |-> len]
        ELSE LET d == read[n - 1]
                 s == Varint(d.bits, readVarUintLen(Rest(d.bits), d.left))
                 t == NewSymbolTokenBySID(tbl, s.val)
             IN  IF d.left = 0 \/ d.bits.ret # "nil" THEN d
                 ELSE IF s.ret # "nil" THEN [d EXCEPT !.bits = s]
                 ELSE [bits |-> [s EXCEPT !.val = Append(d.bits.val, t.token), !.ret = t.err],
                       left |-> d.left - (s.off - d.bits.off)]
  IN  read[len].bits

ReadAnnotations(b, tbl) ==
  Then(Varint(b, readVarUintLen(Rest(b), b.len)),
       LAMBDA s :
         LET left == Wrap(b.len - (s.off - b.off) - s.val)
         IN  IF s.val = 0 \/ left = 0 THEN Fails(s, "syntax")
             ELSE Then(Then(ReadMarks(s, s.val, tbl),
                            LAMBDA m : Fails(m, ValidateAnnotatedValue(m, left))),
                       LAMBDA m : ClearTag([m EXCEPT !.state = "beforeValue"])))

\* ReadInt to ReadBytes: the payload of a scalar, which is a number in case of an
\* int or a symbol and the bytes themselves otherwise.
ReadScalar(b) ==
  LET s == readN(b, b.len)
      i == ReadInt(s.val, b.code = "negint")
  IN  IF b.code = "symbol" /\ b.len > 8 THEN Fails(b, "syntax")
      ELSE IF s.ret # "nil" THEN s
      ELSE IF b.code = "float" /\ b.len \notin {0, 4, 8} THEN Fails(s, "syntax")
      ELSE IF b.code \in {"int", "negint"}
      THEN IF i.err # "nil" THEN Fails(s, i.err) ELSE AfterValue([s EXCEPT !.val = <<i.val>>])
      ELSE IF b.code = "symbol" THEN AfterValue([s EXCEPT !.val = <<Magnitude(s.val)>>])
      ELSE AfterValue(s)
=============================================================================
