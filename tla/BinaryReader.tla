---------------------------- MODULE BinaryReader ----------------------------
(***************************************************************************)
(* The binary reader (ion/binaryreader.go) over the bitstream, with the    *)
(* state all readers share (ion/reader.go) and the reading of local symbol *)
(* tables by LocalTables.                                                  *)
(*                                                                         *)
(* The record r is the binaryReader.  A method is an operator from the     *)
(* record to the record it leaves; done and ret are the results of next()  *)
(* and of the other methods.  A value is set (or null), with data: the     *)
(* number of an int, 0 or 1 for a bool, the bytes of any other scalar; and *)
(* with the token of a symbol.                                             *)
(***************************************************************************)
EXTENDS Bitstream

CONSTANTS
  Spelling,    \* the bytes of the texts that occur as string values
  MaxSteps     \* bound: raw values up to one for the user; a reader that would need
               \* more fails

ASSUME SpellingAssumption ==
  \A s, t \in DOMAIN Spelling : s # t => Spelling[s] # Spelling[t]

TextOf(bytes) == CHOOSE t \in DOMAIN Spelling : Spelling[t] = bytes

NoName       == Token(NoText, -2)     \* fieldName == nil
NoValue      == [set |-> FALSE, data |-> << >>, token |-> NoName]
Value(data)  == [set |-> TRUE, data |-> data, token |-> NoName]
invalidReset == -1

NewReader(in, last, after) ==
  [bits |-> NewBitstream(in, last, after), ctx |-> << >>, eof |-> FALSE, err |-> "nil",
   lst |-> SystemTable, fieldName |-> NoName, annotations |-> << >>,
   type |-> "none", value |-> NoValue, resetPos |-> 0, done |-> FALSE, ret |-> "nil"]

Clear(r) ==
  [r EXCEPT !.fieldName = NoName, !.annotations = << >>, !.type = "none", !.value = NoValue]

AtTop(r) == r.ctx = << >>

\* The stream is at b; next() goes on, or fails with the error of b.
On(r, b) == [r EXCEPT !.bits = b, !.err = b.ret, !.done = FALSE]

\* "if err != nil { return err }", as Then is for the bitstream.
Goes(r, step(_)) == IF r.err # "nil" THEN r ELSE step(r)

Shows(r, type, value) == [r EXCEPT !.type = type, !.value = value, !.done = TRUE]
-----------------------------------------------------------------------------
(***************************************************************************)
(* One raw value of the stream.                                            *)
(***************************************************************************)
readBVM(r) ==
  Goes(On(r, ReadBVM(r.bits)),
       LAMBDA s : IF s.bits.val # <<1, 0>> THEN [s EXCEPT !.err = "version"]
                  ELSE [s EXCEPT !.lst = SystemTable])

readFieldName(r) ==
  Goes(On(r, ReadFieldID(r.bits)),
       LAMBDA s : LET t == NewSymbolTokenBySID(s.lst, s.bits.val)
                  IN  IF t.err # "nil" THEN [s EXCEPT !.err = t.err]
                      ELSE [s EXCEPT !.fieldName = t.token])

readAnnotations(r) ==
  Goes(On(r, ReadAnnotations(r.bits, r.lst)), LAMBDA s : [s EXCEPT !.annotations = s.bits.val])

TypeOfCode(code) ==
  CASE code \in {"false", "true"} -> "bool"
    [] code \in {"int", "negint"} -> "int"
    [] OTHER                      -> code

\* A scalar is read at once, a container only when it is stepped into.
ReadValue(r) ==
  LET code == r.bits.code
      type == TypeOfCode(code)
  IN  IF r.bits.null THEN Shows(r, type, NoValue)
      ELSE IF code \in {"list", "sexp", "struct"} THEN Shows(r, type, Value(<< >>))
      ELSE IF type = "bool" THEN Shows(r, type, Value(<<IF code = "true" THEN 1 ELSE 0>>))
      ELSE Goes(On(r, ReadScalar(r.bits)),
                LAMBDA s :
                  LET t == NewSymbolTokenBySID(s.lst, s.bits.val[1])
                  IN  IF code # "symbol" THEN Shows(s, type, Value(s.bits.val))
                      ELSE IF t.err # "nil" THEN [s EXCEPT !.err = t.err]
                      ELSE Shows(s, type, [Value(<< >>) EXCEPT !.token = t.token]))

\* next(), but for the local symbol tables among the values.
OnTag(r) ==
  CASE r.bits.code = "eof"        -> [r EXCEPT !.eof = TRUE, !.done = TRUE]
    [] r.bits.code = "bvm"        -> readBVM(r)
    [] r.bits.code = "fieldid"    -> readFieldName(r)
    [] r.bits.code = "annotation" -> readAnnotations(r)
    [] r.bits.code = "null" /\ ~r.bits.null -> On(r, SkipValue(r.bits))   \* padding
    [] OTHER                      -> ReadValue(r)

RawValue(r) == Goes(On(r, NextTag(r.bits)), OnTag)

Bounded(r) == IF r.done \/ r.err # "nil" THEN r ELSE [r EXCEPT !.err = "bound"]

\* Next: raw values up to one for the user.
Repeat(r, raw(_)) ==
  LET after[n \in 0 .. MaxSteps] ==
        IF n = 0 THEN [Clear(r) EXCEPT !.done = FALSE]
        ELSE LET s == after[n - 1] IN IF s.done \/ s.err # "nil" THEN s ELSE raw(s)
  IN  IF r.eof \/ r.err # "nil" THEN r ELSE Bounded(after[MaxSteps])
-----------------------------------------------------------------------------
(***************************************************************************)
(* Containers.                                                             *)
(***************************************************************************)
StepIn(r) ==
  IF r.err # "nil" THEN [r EXCEPT !.ret = r.err]
  ELSE IF r.type \notin {"list", "sexp", "struct"} \/ ~r.value.set
  THEN [r EXCEPT !.ret = "usage"]
  ELSE [Clear(r) EXCEPT !.ctx = Append(@, r.type), !.bits = BitsStepIn(@), !.ret = "nil"]

StepOut_KeepsEnd(r) ==
  LET b == BitsStepOut(r.bits)
  IN  IF r.err # "nil" THEN [r EXCEPT !.ret = r.err]
      ELSE IF AtTop(r) THEN [r EXCEPT !.ret = "usage"]
      ELSE IF b.ret # "nil" THEN [r EXCEPT !.bits = b, !.ret = b.ret]
      ELSE [Clear(r) EXCEPT !.bits = b, !.ctx = Pop(@), !.ret = "nil"]

\* An error of the stream is returned and not stored, the context stays.
StepOut(r) ==
  LET b == BitsStepOut(r.bits)
  IN  IF r.err # "nil" THEN [r EXCEPT !.ret = r.err]
      ELSE IF AtTop(r) THEN [r EXCEPT !.ret = "usage"]
      ELSE IF b.ret # "nil" THEN [r EXCEPT !.bits = b, !.ret = b.ret]
      ELSE [Clear(r) EXCEPT !.bits = b, !.ctx = Pop(@), !.eof = FALSE, !.ret = "nil"]
-----------------------------------------------------------------------------
(***************************************************************************)
(* Local symbol tables, read through StepIn, Next and StepOut.             *)
(***************************************************************************)
NextRaw(r) == Repeat(r, RawValue)

INSTANCE LocalTables

\* A table is installed, or the reader fails.  Reset can return to the end of the
\* first table only.
Install(e, cat) ==
  LET t == ReadLocalTable(WireOf(e.got), e.r.lst, cat)
  IN  IF e.err # "nil" THEN [e.r EXCEPT !.err = e.err]
      ELSE IF t.err # "nil" THEN [e.r EXCEPT !.err = t.err]
      ELSE [e.r EXCEPT !.lst = t.tbl, !.done = FALSE,
                       !.resetPos = IF @ = 0 THEN e.r.bits.pos ELSE invalidReset]

ReadTable(r, cat) == Install(TableParts(r), cat)

IsIonSymbolTable(as) == as # << >> /\ as[1].text = "$ion_symbol_table"

\* next(): a struct at top level may be a local symbol table, and a null one
\* brings the system table back.
UnlessTable(r, cat) ==
  IF ~r.done \/ r.type # "struct" \/ ~AtTop(r) \/ ~IsIonSymbolTable(r.annotations) THEN r
  ELSE IF IsNull(r) THEN [Clear(r) EXCEPT !.lst = SystemTable, !.done = FALSE]
  ELSE ReadTable(r, cat)

Raw(r, cat) == UnlessTable(RawValue(r), cat)

NextValue(r, cat) == Repeat(r, LAMBDA s : Raw(s, cat))

\* The same input again, from the end of its local symbol table.  Where the reader
\* was (ctx) and its field name are not reset.
Reset(r, in) ==
  IF r.resetPos = invalidReset THEN [r EXCEPT !.ret = "usage"]
  ELSE LET rest == SubSeq(in, r.resetPos + 1, Len(in))
       IN  [r EXCEPT !.annotations = << >>, !.type = "none", !.value = NoValue,
                     !.err = "nil", !.eof = FALSE, !.ret = "nil",
                     !.bits = NewBitstream(rest, Len(rest), "eof")]
=============================================================================
