----------------------------- MODULE TextReader -----------------------------
(***************************************************************************)
(* The text reader (ion/textreader.go) over the tokenizer, with the state  *)
(* all readers share (ion/reader.go) and the reading of local symbol       *)
(* tables by LocalTables.                                                  *)
(*                                                                         *)
(* The record r is the textReader.  A method is an operator from the       *)
(* record to the record it leaves; done and ret are the results of the     *)
(* steps of Next and of the other methods.  A value is set (or null), with *)
(* data: the number of an int, 0 or 1 for a bool, the text of a string,    *)
(* the glyphs of any other scalar (what their parsers make of those is not *)
(* modelled here); and with the token of a symbol.                         *)
(***************************************************************************)
EXTENDS Tokenizer, SymbolTable

CONSTANT Catalog     \* the reader's shared tables

Pop(s) == SubSeq(s, 1, Len(s) - 1)

NoName      == Token(NoText, -2)     \* fieldName == nil
NoValue     == [set |-> FALSE, data |-> << >>, token |-> NoName]
Value(data) == [set |-> TRUE, data |-> data, token |-> NoName]

newTextReaderBuf(in, last, after) ==
  [tok |-> NewTokenizer(in, last, after), state |-> "beforeTypeAnnotations", ctx |-> << >>,
   eof |-> FALSE, err |-> "nil", lst |-> SystemTable, fieldName |-> NoName,
   annotations |-> << >>, type |-> "none", value |-> NoValue, done |-> FALSE, ret |-> "nil"]

Clear(r) ==
  [r EXCEPT !.fieldName = NoName, !.annotations = << >>, !.type = "none", !.value = NoValue]

AtTop(r)   == r.ctx = << >>
Context(r) == IF AtTop(r) THEN "top" ELSE r.ctx[Len(r.ctx)]

explode(r, e) == IF r.err # "nil" THEN r ELSE [r EXCEPT !.state = "done", !.err = e]
syntax(r)     == explode(r, "syntax")

\* What a method of the tokenizer left; its error makes Next explode.  As with the
\* tokenizer, nothing changes a reader with an error.
After(r, z) == IF Failed(z) THEN explode([r EXCEPT !.tok = z], z.err) ELSE [r EXCEPT !.tok = z]

AtEnd(r) == [r EXCEPT !.eof = TRUE, !.done = TRUE]

stateAfterValue(r) ==
  IF Context(r) \in {"list", "struct"} THEN "afterValue" ELSE "beforeTypeAnnotations"

Shows(r, type, value) ==
  IF r.err # "nil" THEN r
  ELSE [r EXCEPT !.state = stateAfterValue(r), !.type = type, !.value = value, !.done = TRUE]
-----------------------------------------------------------------------------
(***************************************************************************)
(* Names.                                                                  *)
(***************************************************************************)
\* newSymbolToken: "$n" is the symbol n, any other text has the id of the table if
\* the table has it.
newSymbolToken(tbl, text) ==
  LET sid == SymbolIdentifier(text)
      id  == FindByName(tbl, text)
  IN  IF sid # SymbolIDUnknown THEN NewSymbolTokenBySID(tbl, sid)
      ELSE [err |-> "nil", token |-> Token(text, IF id > 0 THEN id ELSE SymbolIDUnknown)]

\* A quoted symbol is its text, whatever that is.
TokenOf(r, tok, text) ==
  IF tok = "quoted" THEN [err |-> "nil", token |-> Token(text, SymbolIDUnknown)]
  ELSE newSymbolToken(r.lst, text)

Keywords == {"null", "true", "false", "nan"}

verifyUnquotedSymbol(tok, text) == tok = "symbol" => text \notin Keywords
-----------------------------------------------------------------------------
(***************************************************************************)
(* Scalars.                                                                *)
(***************************************************************************)
Types ==
  {"null", "bool", "int", "float", "decimal", "timestamp", "symbol", "string", "blob", "clob",
   "list", "struct", "sexp"}

NullName(r) ==
  IF Joined(r.tok.text) \notin Types THEN syntax(r) ELSE Shows(r, Joined(r.tok.text), NoValue)

NullType(r) ==
  IF r.err = "nil" /\ r.tok.token # "symbol" THEN syntax(r)
  ELSE NullName(After(r, ReadValue(r.tok)))

readNullType(r) == NullType(After(r, NextToken(r.tok)))

MaybeTyped(r) ==
  IF r.err # "nil" THEN r
  ELSE IF r.tok.got THEN readNullType(r)
  ELSE Shows(r, "null", NoValue)

\* White space between null and a dot ends the null.
onNull(r, white) ==
  IF white THEN Shows(r, "null", NoValue) ELSE MaybeTyped(After(r, SkipDot(r.tok)))

onSymbol(r, text, white) ==
  LET t == newSymbolToken(r.lst, text)
  IN  CASE text = "null"            -> onNull(r, white)
        [] text \in {"true", "false"} ->
             Shows(r, "bool", Value(<<IF text = "true" THEN 1 ELSE 0>>))
        [] text = "nan"             -> Shows(r, "float", Value(<<"nan">>))
        [] OTHER -> IF t.err # "nil" THEN explode(r, t.err)
                    ELSE Shows(r, "symbol", [Value(<< >>) EXCEPT !.token = t.token])

\* The number of a text, behind its sign and 0b or 0x.
parseInt(text, radix) ==
  LET neg    == text # << >> /\ text[1] = "-"
      prefix == (IF neg THEN 1 ELSE 0) + (IF radix = 10 THEN 0 ELSE 2)
      digits == SubSeq(text, prefix + 1, Len(text))
      n[i \in 0 .. Len(digits)] == IF i = 0 THEN 0 ELSE radix * n[i - 1] + ValueOf[digits[i]]
  IN  IF text = << >> THEN [err |-> "panic", n |-> 0]
      ELSE IF digits = << >> THEN [err |-> "syntax", n |-> 0]
      ELSE [err |-> "nil", n |-> (IF neg THEN -1 ELSE 1) * n[Len(digits)]]

ShowsInt(r, radix) ==
  LET i == parseInt(r.tok.text, radix)
  IN  IF i.err # "nil" THEN explode(r, i.err) ELSE Shows(r, "int", Value(<<i.n>>))

ShowsText(r, type) == Shows(r, type, Value(r.tok.text))

ShowsNumber(r) ==
  IF r.err = "nil" /\ r.tok.got = "int" THEN ShowsInt(r, 10) ELSE ShowsText(r, r.tok.got)

\* ReadNumber leaves the token unfinished.
onNumber(r) ==
  LET tok == r.tok.token
  IN  CASE tok = "binary" -> ShowsInt(After(r, ReadValue(r.tok)), 2)
        [] tok = "hex"    -> ShowsInt(After(r, ReadValue(r.tok)), 16)
        [] tok = "number" -> ShowsNumber(After(r, ReadNumber([r.tok EXCEPT !.text = << >>])))
        [] OTHER          -> Shows(r, "float", Value(<<tok>>))

ShowsString(r) == Shows(r, "string", Value(Joined(r.tok.text)))

onTimestamp(r) == ShowsText(After(r, ReadValue(r.tok)), "timestamp")

onLongClob(r, q) ==
  IF q.got THEN ShowsText(After(r, ReadLongClob(q)), "clob") ELSE After(r, invalidChar(q))

Lob(r, z) ==
  CASE z.c = "\"" -> ShowsText(After(r, ReadShortClob(z)), "clob")
    [] z.c = "'"  -> onLongClob(r, IsTripleQuote(z))
    [] OTHER      -> ShowsText(After(r, ReadBlob(unread(z))), "blob")

onLob(r) == Lob(r, skipLobWhitespace(r.tok))
-----------------------------------------------------------------------------
(***************************************************************************)
(* What a token means where it stands.                                     *)
(***************************************************************************)
nextAfterValue(r) ==
  LET tok == r.tok.token
  IN  CASE tok = "," ->
             [r EXCEPT !.state = IF Context(r) = "struct" THEN "beforeFieldName"
                                 ELSE "beforeTypeAnnotations"]
        [] \/ tok = "}" /\ Context(r) = "struct"
           \/ tok = "]" /\ Context(r) = "list" -> AtEnd(r)
        [] OTHER -> syntax(r)

Colon(r) ==
  IF r.err # "nil" THEN r
  ELSE IF r.tok.token # ":" THEN syntax(r)
  ELSE [r EXCEPT !.state = "beforeTypeAnnotations"]

FieldName(r, tok) ==
  LET text == Joined(r.tok.text)
      name == TokenOf(r, tok, text)
  IN  IF r.err # "nil" THEN r
      ELSE IF ~verifyUnquotedSymbol(tok, text) THEN syntax(r)
      ELSE IF name.err # "nil" THEN explode(r, name.err)
      ELSE Colon(After([r EXCEPT !.fieldName = name.token], NextToken(r.tok)))

nextBeforeFieldName(r) ==
  LET tok == r.tok.token
  IN  CASE tok = "}" -> AtEnd(r)
        [] tok \in {"symbol", "quoted", "string", "long"} ->
             FieldName(After(r, ReadValue(r.tok)), tok)
        [] OTHER -> syntax(r)

\* A symbol before a double colon is an annotation.
MarkOrSymbol(r, tok) ==
  LET text == Joined(r.tok.text)
      name == TokenOf(r, tok, text)
  IN  IF r.err # "nil" THEN r
      ELSE IF r.tok.got.colons
      THEN IF ~verifyUnquotedSymbol(tok, text) \/ tok = "operator" THEN syntax(r)
           ELSE IF name.err # "nil" THEN explode(r, name.err)
           ELSE [r EXCEPT !.annotations = Append(@, name.token)]
      ELSE IF tok = "quoted"
      THEN Shows(r, "symbol", [Value(<< >>) EXCEPT !.token = name.token])
      ELSE onSymbol(r, text, r.tok.got.white)

onName(r) == MarkOrSymbol(After(r, SkipDoubleColon(ReadValue(r.tok))), r.tok.token)

ContainerOf == ("[" :> "list") @@ ("(" :> "sexp") @@ ("{" :> "struct")

nextBeforeTypeAnnotations(r) ==
  LET tok == r.tok.token
  IN  CASE tok = "eof" -> IF AtTop(r) THEN AtEnd(r) ELSE explode(r, "ueof")
        [] \/ tok \in {"quoted", "symbol"}
           \/ tok \in {"operator", "dot"} /\ Context(r) = "sexp" -> onName(r)
        [] tok \in {"string", "long"} ->
             ShowsString(After(r, ReadValue(r.tok)))
        [] tok \in {"binary", "hex", "number", "+inf", "-inf"} -> onNumber(r)
        [] tok = "timestamp" -> onTimestamp(r)
        [] tok = "{{" -> onLob(r)
        [] tok \in {"{", "[", "("} ->
             [Shows(r, ContainerOf[tok], Value(<< >>)) EXCEPT !.state = "beforeContainer"]
        [] \/ tok = "]" /\ Context(r) = "list"
           \/ tok = ")" /\ Context(r) = "sexp" -> AtEnd(r)
        [] OTHER -> syntax(r)

OnToken(r) ==
  CASE r.err # "nil"                     -> r
    [] r.state = "afterValue"            -> nextAfterValue(r)
    [] r.state = "beforeFieldName"       -> nextBeforeFieldName(r)
    [] r.state = "beforeTypeAnnotations" -> nextBeforeTypeAnnotations(r)
    [] OTHER                             -> explode(r, "panic")

\* One token of the loop of Next, but for the local symbol tables.
RawToken(r) == OnToken(After(r, NextToken(r.tok)))

Finished(r) ==
  IF r.err = "nil" /\ r.tok.got THEN [r EXCEPT !.state = stateAfterValue(r)] ELSE r

finishValue(r) == Finished(After(r, FinishValue(r.tok)))

\* What Next does before its loop.
Begun(r) == IF r.err # "nil" THEN r ELSE [Clear(r) EXCEPT !.done = FALSE]

AtRest(r) == r.state = "done" \/ r.eof
-----------------------------------------------------------------------------
(***************************************************************************)
(* Containers.                                                             *)
(***************************************************************************)
StepIn_KeepsUnfinished(r) ==
  IF r.err # "nil" THEN [r EXCEPT !.ret = r.err]
  ELSE IF r.state # "beforeContainer" THEN [r EXCEPT !.ret = "usage"]
  ELSE [Clear(r) EXCEPT !.ctx = Append(@, r.type), !.ret = "nil",
                        !.state = IF r.type = "struct" THEN "beforeFieldName"
                                  ELSE "beforeTypeAnnotations"]

StepIn(r) ==
  IF r.err # "nil" THEN [r EXCEPT !.ret = r.err]
  ELSE IF r.state # "beforeContainer" THEN [r EXCEPT !.ret = "usage"]
  ELSE [Clear(r) EXCEPT !.ctx = Append(@, r.type), !.tok = SetFinished(@), !.ret = "nil",
                        !.state = IF r.type = "struct" THEN "beforeFieldName"
                                  ELSE "beforeTypeAnnotations"]

\* The value the reader is on is finished first, then all that follow it; any error
\* is the end of the reader.
SkipRest(r) ==
  IF r.err # "nil" \/ r.eof THEN r ELSE After(r, SkipContainerContents(r.tok, Context(r)))

Left(r) ==
  LET out == [r EXCEPT !.ctx = Pop(@)]
  IN  IF r.err # "nil" THEN [r EXCEPT !.ret = r.err]
      ELSE [Clear(out) EXCEPT !.state = stateAfterValue(out), !.eof = FALSE, !.ret = "nil"]

StepOut(r) ==
  IF r.err # "nil" THEN [r EXCEPT !.ret = r.err]
  ELSE IF AtTop(r) THEN [r EXCEPT !.ret = "usage"]
  ELSE Left(SkipRest(After(r, FinishValue(r.tok))))
-----------------------------------------------------------------------------
(***************************************************************************)
(* Local symbol tables, read through StepIn, Next and StepOut.             *)
(***************************************************************************)
RECURSIVE NextRaw(_)

TextOf(data) == data

INSTANCE LocalTables

Installed(r, t) ==
  IF t.err # "nil" THEN explode(r, t.err) ELSE [r EXCEPT !.lst = t.tbl, !.done = FALSE]

Install(e) ==
  IF e.err # "nil" THEN explode(e.r, e.err)
  ELSE Installed(e.r, ReadLocalTable(WireOf(e.got), e.r.lst, Catalog))

IsIonSymbolTable(as) == as # << >> /\ as[1].text = "$ion_symbol_table"

\* A struct at top level may be a local symbol table.  A null one never is: the
\* reader takes it for a value.
UnlessTable(r) ==
  IF ~r.done \/ r.state # "beforeContainer" \/ r.type # "struct" \/ ~AtTop(r)
     \/ ~IsIonSymbolTable(r.annotations)
  THEN r
  ELSE Install(TableParts(r))

\* Tokens up to the value for the user, or the end.
RECURSIVE Tokens(_)
Tokens(r) == IF r.done \/ r.err # "nil" THEN r ELSE Tokens(UnlessTable(RawToken(r)))

\* Next
NextRaw(r) == IF AtRest(r) THEN r ELSE Tokens(Begun(finishValue(r)))
=============================================================================
