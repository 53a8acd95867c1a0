----------------------------- MODULE TextWriter -----------------------------
(***************************************************************************)
(* The text writer (ion/textwriter.go, ion/textutils.go).                  *)
(*                                                                         *)
(* It writes as it goes: every atom of the output is one call of           *)
(* io.Writer.Write, white space and punctuation included.  Whatever is     *)
(* text of one value or name is a lexeme, written in one or more parts;    *)
(* the characters between two quotes are one part, already escaped.  The   *)
(* error of a "lost" part is returned but not stored.                      *)
(*                                                                         *)
(* A local symbol table goes out in front of the first value, through the  *)
(* methods of the same writer, from inside the method of that value.       *)
(***************************************************************************)
EXTENDS Writer

Lists == INSTANCE SequencesExt

CONSTANTS
  Options,     \* the options of NewTextWriterOpts: pretty, quiet
  Scalars,     \* the lexemes of the scalar values
  Symbols,     \* the tokens passed to WriteSymbol
  Strings,     \* the strings passed to WriteSymbolFromString
  NotBare      \* the texts that need quotes: "", keywords, and what is no identifier

ASSUME ScalarsAssumption == \A l \in Scalars : l.lex = "scalar" /\ l.calls \in Nat \ {0}

\* An id has a text, "$" and its digits.
ASSUME TokensAssumption ==
  \A tok \in Names \cup Marks \cup Symbols :
    tok.text = NoText /\ tok.sid # SymbolIDUnknown => \E t \in DOMAIN SidText : SidText[t] = tok.sid

ASSUME NotBareAssumption == NotBare \subseteq Text \ DOMAIN SidText

Lexeme(lex, val, calls, lost) == [lex |-> lex, val |-> val, calls |-> calls, lost |-> lost]

Raw(x)    == Lexeme("scalar", x, 1, {})      \* written by writeRawString
String(x) == Lexeme("scalar", x, 3, {})      \* a quote, the characters, a quote
Lob(x)    == Lexeme("scalar", x, 3, {2})     \* braces, the bytes, braces

\* The texts of a symbol: "$n" without quotes is the symbol n, with quotes a text.
Bare(t) == IF t \in NotBare THEN Lexeme("quoted", t, 3, {}) ELSE Lexeme("bare", t, 1, {})
SidName(n) == CHOOSE t \in DOMAIN SidText : SidText[t] = n

Valid(tok) == tok.text # NoText \/ tok.sid # SymbolIDUnknown

\* writeSymbol of a valid token.
SymbolLexeme(tok) ==
  IF tok.text = NoText THEN Bare(SidName(tok.sid))
  ELSE IF SymbolIdentifier(tok.text) # SymbolIDUnknown THEN Lexeme("quoted", tok.text, 1, {})
  ELSE Bare(tok.text)

Parts(l) == [i \in 1 .. l.calls |-> [k |-> "part", of |-> l, part |-> i]]

Space(ch)   == [k |-> "space", ch |-> ch]
Newline     == Space("\n")
Comma(ch)   == [k |-> "comma", ch |-> ch]
Colon       == [k |-> "colon"]
DoubleColon == [k |-> "double_colon"]
Opening(c)  == [k |-> "open", c |-> c]
Closing(c)  == [k |-> "close", c |-> c]
-----------------------------------------------------------------------------
(***************************************************************************)
(* beginValue: separator, indentation, field name and annotations.         *)
(***************************************************************************)
Separator(v) ==
  IF ~v.needsSeparator THEN << >>
  ELSE IF v.ctx = << >> THEN <<Newline>>
  ELSE IF Top(v.ctx) = "sexp" THEN <<IF v.pretty THEN Newline ELSE Space(" ")>>
  ELSE <<Comma(IF v.pretty THEN "\n" ELSE "")>>

Indentation(v) == [i \in 1 .. IF v.pretty THEN v.indent ELSE 0 |-> Space("\t")]

Layout(v) ==
  Separator(v) \o (IF v.emptyContainer /\ v.pretty THEN <<Newline>> ELSE << >>) \o Indentation(v)

WriteFieldName(v) ==
  LET v1 == [v EXCEPT !.fieldName = NoName]
  IN  IF v.fieldName = NoName \/ ~Valid(v.fieldName) THEN Return(v1, "usage")
      ELSE EmitTo(v1, Append(Parts(SymbolLexeme(v.fieldName)), Colon))

\* The annotations in front of one that is not valid have been written.
WriteAnnotations(v, marks) ==
  LET invalid == {i \in 1 .. Len(marks) : ~Valid(marks[i])}
      n       == IF invalid = {} THEN Len(marks) ELSE MinOf(invalid) - 1
      v1      == EmitTo(v, Lists!FlattenSeq([i \in 1 .. n |->
                                         Append(Parts(SymbolLexeme(marks[i])), DoubleColon)]))
  IN  IF v1.ret = "nil" /\ invalid # {} THEN Return(v1, "usage") ELSE v1

LayNext(v)        == IF v.ret = "nil" THEN EmitTo(v, Layout(v)) ELSE v
NameNext(v, name) == IF v.ret = "nil" /\ InStruct(v)
                     THEN WriteFieldName([v EXCEPT !.fieldName = name]) ELSE v
MarkNext(v, marks) == IF v.ret = "nil" THEN WriteAnnotations(v, marks) ELSE v

BeginRest(v, name, marks) == MarkNext(NameNext(LayNext(v), name), marks)

EndValue_SeparatorOnly(v) == [v EXCEPT !.needsSeparator = TRUE]

EndValue(v) ==
  [v EXCEPT !.needsSeparator = TRUE, !.emptyContainer = FALSE, !.emptyStream = FALSE]
-----------------------------------------------------------------------------
(***************************************************************************)
(* What follows beginValue, and the ends of containers.                    *)
(***************************************************************************)
PutLexeme(v, l) ==
  IF v.ret # "nil" THEN Store(v)
  ELSE LET v1 == EmitTo(v, Parts(l))
       IN  IF v1.ret = "nil" THEN EndValue(v1)
           ELSE IF v1.writes - v.writes \in l.lost THEN v1
           ELSE Store(v1)

\* The context is pushed before the bracket is written.
Enter(v, c) ==
  IF v.ret # "nil" THEN Store(v)
  ELSE Store(EmitTo([v EXCEPT !.ctx = Append(@, c), !.indent = @ + 1,
                              !.needsSeparator = FALSE, !.emptyContainer = TRUE],
                    <<Opening(c)>>))

EndLayout(v) ==
  IF ~v.emptyContainer /\ v.pretty THEN <<Newline>> \o Indentation(v) ELSE << >>

Leave(v, c) == EmitTo(v, Append(EndLayout(v), Closing(c)))

End_NewLineFirst(v, c) ==
  IF v.err # "nil" THEN Return(v, v.err)
  ELSE IF v.ctx = << >> \/ Top(v.ctx) # c THEN Store(Return(v, "usage"))
  ELSE LET v1 == Leave(v, c)
       IN  IF v1.ret # "nil" THEN Store(v1)
           ELSE EndValue([Clear(v1) EXCEPT !.ctx = Pop(@), !.indent = @ - 1])

End(v, c) ==
  IF v.err # "nil" THEN Return(v, v.err)
  ELSE IF v.ctx = << >> \/ Top(v.ctx) # c THEN Store(Return(v, "usage"))
  ELSE LET v1 == Leave([v EXCEPT !.indent = @ - 1], c)
       IN  IF v1.ret # "nil" THEN Store(v1)
           ELSE EndValue([Clear(v1) EXCEPT !.ctx = Pop(@)])
-----------------------------------------------------------------------------
(***************************************************************************)
(* The local symbol table, as calls of the writer's methods (lst.WriteTo). *)
(* A call is also the event of its meaning.                                *)
(***************************************************************************)
Marked(t)    == [e |-> "annotation", name |-> [text |-> t]]
Named(t)     == [e |-> "field", name |-> [text |-> t]]
Begun(c)     == [e |-> "begin", c |-> c]
Ended(c)     == [e |-> "end", c |-> c]
Scalar(l)    == [e |-> "scalar", lexeme |-> l]

ImportCalls(imp) ==
  <<Begun("struct"), Named("name"), Scalar(String([string |-> imp.name])),
    Named("version"), Scalar(Raw([int |-> imp.version])),
    Named("max_id"), Scalar(Raw([int |-> imp.maxID])), Ended("struct")>>

\* The writer's builder is never added to: it has imports or nothing.
TableCalls(tbl) ==
  LET wire == WriteTo(tbl)
  IN  IF wire.kind = "absent" THEN << >>
      ELSE <<Marked("$ion_symbol_table"), Begun("struct"), Named("imports"), Begun("list")>>
             \o Lists!FlattenSeq([i \in 1 .. Len(wire.imports) |-> ImportCalls(wire.imports[i])])
             \o <<Ended("list"), Ended("struct")>>

\* beginValue when the table has been written.
BeginNext(v) == BeginRest(Clear(v), v.fieldName, v.annotations)

Do(v, call) ==
  CASE call.e = "annotation" -> Annotations(v, <<Token(call.name.text, SymbolIDUnknown)>>)
    [] call.e = "field"      -> FieldName(v, Token(call.name.text, SymbolIDUnknown))
    [] call.e = "begin"      -> Enter(BeginNext(v), call.c)
    [] call.e = "scalar"     -> PutLexeme(BeginNext(v), call.lexeme)
    [] OTHER                 -> End(v, call.c)

DoNext(v, call) == IF v.ret # "nil" THEN v ELSE Do(v, call)

RunCalls(v, calls) ==
  LET run[i \in 0 .. Len(calls)] == IF i = 0 THEN v ELSE DoNext(run[i - 1], calls[i])
  IN  run[Len(calls)]

WriteTable(v) ==
  IF v.wroteLST THEN v ELSE RunCalls([v EXCEPT !.wroteLST = TRUE], TableCalls(v.tbl))

BeginValue_TableTakesName(v) ==
  BeginNext(WriteTable(Return(v, "nil")))

\* The name and the annotations are set aside while the table is written.
BeginValue(v) == BeginRest(WriteTable(Return(Clear(v), "nil")), v.fieldName, v.annotations)
-----------------------------------------------------------------------------
(***************************************************************************)
(* The methods.                                                            *)
(***************************************************************************)
WriteLexeme_Anyway(v, l) == PutLexeme(BeginValue(v), l)

WriteLexeme(v, l) ==
  IF v.err # "nil" THEN Return(v, v.err) ELSE PutLexeme(BeginValue(v), l)

\* A token without text or id is found out when all in front of it is written.
WriteSymbol(v, tok) ==
  IF v.err # "nil" THEN Return(v, v.err)
  ELSE IF Valid(tok) THEN PutLexeme(BeginValue(v), SymbolLexeme(tok))
  ELSE LET v1 == BeginValue(v) IN Store(IF v1.ret = "nil" THEN Return(v1, "usage") ELSE v1)

WriteSymbolFromString(v, s) == WriteLexeme(v, Bare(s))

Begin(v, c) ==
  IF v.err # "nil" THEN Return(v, v.err) ELSE Enter(BeginValue(v), c)

Finish(v) ==
  IF v.err # "nil" THEN Return(v, v.err)
  ELSE IF v.ctx # << >> THEN Return(v, "usage")
  ELSE IF v.emptyStream \/ v.quiet THEN Clear(Return(v, "nil"))
  ELSE LET v1 == EmitTo(v, <<Newline>>)
       IN  IF v1.ret # "nil" THEN Store(v1)
           ELSE [Clear(v1) EXCEPT !.needsSeparator = FALSE, !.emptyStream = TRUE]
-----------------------------------------------------------------------------
(***************************************************************************)
(* The system: one writer and its caller.                                  *)
(***************************************************************************)
NewTextWriter(pretty, quiet, tbl, fault) ==
  [pretty |-> pretty, quiet |-> quiet, tbl |-> tbl, wroteLST |-> FALSE, fault |-> fault,
   writes |-> 0, out |-> << >>, ctx |-> << >>, err |-> "nil", ret |-> "nil",
   fieldName |-> NoName, annotations |-> << >>, indent |-> 0,
   needsSeparator |-> FALSE, emptyContainer |-> FALSE, emptyStream |-> TRUE]

Init ==
  /\ \E opts \in Options, imports \in {<< >>, Imports}, fault \in Faults :
       w = NewTextWriter(opts.pretty, opts.quiet, NewBuilder(imports), fault)
  /\ said = << >>
  /\ kept = TRUE

\* A token is its text if it has one, else its id; a string "$n" is an id.
Meant(tok) == IF tok.text # NoText THEN [text |-> tok.text] ELSE [id |-> tok.sid]
MeantString(s) ==
  IF SymbolIdentifier(s) # SymbolIDUnknown THEN [id |-> SymbolIdentifier(s)] ELSE [text |-> s]

Prefix ==
  (IF InStruct(w) THEN <<[e |-> "field", name |-> Meant(w.fieldName)]>> ELSE << >>)
  \o [i \in 1 .. Len(w.annotations) |-> [e |-> "annotation", name |-> Meant(w.annotations[i])]]

CallScalar == \E l \in Scalars : Call(WriteLexeme(w, l), Append(Prefix, Scalar(l)))
CallSymbol ==
  \E t \in Symbols :
    Call(WriteSymbol(w, t), Append(Prefix, [e |-> "symbol", name |-> Meant(t)]))
CallSymbolFromString ==
  \E s \in Strings :
    Call(WriteSymbolFromString(w, s), Append(Prefix, [e |-> "symbol", name |-> MeantString(s)]))
CallBegin == \E c \in Kinds : /\ Len(w.ctx) < MaxDepth
                              /\ Call(Begin(w, c), Append(Prefix, Begun(c)))
CallEnd    == \E c \in Kinds : Call(End(w, c), <<Ended(c)>>)
CallFinish == Call(Finish(w), << >>)

Next ==
  \/ CallFieldName
  \/ CallAnnotations
  \/ CallScalar
  \/ CallSymbol
  \/ CallSymbolFromString
  \/ CallBegin
  \/ CallEnd
  \/ CallFinish

Spec == Init /\ [][Next]_vars
=============================================================================
