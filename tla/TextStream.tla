----------------------------- MODULE TextStream -----------------------------
(***************************************************************************)
(* A reader of Ion text at work: a stream, as an author of Ion text may    *)
(* write it, the reader of TextReader and a caller who may call anything.  *)
(*                                                                         *)
(* A stream is a sequence of items, values and local symbol tables, and    *)
(* the gap its author leaves wherever white space may stand.  It has two   *)
(* readings.  Glyphs writes it down; Values says what it means, each name  *)
(* in the table in force at that point.  The reader gets the glyphs, or    *)
(* the first of them only, and has to show the values: ReadsStream.        *)
(***************************************************************************)
EXTENDS TextReader

CONSTANTS
  Streams      \* records of items, gap and cuts: may the text be cut?

VARIABLES
  stream,      \* the text, what it means, and what is lost of it
  reader,
  path,        \* history: where the calls have moved the cursor
  answer       \* the last call, and whether it returned true, or no error

vars == <<stream, reader, path, answer>>
-----------------------------------------------------------------------------
(***************************************************************************)
(* Authors.  A name has its glyphs and a text or, in a name of the form    *)
(* $n, an id.  A node is a value with its field name, its annotations, and *)
(* the glyphs of a scalar or the items of a container.                     *)
(***************************************************************************)
Bare(t)      == [glyphs |-> <<t>>, text |-> t, sid |-> -1]
Quoted(t)    == [Bare(t) EXCEPT !.glyphs = <<"'", t, "'">>]
InString(t)  == [Bare(t) EXCEPT !.glyphs = <<"\"", t, "\"">>]
InLong(t)    == [Bare(t) EXCEPT !.glyphs = <<"'", "'", "'", t, "'", "'", "'">>]
Id(t)        == [glyphs |-> <<t>>, text |-> NoText, sid |-> SidText[t]]
Nameless     == [glyphs |-> << >>, text |-> NoText, sid |-> -1]

Node(type, glyphs, data) ==
  [type |-> type, set |-> TRUE, glyphs |-> glyphs, data |-> data, symbol |-> Nameless,
   name |-> Nameless, marks |-> << >>, items |-> << >>]

Literal(type, glyphs) == Node(type, glyphs, glyphs)
Number(glyphs, n)        == Node("int", glyphs, <<n>>)
String(glyphs, text)  == Node("string", <<"\"">> \o glyphs \o <<"\"">>, text)
Symbol(name)          == [Node("symbol", name.glyphs, << >>) EXCEPT !.symbol = name]
Null(type)            == [Node(type, <<"null", ".", type>>, << >>) EXCEPT !.set = FALSE]
Of(type, items)       == [Node(type, << >>, << >>) EXCEPT !.items = items]
Named(name, n)        == [n EXCEPT !.name = name]
Marked(marks, n)      == [n EXCEPT !.marks = marks]

Opener == [list |-> <<"[">>, sexp |-> <<"(">>, struct |-> <<"{">>]
Closer == [list |-> <<"]">>, sexp |-> <<")">>, struct |-> <<"}">>]

\* Where no comma stands between two values there is white space.
Between(type, gap) ==
  IF type \in {"list", "struct"} THEN gap \o <<",">> \o gap
  ELSE IF gap = << >> THEN <<" ">> ELSE gap

Flat(glyphs) == FoldLeft(LAMBDA s, t : s \o t, << >>, glyphs)

RECURSIVE Written(_, _)
Written(n, gap) ==
  LET marks == Flat([i \in 1 .. Len(n.marks) |->
                       n.marks[i].glyphs \o gap \o <<":", ":">> \o gap])
      field == IF n.name = Nameless THEN << >> ELSE n.name.glyphs \o gap \o <<":">> \o gap
      items == Flat([i \in 1 .. Len(n.items) |->
                       (IF i = 1 THEN << >> ELSE Between(n.type, gap)) \o Written(n.items[i], gap)])
  IN  field \o marks
      \o IF n.glyphs # << >> THEN n.glyphs
         ELSE Opener[n.type] \o gap \o items \o gap \o Closer[n.type]

\* A name is its text; an id stands for one where the table has none.
Meant(token) == IF token.text # NoText THEN [text |-> token.text, sid |-> -1] ELSE token

MeaningOf(name, tbl) ==
  IF name = Nameless THEN NoName
  ELSE IF name.text # NoText THEN Meant(name)
  ELSE Meant(Token(FindByID(tbl, name.sid), name.sid))

RECURSIVE Meaning(_, _)
Meaning(n, tbl) ==
  [view  |-> [k |-> "value", type |-> n.type, set |-> n.set, data |-> n.data,
              token       |-> MeaningOf(n.symbol, tbl),
              fieldName   |-> MeaningOf(n.name, tbl),
              annotations |-> [i \in 1 .. Len(n.marks) |-> MeaningOf(n.marks[i], tbl)]],
   items |-> [i \in 1 .. Len(n.items) |-> Meaning(n.items[i], tbl)]]
-----------------------------------------------------------------------------
(***************************************************************************)
(* Items of a stream.                                                      *)
(***************************************************************************)
TableItem(wire) == [k |-> "table", wire |-> wire]
Item(n)         == [k |-> "node", node |-> n]

Text1(t)     == String(<<t>>, t)
\* The numbers of a table are small.
Digit(n)     == Number(<<CHOOSE g \in Digits : ValueOf[g] = n>>, n)

ImportNode(decl) ==
  Of("struct", <<Named(Bare("name"), Text1(decl.name)), Named(Quoted("version"), Digit(decl.version))>>
               \o (IF decl.maxID < 0 THEN << >>
                   ELSE <<Named(InString("max_id"), Digit(decl.maxID))>>))

TableNode(wire) ==
  LET imports == IF wire.kind = "append" THEN Symbol(Bare("$ion_symbol_table"))
                 ELSE Of("list", [i \in 1 .. Len(wire.imports) |-> ImportNode(wire.imports[i])])
      symbols == Of("list", [i \in 1 .. Len(wire.symbols) |->
                               IF wire.symbols[i] = "" THEN Null("string")
                               ELSE Text1(wire.symbols[i])])
  IN  Marked(<<Bare("$ion_symbol_table")>>,
             Of("struct", <<Named(Bare("imports"), imports), Named(InLong("symbols"), symbols)>>))

ItemNode(i) == IF i.k = "table" THEN TableNode(i.wire) ELSE i.node

Glyphs(s) ==
  Flat([i \in 1 .. Len(s.items) |->
          (IF i = 1 THEN << >> ELSE Between("top", s.gap)) \o Written(ItemNode(s.items[i]), s.gap)])
  \o s.gap

\* The table in force before the n-th item.
TableAt(items, n) ==
  LET walk[i \in 1 .. n] ==
        IF i = 1 THEN SystemTable
        ELSE LET tbl == walk[i - 1]
             IN  IF items[i - 1].k = "table"
                 THEN ReadLocalTable(items[i - 1].wire, tbl, Catalog).tbl ELSE tbl
  IN  walk[n]

Values(items) ==
  LET nodes == SelectSeq([i \in 1 .. Len(items) |-> i], LAMBDA i : items[i].k = "node")
  IN  [j \in 1 .. Len(nodes) |-> Meaning(items[nodes[j]].node, TableAt(items, nodes[j]))]
-----------------------------------------------------------------------------
(***************************************************************************)
(* The system.                                                             *)
(***************************************************************************)
Past == -1

\* Where the text ends early, it does so behind what could not have gone on, as half
\* a number, half a comment or half of {{ could.
MayEndAt(s, text, n) ==
  \/ n = Len(text)
  \/ /\ n > 0 /\ text[n] \in {",", "[", "(", "{", "]", ")", "}", "\""}
     /\ text[n] = "{" => text[n + 1] # "{"
     /\ s.cuts /\ ~Contains(s.gap, "/")

\* Where the source fails, anywhere but behind 0b or 0x (readRadix).
MayFailAt(s, text, n) == s.cuts /\ ~(n > 1 /\ text[n] \in {"b", "x"} /\ text[n - 1] = "0")

\* Is there a clob with a closing brace inside a container?
RECURSIVE Braced(_)
Braced(n) ==
  \E i \in 1 .. Len(n.items) :
    \/ n.items[i].type = "clob" /\ Contains(n.items[i].data, "}")
    \/ Braced(n.items[i])

NewStream(s, text, arrives, after) ==
  [text |-> text, values |-> Values(s.items), arrives |-> arrives, after |-> after,
   damaged |-> arrives < Len(text) \/ after = "io",
   braced  |-> \E i \in 1 .. Len(s.items) : Braced(ItemNode(s.items[i]))]

Init ==
  /\ \E s \in Streams :
       LET text == Glyphs(s)
       IN  \E n \in 0 .. Len(text), after \in {"eof", "io"} :
             /\ IF after = "eof" THEN MayEndAt(s, text, n) ELSE MayFailAt(s, text, n)
             /\ stream = NewStream(s, text, n, after)
  /\ reader = newTextReaderBuf(stream.text, stream.arrives, stream.after)
  /\ path = <<0>> /\ answer = [call |-> "new", ok |-> TRUE]

CallNext ==
  /\ reader' = NextRaw(reader)
  /\ answer' = [call |-> "Next", ok |-> Moved(reader')]
  /\ path' = IF answer'.ok THEN [path EXCEPT ![Len(path)] = @ + 1]
             ELSE IF reader'.err = "nil" THEN [path EXCEPT ![Len(path)] = Past]
             ELSE path
  /\ UNCHANGED stream

CallStepIn ==
  /\ reader' = StepIn(reader)
  /\ answer' = [call |-> "StepIn", ok |-> reader'.ret = "nil"]
  /\ path' = IF answer'.ok THEN Append(path, 0) ELSE path
  /\ UNCHANGED stream

CallStepOut ==
  /\ reader' = StepOut(reader)
  /\ answer' = [call |-> "StepOut", ok |-> reader'.ret = "nil"]
  /\ path' = IF answer'.ok THEN Pop(path) ELSE path
  /\ UNCHANGED stream

Next == CallNext \/ CallStepIn \/ CallStepOut

Spec == Init /\ [][Next]_vars
-----------------------------------------------------------------------------
(***************************************************************************)
(* Properties.                                                             *)
(***************************************************************************)
Skippable == {"number", "{", "[", "("}

\* The reader only leaves unfinished what the tokenizer knows how to finish, a
\* number or the container it is about to step into, so that no call runs into a
\* panic: not skipValue on a token it has no case for (skipper.go:109), nor Next in
\* a state that is none of its own (textreader.go:109, 139).  A container is stepped
\* into just as long as it is unfinished.
NothingElseUnfinished ==
  /\ reader.err # "panic"
  /\ reader.state = "done" <=> reader.err # "nil"
  /\ reader.err = "nil" /\ ~(AtTop(reader) /\ reader.eof) /\ reader.tok.unfinished =>
       /\ reader.tok.token \in Skippable
       /\ reader.tok.token = "number" <=> reader.state # "beforeContainer"
  /\ reader.err = "nil" /\ reader.state = "beforeContainer" =>
       reader.tok.unfinished /\ ContainerOf[reader.tok.token] = reader.type
  /\ reader.err = "nil" /\ reader.state = "afterValue" => Context(reader) \in {"list", "struct"}

\* A source that fails is never taken for the end of the stream, nor for bad text:
\* whatever was being peeked at, skipped or read ahead, the reader's error is that
\* of the source, and Next does not return false at top level without one.  Two places
\* are left out, by MayFailAt: behind 0b and 0x the reader does take the failure for
\* an answer (tokenizer.go:863-866 drops it).  And the brace of a clob is bad text to
\* those who pass over the container it is in, before they come to the failure.
FailureIsNotTheEnd ==
  stream.after = "io" =>
    /\ reader.err \in {"nil", "io"} \/ (stream.braced /\ reader.err = "syntax")
    /\ AtTop(reader) => ~reader.eof

\* Every reader of a token, skipping what white space follows.
ReadLob(z) ==
  CASE z.c = "\"" -> ReadShortClob(z)
    [] z.c = "'"  -> ReadLongClob(IsTripleQuote(z))
    [] OTHER      -> ReadBlob(unread(z))

ReadToken(z) ==
  CASE z.token = "number" -> ReadNumber(z)
    [] z.token = "{{"     -> ReadLob(skipLobWhitespace(z))
    [] OTHER              -> ReadValue(z)

\* What the skippers have not learned of: a number's underscores; and a brace within a
\* lob, where skipBlobHelper stops (skipper.go:604, issue 115).  The token ends at end,
\* a lob with the two braces that close it.
SkipsOtherwise(z, end) ==
  LET last == IF z.token = "{{" THEN end - 2 ELSE end
      text == {z.in[i] : i \in z.pos + 1 .. last}
  IN  \/ z.token \in {"number", "binary", "hex"} /\ "_" \in text
      \/ z.token = "{{" /\ "}" \in text

Scalar(z) == z.err = "nil" /\ z.unfinished /\ z.token \notin {"eof", "{", "[", "("}

PassToken(z) == skipWhitespaceHelper(FinishValue(z))

SameEnd(z, got, passed) ==
  /\ got.err = "nil"
  /\ passed.err = "nil" /\ passed.pos = skipWhitespaceHelper(got).pos <=> ~SkipsOtherwise(z, got.pos)

Agrees(z) == Scalar(z) => SameEnd(z, ReadToken(z), PassToken(z))

\* What is skipped is what would have been read: from any value that may come next,
\* skipValue and the reading of the token leave the tokenizer at the same place.  Two
\* forms are exempt, and these alone (SkipsOtherwise): a number with an underscore and
\* a clob with a closing brace in its text.  The reader skips neither as the value it
\* is on, since Next reads numbers and lobs; but a clob in a container that is passed
\* over is skipped, and ReadsStream says what becomes of it.
SkipAgreesWithRead ==
  reader.err = "nil" /\ ~reader.tok.unfinished /\ ~stream.damaged =>
    Agrees(NextToken([reader.tok EXCEPT !.text = << >>]))

\* What the user sees: Type, IsNull, Annotations, FieldName and the values.
Shown ==
  IF reader.err # "nil" THEN [k |-> "failed"]
  ELSE IF reader.type = "none" THEN [k |-> "nothing"]
  ELSE [k |-> "value", type |-> reader.type, set |-> reader.value.set,
        data |-> reader.value.data, token |-> Meant(reader.value.token),
        fieldName |-> Meant(reader.fieldName),
        annotations |-> [i \in 1 .. Len(reader.annotations) |-> Meant(reader.annotations[i])]]

Promise == INSTANCE Cursor WITH
  values <- stream.values, damaged <- stream.damaged \/ stream.braced, shown <- Shown

\* The reader is the cursor its interface documents: in whatever order its methods
\* are called, it shows the values of the stream in their order and nesting, with
\* the names, annotations and symbols their author meant, however they are quoted or
\* spaced, whatever comments, local symbol tables and unread containers lie in
\* between; when the text breaks off, it shows nothing that was not written.  One kind
\* of text counts as damaged though nothing of it is lost: where a clob inside a
\* container has a closing brace, passing over the container fails (skipBlobHelper).
ReadsStream == Promise!Spec
=============================================================================
