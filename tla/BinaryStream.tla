---------------------------- MODULE BinaryStream ----------------------------
(***************************************************************************)
(* A reader of binary Ion at work: a stream, as any author of binary Ion   *)
(* may write it, the reader of BinaryReader and a caller who may call      *)
(* anything.                                                               *)
(*                                                                         *)
(* A stream is a sequence of items: version markers, padding, values and   *)
(* local symbol tables.  It has two readings.  Bytes encodes it, with the  *)
(* functions of Bits; Values says what it means, each name with its text   *)
(* in the table in force at that point.  The reader gets the bytes, or     *)
(* the first of them only, and has to show the values: ReadsStream.        *)
(***************************************************************************)
EXTENDS BinaryReader

CONSTANTS
  Streams,     \* sequences of items
  Catalog,     \* the reader's shared tables
  Cuts,        \* how much of a stream of n bytes may arrive, Cuts[n]
  GoOn,        \* bound: does the caller go on once a StepOut has failed?
  MaxResets    \* bound: calls of Reset

VARIABLES
  stream,      \* the bytes, what they mean, and what is lost of them
  reader,
  path,        \* history: where the calls have moved the cursor
  answer,      \* the last call, and whether it returned true, or no error
  resets       \* history: calls of Reset

vars == <<stream, reader, path, answer, resets>>
-----------------------------------------------------------------------------
(***************************************************************************)
(* Authors.  A node is a value with its field name and its annotations     *)
(* (symbol ids), the bytes of a scalar or the items of a container, and    *)
(* the form of its length: "plain", "long" (a VarUInt where the tag would  *)
(* do) or "ordered" (a struct whose names ascend).                         *)
(***************************************************************************)
Node(type, data) ==
  [type |-> type, null |-> FALSE, data |-> data, sid |-> 0, name |-> -1, marks |-> << >>,
   form |-> "plain", items |-> << >>]

Null(type)          == [Node(type, << >>) EXCEPT !.null = TRUE]
Number(n)            == Node("int", <<n>>)
String(t)           == Node("string", Spelling[t])
Symbol(sid)         == [Node("symbol", << >>) EXCEPT !.sid = sid]
Pad(n)              == Node("pad", [i \in 1 .. n |-> 0])
Of(type, items)     == [Node(type, << >>) EXCEPT !.items = items]
Named(name, n)      == [n EXCEPT !.name = name]
Marked(marks, n)    == [n EXCEPT !.marks = marks]
Formed(form, n)     == [n EXCEPT !.form = form]

TagOf ==
  [pad |-> 0, null |-> 0, bool |-> 16, int |-> 32, float |-> 64, decimal |-> 80,
   timestamp |-> 96, symbol |-> 112, string |-> 128, clob |-> 144, blob |-> 160,
   list |-> 176, sexp |-> 192, struct |-> 208]

VarUints(ids) ==
  LET cat[i \in 0 .. Len(ids)] == IF i = 0 THEN << >> ELSE cat[i - 1] \o appendVarUint(ids[i])
  IN  cat[Len(ids)]

\* A tag and a payload, with the length in the given form.
Extended(tag, payload, form) ==
  (CASE form = "long"    -> <<tag + 14>> \o appendVarUint(Len(payload))
     [] form = "ordered" -> <<tag + 1>> \o appendVarUint(Len(payload))
     [] OTHER            -> appendTag(tag, Len(payload)))
  \o payload

RECURSIVE Encode(_)
Encode(n) ==
  LET content[i \in 0 .. Len(n.items)] ==
        IF i = 0 THEN << >> ELSE content[i - 1] \o Encode(n.items[i])
      tag     == IF n.type = "int" /\ ~n.null /\ n.data[1] < 0 THEN 48 ELSE TagOf[n.type]
      payload == CASE n.type \in {"list", "sexp", "struct"} -> content[Len(n.items)]
                   [] n.type = "symbol" -> IF n.sid = 0 THEN << >> ELSE appendUint(n.sid)
                   [] n.type = "int"    -> IF n.data[1] = 0 THEN << >>
                                           ELSE appendUint(Mag(n.data[1]))
                   [] OTHER             -> n.data
      body    == IF n.null THEN <<tag + 15>>
                 ELSE IF n.type = "bool" THEN <<tag + n.data[1]>>
                 ELSE Extended(tag, payload, n.form)
      marks   == VarUints(n.marks)
      value   == IF n.marks = << >> THEN body
                 ELSE Extended(224, appendVarUint(Len(marks)) \o marks \o body, "plain")
  IN  IF n.name < 0 THEN value ELSE appendVarUint(n.name) \o value

\* What a reader shows of a node, and its children.
RECURSIVE Meaning(_, _)
Meaning(n, tbl) ==
  LET tokenOf(sid) == Token(FindByID(tbl, sid), sid)
      children     == SelectSeq(n.items, LAMBDA i : i.type # "pad")
  IN  [view  |-> [k |-> "value", type |-> n.type, set |-> ~n.null, data |-> n.data,
                  token |-> IF n.type = "symbol" /\ ~n.null THEN tokenOf(n.sid) ELSE NoName,
                  fieldName   |-> IF n.name < 0 THEN NoName ELSE tokenOf(n.name),
                  annotations |-> [i \in 1 .. Len(n.marks) |-> tokenOf(n.marks[i])]],
       items |-> [i \in 1 .. Len(children) |-> Meaning(children[i], tbl)]]
-----------------------------------------------------------------------------
(***************************************************************************)
(* Items of a stream.                                                      *)
(***************************************************************************)
BvmItem        == [k |-> "bvm"]
NullTableItem  == [k |-> "nulltable"]
TableItem(wire) == [k |-> "table", wire |-> wire]
Item(n)        == [k |-> "node", node |-> n]

ImportNode(decl) ==
  Of("struct", <<Named(4, String(decl.name)), Named(5, Number(decl.version))>>
               \o (IF decl.maxID < 0 THEN << >> ELSE <<Named(8, Number(decl.maxID))>>))

TableNode(wire) ==
  LET imports == IF wire.kind = "append" THEN Symbol(3)
                 ELSE Of("list", [i \in 1 .. Len(wire.imports) |-> ImportNode(wire.imports[i])])
      symbols == Of("list", [i \in 1 .. Len(wire.symbols) |->
                               IF wire.symbols[i] = "" THEN Null("string")
                               ELSE String(wire.symbols[i])])
  IN  Marked(<<3>>, Of("struct", <<Named(6, imports), Named(7, symbols)>>))

ItemBytes(i) ==
  CASE i.k = "bvm"       -> <<224, 1, 0, 234>>
    [] i.k = "nulltable" -> Encode(Marked(<<3>>, Null("struct")))
    [] i.k = "table"     -> Encode(TableNode(i.wire))
    [] OTHER             -> Encode(i.node)

Bytes(items) ==
  LET cat[i \in 0 .. Len(items)] ==
        IF i = 0 THEN << >> ELSE cat[i - 1] \o ItemBytes(items[i])
  IN  cat[Len(items)]

\* The tables of a stream: the one in force at each item.
TableAt(items, n) ==
  LET walk[i \in 0 .. n] ==
        IF i = 0 THEN SystemTable
        ELSE LET tbl == walk[i - 1]
             IN  CASE items[i].k \in {"bvm", "nulltable"} -> SystemTable
                   [] items[i].k = "table" -> ReadLocalTable(items[i].wire, tbl, Catalog).tbl
                   [] OTHER -> tbl
  IN  walk[n]

\* The values of a stream, each read with the table in force.
Values(items) ==
  LET isValue(i) == items[i].k = "node" /\ items[i].node.type # "pad"
      walk[i \in 0 .. Len(items)] ==
        IF i = 0 THEN << >>
        ELSE IF isValue(i) THEN Append(walk[i - 1], Meaning(items[i].node, TableAt(items, i)))
        ELSE walk[i - 1]
  IN  walk[Len(items)]

\* Every symbol of a stream is one of the table in force.
RECURSIVE Sids(_)
Sids(n) ==
  {n.sid, n.name} \cup {n.marks[i] : i \in 1 .. Len(n.marks)}
    \cup UNION {Sids(n.items[i]) : i \in 1 .. Len(n.items)}

Defined(items) ==
  \A i \in 1 .. Len(items) :
    items[i].k = "node" => \A id \in Sids(items[i].node) : id <= MaxID(TableAt(items, i))

\* Reset's condition: one version marker and at most one table, ahead of the values.
OneTable(items) ==
  \A i \in 1 .. Len(items) : items[i].k # "node" => i = 1 \/ (i = 2 /\ items[i].k = "table")
-----------------------------------------------------------------------------
(***************************************************************************)
(* The system.                                                             *)
(***************************************************************************)
Past == -1

NewStream(items, arrives, after) ==
  LET bytes == Bytes(items)
  IN  [bytes |-> bytes, values |-> Values(items), onetable |-> OneTable(items),
       arrives |-> arrives, after |-> after, damaged |-> arrives < Len(bytes) \/ after = "io"]

\* NewReaderCat takes the stream for a binary one only when the whole version
\* marker has arrived.
Init ==
  /\ \E items \in Streams :
       \E arrives \in Cuts[Len(Bytes(items))], after \in {"eof", "io"} :
         stream = NewStream(items, arrives, after)
  /\ reader = NewReader(stream.bytes, stream.arrives, stream.after)
  /\ path = <<0>> /\ answer = [call |-> "new", ok |-> TRUE] /\ resets = 0

\* A StepOut that failed has left the bitstream outside the container and the
\* reader inside.
Torn == Len(reader.ctx) # Len(reader.bits.stack)

Calls == ~Torn \/ GoOn

CallNext ==
  /\ Calls
  /\ reader' = NextValue(reader, Catalog)
  /\ answer' = [call |-> "Next", ok |-> Moved(reader')]
  /\ path' = IF answer'.ok THEN [path EXCEPT ![Len(path)] = @ + 1]
             ELSE IF reader'.err = "nil" THEN [path EXCEPT ![Len(path)] = Past]
             ELSE path
  /\ UNCHANGED <<stream, resets>>

CallStepIn ==
  /\ Calls
  /\ reader' = StepIn(reader)
  /\ answer' = [call |-> "StepIn", ok |-> reader'.ret = "nil"]
  /\ path' = IF answer'.ok THEN Append(path, 0) ELSE path
  /\ UNCHANGED <<stream, resets>>

CallStepOut ==
  /\ Calls
  /\ reader' = StepOut(reader)
  /\ answer' = [call |-> "StepOut", ok |-> reader'.ret = "nil"]
  /\ path' = IF answer'.ok THEN Pop(path) ELSE path
  /\ UNCHANGED <<stream, resets>>

\* From top level, with the input the reader was made for.
CallReset ==
  /\ Calls /\ resets < MaxResets
  /\ stream.onetable /\ ~stream.damaged /\ AtTop(reader)
  /\ reader' = Reset(reader, stream.bytes)
  /\ answer' = [call |-> "Reset", ok |-> reader'.ret = "nil"]
  /\ path' = IF answer'.ok THEN <<0>> ELSE path
  /\ resets' = resets + 1
  /\ UNCHANGED stream

Next == CallNext \/ CallStepIn \/ CallStepOut \/ CallReset

Spec == Init /\ [][Next]_vars
-----------------------------------------------------------------------------
(***************************************************************************)
(* Properties.                                                             *)
(***************************************************************************)
\* The bitstream is on a byte that has arrived, in a state it knows.
TypeOK ==
  /\ reader.bits.off \in 0 .. reader.bits.last
  /\ reader.bits.state \in {"beforeFieldID", "beforeValue", "onFieldID", "onValue"}
  /\ reader.err \in {"nil", "eof", "io", "syntax"}
  /\ reader.ctx \in Seq({"list", "sexp", "struct"})
  /\ reader.resetPos \in {invalidReset} \cup 0 .. Len(stream.bytes)
  /\ reader.lst.imports[1] = V1System
  /\ answer \in [call : {"new", "Next", "StepIn", "StepOut", "Reset"}, ok : BOOLEAN]

\* What the user sees: Type, IsNull, Annotations, FieldName and the values.
Shown ==
  IF reader.err # "nil" THEN [k |-> "failed"]
  ELSE IF reader.type = "none" THEN [k |-> "nothing"]
  ELSE [k |-> "value", type |-> reader.type, set |-> reader.value.set,
        data |-> reader.value.data, token |-> reader.value.token,
        fieldName |-> reader.fieldName, annotations |-> reader.annotations]

Promise == INSTANCE Cursor WITH values <- stream.values, damaged <- stream.damaged, shown <- Shown

\* The reader is the cursor its interface documents: in whatever order its methods
\* are called, it shows the values of the stream in their order and nesting, with
\* the names, annotations and symbols their author meant at that place, whatever
\* tables, padding and unread containers lie in between; when the input breaks
\* off anywhere, it shows nothing that was not written.
ReadsStream == Promise!Spec

\* The reader's contexts are those of the bitstream, and the stream is inside all
\* the containers it is in, which end inside one another: so the panics of the
\* bitstream are out of reach (bitstream.go:310, 320, 327, 923).
ContainersNest ==
  LET stack == reader.bits.stack
  IN  /\ reader.ret # "panic"
      /\ ~Torn => \A i \in 1 .. Len(stack) :
                    /\ reader.ctx[i] = stack[i].code
                    /\ reader.bits.pos <= stack[i].end
                    /\ \A j \in i .. Len(stack) : stack[j].end <= stack[i].end

\* A stream that breaks off is reported as such, wherever it does: an error is that
\* of the input, never a complaint about bytes that were read in place of others.
ErrorsNameTheDamage ==
  reader.err # "nil" => reader.err = stream.after /\ stream.damaged

\* A stream that arrives whole is read without an error: "booleans are a bit special;
\* the 'length' stores the value" (bitstream.go:227), and structs of length code 1
\* have a length "always encoded as a VarUInt" (bitstream.go:191).  It does not hold of
\* an annotated true, whose length field validateAnnotatedValue takes for a length,
\* nor of an ordered struct of 14 or 15 bytes, whose length Next takes for a length
\* field.
WholeIsRead == ~stream.damaged => reader.err = "nil" /\ Shown.k \in {"nothing", "value"}

=============================================================================
