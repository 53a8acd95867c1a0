---------------------------- MODULE BinaryWriter ----------------------------
(***************************************************************************)
(* The binary writer (ion/binarywriter.go) over the tree of buffers        *)
(* (ion/buf.go) and the state all writers share (ion/writer.go).           *)
(*                                                                         *)
(* What is written is a sequence of atoms, one for each call of            *)
(* io.Writer.Write: a record of its kind, its size in bytes and what it    *)
(* stands for.  Sizes come from the encodings of Bits.  A local symbol     *)
(* table is one atom, its wire form; the writer only writes one at top     *)
(* level.                                                                  *)
(***************************************************************************)
EXTENDS Bits, Writer

CONSTANTS
  Table,       \* the table of NewBinaryWriterLST
  Scalars,     \* the scalar values, each a sequence of the sizes it is written in
  Symbols,     \* the tokens passed to WriteSymbol
  Strings      \* the strings passed to WriteSymbolFromString

ASSUME ScalarsAssumption == \A sizes \in Scalars : sizes # << >> /\ sizes \in Seq(Nat \ {0})

\* Codes of the buffers; the datagram has none.
Datagram   == 0
Wrapper    == 224     \* 0xE0
CodeOf     == [list |-> 176, sexp |-> 192, struct |-> 208]
Containers == {CodeOf[c] : c \in Contexts}
-----------------------------------------------------------------------------
(***************************************************************************)
(* Atoms and buffers.                                                      *)
(***************************************************************************)
SumTo(f, n) == LET sum[i \in 0 .. n] == IF i = 0 THEN 0 ELSE sum[i - 1] + f[i] IN sum[n]
SizeOf(atoms) == SumTo([i \in 1 .. Len(atoms) |-> atoms[i].size], Len(atoms))

Bvm            == [k |-> "bvm", size |-> 4]
TableAtom(tbl) == [k |-> "table", size |-> 0, wire |-> WriteTo(tbl)]

TagAtom(code, len) ==
  [k |-> "tag", size |-> Len(appendTag(code, len)), code |-> code, len |-> len]

\* A name is a text when the writer looked it up, else an id it was given.
FieldAtom(id, text) ==
  [k |-> "field", size |-> Len(appendVarUint(id)), id |-> id, text |-> text]

SymbolAtom(id, text) ==
  [k |-> "symbol", id |-> id, text |-> text,
   size |-> Len(appendTag(112, uintLen(id))) + Len(appendUint(id))]

\* The length in front of the ids is the sum of varUintLen, not of the bytes.
AnnotationAtom(ids, texts) ==
  LET len   == SumTo([i \in 1 .. Len(ids) |-> varUintLen(ids[i])], Len(ids))
      bytes == SumTo([i \in 1 .. Len(ids) |-> Len(appendVarUint(ids[i]))], Len(ids))
  IN  [k |-> "annotations", size |-> Len(appendVarUint(len)) + bytes,
       ids |-> ids, texts |-> texts]

\* A scalar longer than 63 bytes may be written in two parts.
ScalarAtoms(sizes) ==
  [i \in 1 .. Len(sizes) |-> [k |-> "scalar", size |-> sizes[i], part |-> i, sizes |-> sizes]]

Buffer(code) == [code |-> code, len |-> 0, atoms |-> << >>]

containerLen_NoTag(len) == IF len < 14 THEN len + 1 ELSE len + varUintLen(len)

\* container.Len: computed, before the tag exists.
containerLen(len) == IF len < 14 THEN len + 1 ELSE len + varUintLen(len) + 1

NodeLen(b)   == IF b.code = Datagram THEN b.len ELSE containerLen(b.len)
NodeAtoms(b) == IF b.code = Datagram THEN b.atoms ELSE <<TagAtom(b.code, b.len)>> \o b.atoms

\* emit: to the buffer on top of the stack, or out when there is none.
Emit(v, atoms, len) ==
  IF v.bufs = << >> THEN EmitTo(v, atoms)
  ELSE LET top == Top(v.bufs)
           b   == [code |-> top.code, len |-> top.len + len, atoms |-> top.atoms \o atoms]
       IN  [v EXCEPT !.bufs = [@ EXCEPT ![Len(v.bufs)] = b], !.ret = "nil"]

Write(v, atom) == Emit(v, <<atom>>, atom.size)

PopAndEmit(v) ==
  LET b == Top(v.bufs)
  IN  Emit([v EXCEPT !.bufs = Pop(@)], NodeAtoms(b), NodeLen(b))
-----------------------------------------------------------------------------
(***************************************************************************)
(* Symbols.                                                                *)
(***************************************************************************)
Resolved(err, id, text, tbl) == [err |-> err, id |-> id, text |-> text, tbl |-> tbl]

ResolveFromTable_AddsAlways(v, t) ==
  LET r == Add(v.tbl, t) IN Resolved("nil", r.id, t, r.tbl)

\* resolveFromSymbolTable: a table that was given is not added to.
ResolveFromTable(v, t) ==
  IF v.given
  THEN IF FindByName(v.tbl, t) = 0 THEN Resolved("usage", 0, t, v.tbl)
       ELSE Resolved("nil", FindByName(v.tbl, t), t, v.tbl)
  ELSE LET r == Add(v.tbl, t) IN Resolved("nil", r.id, t, r.tbl)

\* resolve: a text "$n" is the id n.
Resolve(v, t) ==
  IF SymbolIdentifier(t) # SymbolIDUnknown
  THEN Resolved("nil", SymbolIdentifier(t), NoText, v.tbl)
  ELSE ResolveFromTable(v, t)

\* A field name is its id if it has one, else its text.
ResolveName(v, name) ==
  IF name.sid >= 0 THEN Resolved("nil", name.sid, NoText, v.tbl)
  ELSE IF name.text # NoText THEN Resolve(v, name.text)
  ELSE Resolved("usage", 0, NoText, v.tbl)

\* An annotation is its text if it has one, else its id.
ResolveMark(v, mark) ==
  IF mark.text # NoText THEN Resolve(v, mark.text)
  ELSE IF mark.sid # SymbolIDUnknown THEN Resolved("nil", mark.sid, NoText, v.tbl)
  ELSE Resolved("usage", 0, NoText, v.tbl)

\* All annotations, in order; one that fails leaves the table with the texts
\* the earlier ones added.
ResolveMarks(v, marks) ==
  LET step[i \in 0 .. Len(marks)] ==
        IF i = 0 THEN [err |-> "nil", ids |-> << >>, texts |-> << >>, tbl |-> v.tbl]
        ELSE IF step[i - 1].err # "nil" THEN step[i - 1]
        ELSE LET r == ResolveMark([v EXCEPT !.tbl = step[i - 1].tbl], marks[i])
             IN  [err   |-> r.err, tbl |-> r.tbl,
                  ids   |-> Append(step[i - 1].ids, r.id),
                  texts |-> Append(step[i - 1].texts, r.text)]
  IN  step[Len(marks)]

\* writeLST: an error of the version marker is only returned, one of the table
\* comes from the writer's own methods (lst.WriteTo), which store it too.
WriteLST(v) ==
  LET v1 == Write(v, Bvm)
  IN  IF v1.ret # "nil" \/ WriteTo(v.tbl).kind = "absent" THEN v1
      ELSE Store(Write(v1, TableAtom(v.tbl)))
-----------------------------------------------------------------------------
(***************************************************************************)
(* The common course of every value.                                       *)
(***************************************************************************)
WriteName(v, r) ==
  IF r.err # "nil" THEN Return(v, "usage")
  ELSE Write([v EXCEPT !.tbl = r.tbl], FieldAtom(r.id, r.text))

WriteFieldName(v, name) == WriteName(v, ResolveName(v, name))

\* A wrapper is pushed to collect the annotations and the value to come.
WriteMarks(v, r) ==
  LET v1 == [v EXCEPT !.tbl = r.tbl]
  IN  IF r.err # "nil" THEN Return(v1, "usage")
      ELSE Write([v1 EXCEPT !.bufs = Append(@, Buffer(Wrapper))], AnnotationAtom(r.ids, r.texts))

WriteAnnotations(v, marks) == WriteMarks(v, ResolveMarks(v, marks))

\* The steps of beginValue, each only if the one before it succeeded.
BeginTable(v) ==
  IF v.ret = "nil" /\ v.given /\ ~v.wroteLST THEN WriteLST([v EXCEPT !.wroteLST = TRUE]) ELSE v

BeginName(v, name) ==
  IF v.ret = "nil" /\ InStruct(v) THEN WriteFieldName(v, name) ELSE v

BeginMarks(v, marks) ==
  IF v.ret = "nil" /\ marks # << >> THEN WriteAnnotations(v, marks) ELSE v

BeginValue_TableLast(v) ==
  BeginTable(BeginMarks(BeginName(Return(Clear(v), "nil"), v.fieldName), v.annotations))

BeginValue_AnyTable(v) ==
  LET v1 == Return(Clear(v), "nil")
  IN  BeginMarks(BeginName(IF v1.wroteLST THEN v1 ELSE WriteLST([v1 EXCEPT !.wroteLST = TRUE]),
                           v.fieldName), v.annotations)

BeginValue(v) ==
  BeginMarks(BeginName(BeginTable(Return(Clear(v), "nil")), v.fieldName), v.annotations)

EndValue_KeepWrapper(v) == Return(v, "nil")

\* A wrapper on top of the stack is complete.
EndValue(v) ==
  IF v.bufs # << >> /\ Top(v.bufs).code = Wrapper THEN PopAndEmit(v)
  ELSE Return(v, "nil")

EmitNext(v, atoms) == IF v.ret = "nil" THEN Emit(v, atoms, SizeOf(atoms)) ELSE v
EndNext(v)         == IF v.ret = "nil" THEN EndValue(v) ELSE v

WriteValue(v, atoms) ==
  IF v.err # "nil" THEN Return(v, v.err)
  ELSE Store(EndNext(EmitNext(BeginValue(v), atoms)))

EnterNext(v, c) ==
  IF v.ret # "nil" THEN v
  ELSE [v EXCEPT !.ctx = Append(@, c), !.bufs = Append(@, Buffer(CodeOf[c]))]

Begin(v, c) ==
  IF v.err # "nil" THEN Return(v, v.err) ELSE Store(EnterNext(BeginValue(v), c))

End_KeepsName(v, c) ==
  IF v.err # "nil" THEN Return(v, v.err)
  ELSE IF v.ctx = << >> \/ Top(v.ctx) # c THEN Store(Return(v, "usage"))
  ELSE LET v1 == IF v.bufs # << >> THEN PopAndEmit(v) ELSE Return(v, "nil")
       IN  Store(IF v1.ret # "nil" THEN v1
                 ELSE EndValue([v1 EXCEPT !.ctx = Pop(@)]))

\* An emit that fails leaves the context where it was, its buffer gone.
End(v, c) ==
  IF v.err # "nil" THEN Return(v, v.err)
  ELSE IF v.ctx = << >> \/ Top(v.ctx) # c THEN Store(Return(v, "usage"))
  ELSE LET v1 == IF v.bufs # << >> THEN PopAndEmit(v) ELSE Return(v, "nil")
       IN  Store(IF v1.ret # "nil" THEN v1
                 ELSE EndValue([Clear(v1) EXCEPT !.ctx = Pop(@)]))
-----------------------------------------------------------------------------
(***************************************************************************)
(* Symbols and Finish.                                                     *)
(***************************************************************************)
\* The stored error is overwritten by that of the lookup.
WriteResolved(v, r) ==
  LET v1 == [v EXCEPT !.tbl = r.tbl, !.err = r.err]
  IN  IF r.err # "nil" THEN Return(v1, r.err)
      ELSE WriteValue(v1, <<SymbolAtom(r.id, r.text)>>)

WriteSymbolFromString(v, s) == WriteResolved(v, Resolve(v, s))

WriteSymbol(v, tok) ==
  IF tok.sid # SymbolIDUnknown THEN WriteValue(v, <<SymbolAtom(tok.sid, NoText)>>)
  ELSE IF tok.text # NoText THEN WriteResolved(v, ResolveFromTable(v, tok.text))
  ELSE Return(v, "usage")

Finish_TableLate(v) ==
  IF v.err # "nil" THEN Return(v, v.err)
  ELSE IF v.ctx # << >> THEN Return(v, "usage")
  ELSE LET v1 == [Clear(v) EXCEPT !.wroteLST = FALSE]
           v2 == PopAndEmit(v1)
       IN  IF v.bufs = << >> THEN Return(v1, "nil") ELSE WriteLST(v2)

\* An error of the version marker is returned and not stored, and the datagram
\* has left the stack by then.
Finish(v) ==
  IF v.err # "nil" THEN Return(v, v.err)
  ELSE IF v.ctx # << >> THEN Return(v, "usage")
  ELSE LET v1  == [Clear(v) EXCEPT !.wroteLST = FALSE]
           seq == Top(v.bufs)
           v2  == WriteLST([v1 EXCEPT !.bufs = Pop(@)])
       IN  IF v.bufs = << >> THEN Return(v1, "nil")
           ELSE IF Len(v.bufs) > 1 THEN Return([v1 EXCEPT !.bufs = Pop(@)], "panic")
           ELSE IF v2.ret # "nil" THEN v2
           ELSE Store(Emit(v2, NodeAtoms(seq), NodeLen(seq)))
-----------------------------------------------------------------------------
(***************************************************************************)
(* The system: one writer and a caller who may call anything.              *)
(***************************************************************************)
NewWriter(given, tbl, bufs, fault) ==
  [given |-> given, tbl |-> tbl, bufs |-> bufs, fault |-> fault, writes |-> 0,
   out |-> << >>, ctx |-> << >>, err |-> "nil", ret |-> "nil",
   fieldName |-> NoName, annotations |-> << >>, wroteLST |-> FALSE]

Init ==
  /\ \E fault \in Faults :
       \/ w = NewWriter(FALSE, NewBuilder(Imports), <<Buffer(Datagram)>>, fault)
       \/ w = NewWriter(TRUE, Table, << >>, fault)
  /\ said = << >>
  /\ kept = TRUE

\* A name as the reader will see it: the text that was looked up, else the id.
Seen(r) == IF r.text = NoText THEN [id |-> r.id] ELSE [text |-> r.text]

\* What comes in front of a value: its field name and its annotations.
SeenMarks(r) == [i \in 1 .. Len(r.ids) |-> Seen([id |-> r.ids[i], text |-> r.texts[i]])]

Prefix ==
  (IF InStruct(w) THEN <<[e |-> "field", name |-> Seen(ResolveName(w, w.fieldName))]>>
   ELSE << >>)
  \o (IF w.annotations = << >> THEN << >>
      ELSE <<[e |-> "annotations", names |-> SeenMarks(ResolveMarks(w, w.annotations))]>>)

CallScalar == \E s \in Scalars : Call(WriteValue(w, ScalarAtoms(s)),
                                      Prefix \o <<[e |-> "scalar", sizes |-> s]>>)
CallSymbol ==
  \E t \in Symbols :
    Call(WriteSymbol(w, t),
         Prefix \o <<[e    |-> "symbol",
                      name |-> IF t.sid # SymbolIDUnknown THEN [id |-> t.sid]
                               ELSE [text |-> t.text]]>>)
CallSymbolFromString ==
  \E s \in Strings :
    Call(WriteSymbolFromString(w, s),
         Prefix \o <<[e |-> "symbol", name |-> Seen(Resolve(w, s))]>>)
CallBegin == \E c \in Kinds : /\ Len(w.ctx) < MaxDepth
                              /\ Call(Begin(w, c), Prefix \o <<[e |-> "begin", c |-> c]>>)
CallEnd    == \E c \in Kinds : Call(End(w, c), <<[e |-> "end"]>>)
CallFinish == Call(Finish(w), << >>)

Next ==
  \/ CallFieldName
  \/ CallAnnotations
  \/ CallScalar
  \/ CallSymbol
  \/ CallSymbolFromString
  \/ CallBegin
  \/ CallEnd
  \/ CallFinish

Spec == Init /\ [][Next]_vars
-----------------------------------------------------------------------------
(***************************************************************************)
(* Properties of the writer's own state.                                   *)
(***************************************************************************)
Errors == {"nil", "usage", "io"}

\* The writer's record, its contexts and its errors.
TypeOK ==
  /\ w.ctx \in Seq(Contexts)
  /\ w.err \in Errors /\ w.ret \in Errors \cup {"panic"}
  /\ w.given \in BOOLEAN /\ w.wroteLST \in BOOLEAN
  /\ w.wroteLST => w.given

IsContainer(i, bufs) == i \in 1 .. Len(bufs) /\ bufs[i].code \in Containers

\* The containers on the stack from position i up.
Above(i, bufs) == {j \in i .. Len(bufs) : IsContainer(j, bufs)}

\* The stack of buffers mirrors the stack of contexts, counted from the top.
Mirrors(bufs, ctx) ==
  /\ \A i \in 1 .. Len(bufs) : bufs[i].code \in Containers \cup {Datagram, Wrapper}
  /\ \A i \in 1 .. Len(bufs) : bufs[i].code = Wrapper => IsContainer(i + 1, bufs)
  /\ \A i \in 1 .. Len(bufs) : bufs[i].code = Datagram =>
       i = 1 /\ Cardinality(Above(1, bufs)) = Len(ctx)
  /\ Cardinality(Above(1, bufs)) <= Len(ctx)
  /\ \A i \in 1 .. Len(bufs) : IsContainer(i, bufs) =>
       bufs[i].code = CodeOf[ctx[Len(ctx) + 1 - Cardinality(Above(i, bufs))]]

\* Between two calls the buffers match the contexts, "more or less" as the comment
\* of bufstack puts it (buf.go:109): a container's buffer is of its context's
\* kind; a wrapper is never left on top and always holds a container; the
\* datagram lies at the bottom, under the buffers of all contexts.  So an End pops
\* the buffer its Begin pushed and Finish finds the datagram alone, after any
\* calls, refused and failed ones included (binarywriter.go:421, 563, 572, 598).
StackDiscipline == Mirrors(w.bufs, w.ctx)

\* The panics of the writer are unreachable: "at top level but too many bufseqs"
\* and the pop of an empty stack (binarywriter.go:422, buf.go:131, ctx.go:76).
NoPanic == w.ret # "panic"

\* What a buffer announces as its length is what it will emit: the tags around
\* it are written from the announcement before the bytes exist, and a byte more
\* or less moves everything after it (container.Len, datagram.Append).
LengthsAreBytes ==
  \A i \in 1 .. Len(w.bufs) : w.bufs[i].len = SizeOf(w.bufs[i].atoms)

\* A table given to the writer is never added to (binarywriter.go:627): "any
\* attempt to write a symbol that is not included in the symbol table will result
\* in an error" (README.md:317), and leaves no trace in the table.
GivenTableIsFixed == w.given => w.tbl = Table
=============================================================================
