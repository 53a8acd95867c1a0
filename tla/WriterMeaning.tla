---------------------------- MODULE WriterMeaning ----------------------------
(***************************************************************************)
(* What the output of the binary writer means to a reader of the Ion       *)
(* specification, against what the writer's caller asked for.              *)
(*                                                                         *)
(* Decode walks the atoms of the output the way a reader walks the bytes:  *)
(* a version marker resets the symbol table, a local table is installed, a *)
(* tag opens an extent of as many bytes as it says, and a container ends   *)
(* where its extent does, not where its author ended it.                   *)
(***************************************************************************)
EXTENDS BinaryWriter

\* The reader's catalog has what the writer's tables import.
Catalog == {Imports[i] : i \in 1 .. Len(Imports)}
             \cup {Table.imports[i] : i \in 1 .. Len(Table.imports)}

\* A shared table that a reader can find again by its name and version.
Importable(s) ==
  /\ s = [name |-> s.name, version |-> s.version, symbols |-> s.symbols, maxID |-> s.maxID]
  /\ s.symbols \in Seq(Text) /\ s.maxID \in Nat /\ Len(s.symbols) <= s.maxID
  /\ s.name \notin {"", "$ion"} /\ s.version \in Nat \ {0}
  /\ \A o \in Catalog : o.name = s.name /\ o.version = s.version => o = s

ASSUME ImportableAssumption ==
  /\ \A i \in 1 .. Len(Imports) : Importable(Imports[i])
  /\ \A i \in 2 .. Len(Table.imports) : Importable(Table.imports[i])

ASSUME TableAssumption ==
  /\ Table = NewLocalTable(Table.imports, Table.symbols)
  /\ Table.imports \in Seq(Catalog) /\ Table.imports # << >> /\ Table.imports[1] = V1System
  /\ Table.symbols \in Seq(Text)

ASSUME TokensAssumption ==
  /\ Strings \subseteq Text
  /\ \A tok \in Names \cup Marks \cup Symbols : tok.text \in Text \cup {NoText}

\* The state of the walk: the events so far, the table in force, the extents
\* that are open with the bytes left in each, and whether all was well formed.
Extent(wrapper, left) == [wrapper |-> wrapper, left |-> left]

Start == [events |-> << >>, tbl |-> SystemTable, open |-> << >>, ok |-> TRUE]

\* size bytes of the innermost extent are used up.
Use(d, size) ==
  IF d.open = << >> THEN d
  ELSE [d EXCEPT !.open[Len(d.open)].left = @ - size,
                 !.ok = @ /\ size <= Top(d.open).left]

\* Extents without bytes left are over; that of a container ends it.
Close(d) ==
  LET keep  == MaxOf({0} \cup {i \in 1 .. Len(d.open) : d.open[i].left > 0})
      ended == {i \in keep + 1 .. Len(d.open) : ~d.open[i].wrapper}
  IN  [d EXCEPT !.open   = SubSeq(@, 1, keep),
                !.events = @ \o [i \in 1 .. Cardinality(ended) |-> [e |-> "end"]]]

Tell(d, event) == [d EXCEPT !.events = Append(@, event)]

NameOf(d, id, text) ==
  IF text = NoText THEN [id |-> id] ELSE [text |-> FindByID(d.tbl, id)]

Open(d, a) ==
  LET d1 == IF a.code = Wrapper THEN d
            ELSE Tell(d, [e |-> "begin", c |-> CHOOSE c \in Contexts : CodeOf[c] = a.code])
      d2 == Use(d1, a.size + a.len)
  IN  [d2 EXCEPT !.open = Append(@, Extent(a.code = Wrapper, a.len))]

Step(d, a) ==
  CASE a.k = "bvm"    -> [d EXCEPT !.tbl = SystemTable, !.ok = @ /\ d.open = << >>]
    [] a.k = "table"  -> [d EXCEPT !.tbl = ReadLocalTable(a.wire, @, Catalog).tbl,
                                   !.ok = @ /\ d.open = << >>]
    [] a.k = "tag"    -> Close(Open(d, a))
    [] a.k = "field"  -> Use(Tell(d, [e |-> "field", name |-> NameOf(d, a.id, a.text)]), a.size)
    [] a.k = "symbol" ->
         Close(Use(Tell(d, [e |-> "symbol", name |-> NameOf(d, a.id, a.text)]), a.size))
    [] a.k = "scalar" ->
         Close(Use(IF a.part > 1 THEN d ELSE Tell(d, [e |-> "scalar", sizes |-> a.sizes]),
                   a.size))
    [] a.k = "torn"   -> [d EXCEPT !.ok = FALSE]
    [] OTHER          ->    \* annotations
         Use(Tell(d, [e |-> "annotations",
                      names |-> [i \in 1 .. Len(a.ids) |-> NameOf(d, a.ids[i], a.texts[i])]]),
             a.size)

Decode(out) ==
  LET walk[i \in 0 .. Len(out)] == IF i = 0 THEN Start ELSE Step(walk[i - 1], out[i])
  IN  walk[Len(out)]

\* Every text the writer holds an id of is in the table last written.
AllShipped(d) == w.given \/ MaxID(d.tbl) = MaxID(w.tbl)

Delivered(d) == d.ok /\ d.open = << >> /\ d.events = said
Decoded(d)   == AllShipped(d) => Delivered(d)
Begins(d)    == AllShipped(d) => /\ d.ok /\ Len(d.events) <= Len(said)
                                 /\ d.events = SubSeq(said, 1, Len(d.events))
-----------------------------------------------------------------------------
\* When nothing is buffered and no error is stored or was forgotten, a reader of
\* the output gets exactly the values the caller wrote: nested, named and
\* annotated as they were, every name with its own text, through the table that
\* was written in front of them.  (In a builder's later datagrams only as long as
\* they need no new text: see SymbolsDefined.)
WrittenIsRead ==
  w.err = "nil" /\ kept /\ w.ctx = << >> /\ w.bufs = << >> =>
    Decoded(Decode(w.out))

\* Whatever failed and wherever, as long as the error was not forgotten the whole
\* atoms of the output read as the beginning of what the caller wrote: no value
\* is dropped from the middle, none is read under the wrong container or name.  (A
\* builder's later datagrams are exempt where they need new text, as AllShipped says:
\* they lack the table that defines it.)
OutputIsPrefix == kept => Begins(Decode(Whole(w.out)))

\* A version marker and its table stand at top level, in front of the values.
TableAtTopLevel ==
  \A i \in 1 .. Len(w.bufs) : \A j \in 1 .. Len(w.bufs[i].atoms) :
    w.bufs[i].atoms[j].k \notin {"bvm", "table"}
-----------------------------------------------------------------------------
(***************************************************************************)
(* What the documentation says and the code does not do.                   *)
(***************************************************************************)
\* Values "are buffered in memory until you call `Finish` so the symbol table can
\* be written out first" (README.md:278): after a Finish without error the texts
\* of all values are defined by the tables of the output.
SymbolsDefined ==
  w.err = "nil" /\ kept /\ w.ctx = << >> /\ w.bufs = << >> => Delivered(Decode(w.out))

\* "This lets you keep code a bit cleaner by only checking the return value of the
\* final method call (generally Finish)" (writer.go:57): when Finish returns nil,
\* a value accepted before it has not been lost.
FinishFlushes ==
  [][CallFinish /\ w'.ret = "nil" => Decode(Whole(w'.out)).events = said]_vars
=============================================================================
