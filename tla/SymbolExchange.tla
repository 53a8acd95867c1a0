--------------------------- MODULE SymbolExchange ---------------------------
(***************************************************************************)
(* The authors of a binary Ion stream and its reader agree on what every   *)
(* symbol id means.                                                        *)
(*                                                                         *)
(* An author is this library's writer, growing a table with the builder,   *)
(* or handing on the table a reader has in force (a relay), or another Ion *)
(* implementation, which may write the forms of local symbol table that    *)
(* this library only reads.  What travels is the wire form of the table    *)
(* (WriteTo), never the table.  The reader rebuilds a table from the wire, *)
(* from the one in force and from a catalog that may lack an import, or    *)
(* hold an earlier or a later version of it.                               *)
(*                                                                         *)
(* The variable "meaning" is the abstract symbol table: for every id, the  *)
(* text its author gave it, and whether the catalog obliges the reader to  *)
(* know it.                                                                *)
(***************************************************************************)
EXTENDS SymbolTable

CONSTANTS
  Registry,        \* the shared tables ever published
  Imports,         \* the lists of imports a builder is started with
  ForeignImports,  \* the lists of imports other implementations declare
  ForeignSymbols,  \* the lists of symbols they define, "" being a gap
  NewTexts,        \* the texts added to a builder
  MaxNew,          \* bound: symbols in a builder
  MaxMeaning,      \* bound: the largest id
  MaxImports       \* bound: the imports a table is appended to

\* A later version of a shared table only adds symbols to an earlier one.  Versions
\* count from one, and a table without a name, or of the name of the system table,
\* cannot be imported (readlocalsymboltable.go:152, 155).
ASSUME RegistryAssumption ==
  /\ \A s \in Registry : s.version \in Nat \ {0} /\ s.name \notin {"", "$ion"}
  /\ \A s, t \in Registry :
       /\ s.name = t.name /\ s.version = t.version => s = t
       /\ s.name = t.name /\ s.version < t.version
            => /\ Len(s.symbols) <= Len(t.symbols)
               /\ s.symbols = SubSeq(t.symbols, 1, Len(s.symbols))

\* The tables are made of texts, and declarations hold numbers.
ASSUME WorldAssumption ==
  /\ \A s \in Registry : /\ s = SharedTable(s.name, s.version, s.symbols)
                         /\ s.symbols \in Seq(Text)
  /\ \A imports \in Imports : imports \in Seq(Registry)
  /\ \A decls \in ForeignImports :
       /\ Len(decls) \in Nat
       /\ \A i \in 1 .. Len(decls) : decls[i].maxID \in Int
  /\ \A symbols \in ForeignSymbols : symbols \in Seq(Text)
  /\ NewTexts \subseteq Text

VARIABLES
  cat,       \* the reader's catalog
  builder,   \* the table the author is building
  handed,    \* the ids the builder has handed out, with their texts
  meaning,   \* the abstract table in force at this point of the stream
  peer,      \* the reader's table
  peerErr    \* the reader's sticky error

vars == <<cat, builder, handed, meaning, peer, peerErr>>

Slot(text, sure) == [text |-> text, sure |-> sure]

\* What a full table means to the author who holds it.
MeaningOf(tbl, sure(_)) ==
  [id \in 1 .. MaxID(tbl) |-> Slot(FindByID(tbl, id), sure(id))]

\* The import of tbl an id falls into; 0 for the table's own symbols.
ImportOf(tbl, id) ==
  LET within == {i \in 1 .. Len(tbl.imports) : id > Offset(tbl.imports, i)}
  IN  IF id > MaxImportID(tbl) THEN 0 ELSE MaxOf(within)

\* The reader must know an import it holds in the author's version.
Sure(tbl, id) ==
  LET i == ImportOf(tbl, id)
  IN  i = 0 \/ i = 1 \/ tbl.imports[i] \in cat

SystemMeaning == MeaningOf(SystemTable, LAMBDA id : TRUE)

Unnamed(tbl) == \E i \in 1 .. Len(tbl.imports) : tbl.imports[i].name = ""

Init ==
  /\ cat \in SUBSET Registry
  /\ builder = NewBuilder(<< >>)
  /\ handed = {}
  /\ meaning = SystemMeaning
  /\ peer = SystemTable
  /\ peerErr = "nil"

\* A version marker and a local table reach the reader; a table it cannot
\* accept stops it for good.
Receive(wire, cur) ==
  LET r == ReadLocalTable(wire, cur, cat)
  IN  /\ peerErr = "nil"
      /\ peer' = r.tbl
      /\ peerErr' = r.err
-----------------------------------------------------------------------------
\* NewBinaryWriter with shared tables.
StartBuilder(imports) ==
  /\ builder' = NewBuilder(imports)
  /\ handed' = {}
  /\ UNCHANGED <<cat, meaning, peer, peerErr>>

\* NewBinaryWriter with the imports of the reader's table: the system table is
\* already at their head.  Neither here nor in Relay may the table be one that
\* was appended to: the import that holds the ids before has no name, and what
\* WriteTo makes of it is ignored by readImport (readlocalsymboltable.go:152).
ReuseImports ==
  /\ ~Unnamed(peer)
  /\ builder' = NewBuilder(peer.imports)
  /\ handed' = {}
  /\ UNCHANGED <<cat, meaning, peer, peerErr>>

AddSymbol(t) ==
  /\ Len(builder.symbols) < MaxNew /\ MaxID(builder) < MaxMeaning
  /\ LET r == Add(builder, t)
     IN  /\ builder' = r.tbl
         /\ handed' = handed \cup {<<r.id, t>>}
  /\ UNCHANGED <<cat, meaning, peer, peerErr>>

\* Finish: a version marker, then the table of the builder.
Transmit ==
  /\ Receive(WriteTo(builder), SystemTable)
  /\ meaning' = MeaningOf(builder, LAMBDA id : Sure(builder, id))
  /\ UNCHANGED <<cat, builder, handed>>

\* NewBinaryWriterLST with the reader's own table.  What the relay does not
\* know it cannot promise to the next reader, who uses the same catalog.
Relay ==
  /\ ~Unnamed(peer)
  /\ Receive(WriteTo(peer), SystemTable)
  /\ meaning' = MeaningOf(peer, LAMBDA id : Sure(peer, id))
  /\ UNCHANGED <<cat, builder, handed>>
-----------------------------------------------------------------------------
(***************************************************************************)
(* Other authors.                                                          *)
(***************************************************************************)
VersionMarker ==
  /\ peerErr = "nil"
  /\ peer' = SystemTable
  /\ meaning' = SystemMeaning
  /\ UNCHANGED <<cat, builder, handed, peerErr>>

\* imports:$ion_symbol_table adds symbols after the ids in force.
AppendTable(symbols) ==
  /\ Len(meaning) + Len(symbols) <= MaxMeaning /\ Len(peer.imports) < MaxImports
  /\ Receive([kind |-> "append", symbols |-> symbols], peer)
  /\ meaning' = meaning \o [i \in 1 .. Len(symbols) |-> Slot(symbols[i], TRUE)]
  /\ UNCHANGED <<cat, builder, handed>>

\* The shared table a declaration names, made to hold maxID ids; an import
\* without a name, or of the system table, counts for nothing.
DeclaredTable(decl) ==
  LET version == IF decl.version < 1 THEN 1 ELSE decl.version
      exact   == FindExact(Registry, decl.name, version)
  IN  IF decl.name \in {"", "$ion"} THEN << >>
      ELSE LET s == IF exact = {} THEN BogusSST(decl.name, version, 0)
                                  ELSE CHOOSE s \in exact : TRUE
           IN  <<[table |-> Adjust(s, IF decl.maxID < 0 THEN s.maxID ELSE decl.maxID),
                  sure  |-> s \in cat]>>

DeclaredSlots(decl) ==
  LET d == DeclaredTable(decl)
  IN  IF d = << >> THEN << >>
      ELSE [i \in 1 .. d[1].table.maxID |->
              Slot(SharedFindByID(d[1].table, i), d[1].sure)]

\* A table with declared imports, as the Ion specification allows it: max_id may
\* be missing (-1) and the version may be less than one.
ForeignTable(decls, symbols) ==
  LET slots[i \in 0 .. Len(decls)] ==
        IF i = 0 THEN SystemMeaning ELSE slots[i - 1] \o DeclaredSlots(decls[i])
      own == [i \in 1 .. Len(symbols) |-> Slot(symbols[i], TRUE)]
  IN  /\ Len(slots[Len(decls)]) + Len(own) <= MaxMeaning
      /\ Receive([kind |-> "table", imports |-> decls, symbols |-> symbols], peer)
      /\ meaning' = IF peerErr' = "nil" THEN slots[Len(decls)] \o own ELSE meaning
      /\ UNCHANGED <<cat, builder, handed>>

Next ==
  \/ \E imports \in Imports : StartBuilder(imports)
  \/ ReuseImports
  \/ \E t \in NewTexts : AddSymbol(t)
  \/ Transmit
  \/ Relay
  \/ VersionMarker
  \/ \E symbols \in ForeignSymbols : AppendTable(symbols)
  \/ \E decls \in ForeignImports, symbols \in ForeignSymbols : ForeignTable(decls, symbols)

Spec == Init /\ [][Next]_vars
-----------------------------------------------------------------------------
(***************************************************************************)
(* Properties.                                                             *)
(***************************************************************************)
\* The reader gives every id of the stream its author's text, or no text at all
\* when it lacks the import (or the author had none): a missing, older or newer
\* import never shifts the ids after it (readImport, Adjust, bogusSST), however
\* often tables are replaced, appended to and handed on.
Agreement ==
  peerErr = "nil" =>
    /\ MaxID(peer) = Len(meaning)
    /\ \A id \in 1 .. Len(meaning) :
         LET m == meaning[id]
             t == FindByID(peer, id)
         IN  m.text # NoText => t = m.text \/ (t = NoText /\ ~m.sure)

\* The builder gives a text one id and an id one text, for as long as it lives:
\* ids already written into buffered values stay valid when later symbols are
\* added (symbolTableBuilder.Add).
HandedOutOnce ==
  /\ \A h \in handed : FindByID(builder, h[1]) = h[2]
  /\ \A g, h \in handed : (g[1] = h[1]) <=> (g[2] = h[2])

\* Looking a text up by name yields the least id that has this text, whatever
\* imports and own symbols repeat it: writers never use an id whose text is
\* unknown, and the ids 1 to 9 that WriteTo itself relies on are never shadowed.
NamesFindLeastID ==
  \A tbl \in {builder, peer} : \A t \in NewTexts \ {""} :
    LET ids == {id \in 1 .. MaxID(tbl) : FindByID(tbl, id) = t}
    IN  FindByName(tbl, t) = IF ids = {} THEN 0 ELSE MinOf(ids)

\* A reader never refuses a table this library writes, even when its catalog
\* lacks the imports or has other versions of them: WriteTo always declares a
\* max_id, and readImport needs the exact version only without one.
OwnTablesAccepted ==
  [][Transmit \/ Relay => peerErr' = "nil"]_vars
=============================================================================
