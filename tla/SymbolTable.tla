----------------------------- MODULE SymbolTable -----------------------------
(***************************************************************************)
(* Symbol tables (ion/symboltable.go), symbol tokens (ion/symboltoken.go)  *)
(* and the catalog (ion/catalog.go), as values and operators on them.      *)
(*                                                                         *)
(* A shared table is a record of its name, version, symbols and maxID; the *)
(* bogusSST that stands for a missing import is one without symbols.  A    *)
(* local table keeps its augmented imports, its own symbols and the index  *)
(* of these.  The empty text "" marks a gap in a list of symbols.          *)
(***************************************************************************)
EXTENDS Integers, Sequences, FiniteSets

CONSTANTS
  Text,        \* the symbol texts of the model
  NoText,      \* a nil *string
  SidText      \* the texts of the form "$n", with their n

V1SystemSymbols ==
  <<"$ion", "$ion_1_0", "$ion_symbol_table", "name", "version", "imports",
    "symbols", "max_id", "$ion_shared_symbol_table">>

ASSUME TextAssumption ==
  /\ NoText \notin Text
  /\ DOMAIN SidText \subseteq Text
  /\ \A t \in DOMAIN SidText : SidText[t] \in Nat
  /\ \A i \in 1 .. Len(V1SystemSymbols) : V1SystemSymbols[i] \in Text

SymbolIDUnknown == -1

MaxOf(S) == CHOOSE x \in S : \A y \in S : y <= x
MinOf(S) == CHOOSE x \in S : \A y \in S : x <= y

Occurrences(symbols, t) == {i \in 1 .. Len(symbols) : symbols[i] = t}

\* The first occurrence of a text owns it; gaps are not indexed.
BuildIndex(symbols, offset) ==
  [t \in {symbols[i] : i \in 1 .. Len(symbols)} \ {""} |->
     offset + MinOf(Occurrences(symbols, t)) - 1]
-----------------------------------------------------------------------------
(***************************************************************************)
(* Shared symbol tables.                                                   *)
(***************************************************************************)
SharedTable(name, version, symbols) ==
  [name |-> name, version |-> version, symbols |-> symbols, maxID |-> Len(symbols)]

V1System == SharedTable("$ion", 1, V1SystemSymbols)

BogusSST(name, version, maxID) ==
  [name |-> name, version |-> version, symbols |-> << >>, maxID |-> maxID]

\* Limit or extend a shared table to the number of ids its importer reserved.
Adjust(s, maxID) ==
  IF maxID > Len(s.symbols) THEN [s EXCEPT !.maxID = maxID]
  ELSE [s EXCEPT !.symbols = SubSeq(@, 1, maxID), !.maxID = maxID]

\* Its index is BuildIndex(symbols, 1).  0 when there is none: ids start at 1.
SharedFindByName(s, t) ==
  LET here == Occurrences(s.symbols, t)
  IN  IF t = "" \/ here = {} THEN 0 ELSE MinOf(here)

SharedFindByID(s, id) ==
  IF id \in 1 .. Len(s.symbols) THEN s.symbols[id] ELSE NoText
-----------------------------------------------------------------------------
(***************************************************************************)
(* Local symbol tables.                                                    *)
(***************************************************************************)
ProcessImports(imports) ==
  IF imports # << >> /\ imports[1].name = "$ion" THEN imports
  ELSE <<V1System>> \o imports

\* The sum of the maxIDs of the imports before the i-th.
Offset(imports, i) ==
  LET sum[j \in 1 .. i] == IF j = 1 THEN 0 ELSE sum[j - 1] + imports[j - 1].maxID
  IN  sum[i]

MaxImportID(tbl) ==
  Offset(tbl.imports, Len(tbl.imports)) + tbl.imports[Len(tbl.imports)].maxID

MaxID(tbl) == MaxImportID(tbl) + Len(tbl.symbols)

NewLocalTable(imports, symbols) ==
  LET imps == ProcessImports(imports)
      base == Offset(imps, Len(imps)) + imps[Len(imps)].maxID
  IN  [imports |-> imps, symbols |-> symbols, index |-> BuildIndex(symbols, base + 1)]

SystemTable == NewLocalTable(<< >>, << >>)

FindByName_OwnFirst(tbl, t) ==
  LET hits == {i \in 1 .. Len(tbl.imports) : SharedFindByName(tbl.imports[i], t) > 0}
  IN  IF t \in DOMAIN tbl.index THEN tbl.index[t]
      ELSE IF hits # {}
      THEN Offset(tbl.imports, MinOf(hits)) + SharedFindByName(tbl.imports[MinOf(hits)], t)
      ELSE 0

\* The imports are asked in order, then the table's own symbols.
FindByName(tbl, t) ==
  LET hits == {i \in 1 .. Len(tbl.imports) : SharedFindByName(tbl.imports[i], t) > 0}
  IN  IF hits # {}
      THEN Offset(tbl.imports, MinOf(hits)) + SharedFindByName(tbl.imports[MinOf(hits)], t)
      ELSE IF t \in DOMAIN tbl.index THEN tbl.index[t]
      ELSE 0

FindByID_InclusiveOffset(tbl, id) ==
  LET before == {i \in 2 .. Len(tbl.imports) :
                   \A j \in 2 .. i : id >= Offset(tbl.imports, j)}
      k      == MaxOf({1} \cup before)
  IN  IF id <= 0 THEN NoText
      ELSE IF id <= MaxImportID(tbl)
      THEN SharedFindByID(tbl.imports[k], id - Offset(tbl.imports, k))
      ELSE IF id - MaxImportID(tbl) <= Len(tbl.symbols)
      THEN tbl.symbols[id - MaxImportID(tbl)]
      ELSE NoText

\* The import of an id is the last one of the run of offsets below the id.
FindByID(tbl, id) ==
  LET before == {i \in 2 .. Len(tbl.imports) :
                   \A j \in 2 .. i : id > Offset(tbl.imports, j)}
      k      == MaxOf({1} \cup before)
  IN  IF id <= 0 THEN NoText
      ELSE IF id <= MaxImportID(tbl)
      THEN SharedFindByID(tbl.imports[k], id - Offset(tbl.imports, k))
      ELSE IF id - MaxImportID(tbl) <= Len(tbl.symbols)
      THEN tbl.symbols[id - MaxImportID(tbl)]
      ELSE NoText
-----------------------------------------------------------------------------
(***************************************************************************)
(* The builder: a local table that grows.  Unlike BuildIndex, Add indexes  *)
(* the empty text too.                                                     *)
(***************************************************************************)
NewBuilder(imports) == NewLocalTable(imports, << >>)

Add_Blind(b, t) ==
  LET id == MaxID(b) + 1
  IN  [tbl |-> [b EXCEPT !.symbols = Append(@, t),
                         !.index   = [x \in DOMAIN @ \cup {t} |-> IF x = t THEN id ELSE @[x]]],
       id  |-> id]

\* Add returns the id of the text, new or not, and the table that has it.
Add(b, t) ==
  LET id == MaxID(b) + 1
  IN  IF FindByName(b, t) > 0 THEN [tbl |-> b, id |-> FindByName(b, t)]
      ELSE [tbl |-> [b EXCEPT !.symbols = Append(@, t),
                              !.index   = [x \in DOMAIN @ \cup {t} |->
                                             IF x = t THEN id ELSE @[x]]],
            id  |-> id]
-----------------------------------------------------------------------------
(***************************************************************************)
(* Symbol tokens: a text or NoText, and a local id or SymbolIDUnknown.     *)
(***************************************************************************)
Token(text, sid) == [text |-> text, sid |-> sid]

\* "$n" names the symbol n; any other text names no id.
SymbolIdentifier(t) == IF t \in DOMAIN SidText THEN SidText[t] ELSE SymbolIDUnknown

\* An id above the table's maxID is an error, one without text is not.
NewSymbolTokenBySID(tbl, sid) ==
  IF sid < 0 \/ sid > MaxID(tbl) THEN [err |-> "nosid", token |-> Token(NoText, 0)]
  ELSE [err |-> "nil", token |-> Token(FindByID(tbl, sid), sid)]
-----------------------------------------------------------------------------
(***************************************************************************)
(* Local tables on the wire.  WriteTo leaves out the system import and     *)
(* writes nothing at all for a table without imports or symbols of its     *)
(* own; "absent" stands for that and for a version marker without a table. *)
(* An LST struct may also say imports:$ion_symbol_table ("append"), which  *)
(* this library reads and never writes.                                    *)
(***************************************************************************)
WriteTo(tbl) ==
  IF Len(tbl.imports) = 1 /\ tbl.symbols = << >> THEN [kind |-> "absent"]
  ELSE [kind    |-> "table",
        imports |-> [i \in 1 .. Len(tbl.imports) - 1 |->
                       [name    |-> tbl.imports[i + 1].name,
                        version |-> tbl.imports[i + 1].version,
                        maxID   |-> tbl.imports[i + 1].maxID]],
        symbols |-> tbl.symbols]

\* A catalog is a set of shared tables, at most one of a name and version.
FindExact(cat, name, version) ==
  {s \in cat : s.name = name /\ s.version = version}

FindLatest(cat, name) ==
  {s \in cat : s.name = name /\ \A o \in cat : o.name = name => o.version <= s.version}

NoMaxID == -1

ReadImport_ExactOnly(decl, cat) ==
  LET version == IF decl.version < 1 THEN 1 ELSE decl.version
      found   == FindExact(cat, decl.name, version)
      imp     == CHOOSE s \in found : TRUE
  IN  IF decl.name \in {"", "$ion"} THEN [err |-> "nil", imps |-> << >>]
      ELSE IF found = {} THEN [err |-> "nomaxid", imps |-> << >>]
      ELSE [err |-> "nil", imps |-> <<Adjust(imp, IF decl.maxID < 0 THEN imp.maxID
                                                  ELSE decl.maxID)>>]

\* readImport: the exact version, else the latest, else a placeholder, in
\* every case made to take the number of ids the writer reserved.
ReadImport(decl, cat) ==
  LET version == IF decl.version < 1 THEN 1 ELSE decl.version
      exact   == FindExact(cat, decl.name, version)
      found   == IF exact # {} THEN exact ELSE FindLatest(cat, decl.name)
      imp     == CHOOSE s \in found : TRUE
      maxID   == IF decl.maxID < 0 THEN imp.maxID ELSE decl.maxID
  IN  IF decl.name \in {"", "$ion"} THEN [err |-> "nil", imps |-> << >>]
      ELSE IF decl.maxID < 0 /\ (found = {} \/ imp.version # version)
      THEN [err |-> "nomaxid", imps |-> << >>]
      ELSE IF found = {}
      THEN [err |-> "nil", imps |-> <<BogusSST(decl.name, version, maxID)>>]
      ELSE [err |-> "nil", imps |-> <<Adjust(imp, maxID)>>]

\* readImports of a list: the imports that were kept, in order.
ReadImports(decls, cat) ==
  LET read[i \in 0 .. Len(decls)] ==
        IF i = 0 \/ read[i - 1].err # "nil"
        THEN IF i = 0 THEN [err |-> "nil", imps |-> << >>] ELSE read[i - 1]
        ELSE LET r == ReadImport(decls[i], cat)
             IN  [err |-> r.err, imps |-> read[i - 1].imps \o r.imps]
  IN  read[Len(decls)]

\* imports:$ion_symbol_table: the table in force becomes imports of the new
\* one, its own symbols under the name "" and version 0.
AppendImports(cur) ==
  IF cur = SystemTable THEN << >>
  ELSE cur.imports \o <<SharedTable("", 0, cur.symbols)>>

\* readLocalSymbolTable, given the table in force and the catalog.
ReadLocalTable(wire, cur, cat) ==
  CASE wire.kind = "absent" -> [err |-> "nil", tbl |-> cur]
    [] wire.kind = "append" ->
         [err |-> "nil", tbl |-> NewLocalTable(AppendImports(cur), wire.symbols)]
    [] OTHER -> LET r == ReadImports(wire.imports, cat)
                IN  IF r.err # "nil" THEN [err |-> r.err, tbl |-> cur]
                    ELSE [err |-> "nil", tbl |-> NewLocalTable(r.imps, wire.symbols)]
=============================================================================
