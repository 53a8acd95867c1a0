------------------------ MODULE SymbolExchangeProofs ------------------------
(***************************************************************************)
(* An id that was handed out keeps its text, a name leads to its least id, *)
(* and this library reads every table it writes, for any shared tables,    *)
(* texts and bounds.                                                       *)
(*                                                                         *)
(* HandedOutOnce speaks of ids, and Add looks for names.  The invariant    *)
(* therefore says it of names: what was handed out is what its text is     *)
(* found by, which Add changes for no name it finds.  That a name leads    *)
(* back to its text is a fact about tables (NameToID), so the invariant    *)
(* has to say what a table is: the index leads to first occurrences, and   *)
(* every import has room for its texts, whatever was declared, appended or *)
(* handed on to make it.                                                   *)
(***************************************************************************)
EXTENDS SymbolExchange, SymbolTableProofs

\* What was handed out is what its text is found by.
Found(b, pairs) == \A h \in pairs : h[1] > 0 /\ FindByName(b, h[2]) = h[1]

\* The inductive invariant.
IInv ==
  /\ cat \subseteq Registry
  /\ IsBuilder(builder) /\ Found(builder, handed)
  /\ IsTable(peer)

\* The catalog holds published tables.
LEMMA RegistryIsCatalog == \A s \in Registry : IsShared(s)
<1>1. ASSUME NEW s \in Registry
      PROVE  IsShared(s)
  <2>1. s = SharedTable(s.name, s.version, s.symbols) /\ s.symbols \in Seq(Text)
    BY WorldAssumption
  <2> DEFINE x == SharedTable(s.name, s.version, s.symbols)
  <2>2. IsShared(x)
    BY <2>1, SharedTableIsShared
  <2> HIDE DEF x
  <2> QED BY <2>1, <2>2 DEF x
<1> QED BY <1>1

\* The reader starts with a table.
LEMMA SystemTableIsTable == IsTable(SystemTable)
<1>1. << >> \in Seq(Text)
  BY EmptySeq
<1> QED BY <1>1, FewImports, NewLocalTableIsTable DEF SystemTable

\* The invariant holds at the start,
LEMMA InitIInv == Init => IInv
<1> SUFFICES ASSUME Init
             PROVE  IInv
  OBVIOUS
<1>1. builder = NewBuilder(<< >>) /\ handed = {} /\ peer = SystemTable /\ cat \in SUBSET Registry
  BY Zenon DEF Init
<1>2. IsBuilder(NewBuilder(<< >>))
  BY FewImports, NewBuilderIsBuilder
<1> QED BY <1>1, <1>2, SystemTableIsTable DEF IInv, Found

\* What reaches the reader leaves it with a table.
LEMMA ReceiveKeepsTable ==
  ASSUME IInv, NEW wire, IsWire(wire), NEW cur, IsTable(cur), Receive(wire, cur)
  PROVE  IsTable(peer') /\ (Declares(wire) => peerErr' = "nil")
<1> DEFINE r == ReadLocalTable(wire, cur, cat)
<1>1. peer' = r.tbl /\ peerErr' = r.err
  BY DEF Receive
<1>2. IsCatalog(cat)
  BY RegistryIsCatalog DEF IInv, IsCatalog
<1> HIDE DEF r
<1>3. IsTable(r.tbl) /\ (Declares(wire) => r.err = "nil")
  BY <1>2, TableIsRead DEF r
<1> QED BY <1>1, <1>3

\* A new builder, from a list of shared tables.
LEMMA NewBuilderKeeps ==
  ASSUME NEW imports, AreImports(imports)
  PROVE  IsBuilder(NewBuilder(imports)) /\ Found(NewBuilder(imports), {})
BY NewBuilderIsBuilder DEF Found

\* The builder and what it handed out stay as they are.
LEMMA BuilderStays ==
  ASSUME IInv, UNCHANGED <<cat, builder, handed>>, IsTable(peer')
  PROVE  IInv'
BY DEF IInv

\* and every step keeps it,
LEMMA StepIInv ==
  ASSUME IInv, [Next]_vars
  PROVE  IInv'
<1>1. ASSUME NEW imports \in Imports, StartBuilder(imports)
      PROVE  IInv'
  <2>1. AreImports(imports)
    <3>1. imports \in Seq(Registry)
      BY WorldAssumption
    <3>2. imports \in [1 .. Len(imports) -> Registry]
      BY <3>1, LenProperties
    <3> QED BY <3>1, <3>2, RegistryIsCatalog DEF AreImports, IsStack
  <2>2. builder' = NewBuilder(imports) /\ handed' = {} /\ UNCHANGED <<cat, peer>>
    BY <1>1 DEF StartBuilder
  <2> QED BY <2>1, <2>2, NewBuilderKeeps DEF IInv
<1>2. CASE ReuseImports
  <2>1. AreImports(peer.imports)
    BY DEF IInv, IsTable
  <2>2. builder' = NewBuilder(peer.imports) /\ handed' = {} /\ UNCHANGED <<cat, peer>>
    BY <1>2 DEF ReuseImports
  <2> QED BY <2>1, <2>2, NewBuilderKeeps DEF IInv
<1>3. ASSUME NEW t \in NewTexts, AddSymbol(t)
      PROVE  IInv'
  <2> DEFINE r == Add(builder, t)
  <2>1. builder' = r.tbl /\ handed' = handed \cup {<<r.id, t>>} /\ UNCHANGED <<cat, peer>>
    BY <1>3 DEF AddSymbol
  <2>2. t \in Text
    BY WorldAssumption
  <2> HIDE DEF r
  <2>3. /\ IsBuilder(r.tbl) /\ r.id > 0 /\ FindByName(r.tbl, t) = r.id
        /\ \A u : FindByName(builder, u) > 0 => FindByName(r.tbl, u) = FindByName(builder, u)
    BY <2>2, AddGrows DEF IInv, r
  <2>4. ASSUME NEW h \in handed'
        PROVE  h[1] > 0 /\ FindByName(builder', h[2]) = h[1]
    <3>1. CASE h \in handed
      <4>1. h[1] > 0 /\ FindByName(builder, h[2]) = h[1]
        BY <3>1 DEF IInv, Found
      <4> QED BY <2>1, <2>3, <4>1
    <3>2. CASE h = <<r.id, t>>
      <4>1. h[1] = r.id /\ h[2] = t
        BY <3>2
      <4> QED BY <2>1, <2>3, <4>1
    <3> QED BY <2>1, <3>1, <3>2
  <2> QED BY <2>1, <2>3, <2>4 DEF IInv, Found
<1>4. CASE Transmit
  <2>1. Receive(WriteTo(builder), SystemTable) /\ UNCHANGED <<cat, builder, handed>>
    BY <1>4 DEF Transmit
  <2>2. IsWire(WriteTo(builder))
    BY WrittenDeclares DEF IInv, IsBuilder
  <2> QED BY <2>1, <2>2, SystemTableIsTable, ReceiveKeepsTable, BuilderStays
<1>5. CASE Relay
  <2>1. Receive(WriteTo(peer), SystemTable) /\ UNCHANGED <<cat, builder, handed>>
    BY <1>5 DEF Relay
  <2>2. IsWire(WriteTo(peer))
    BY WrittenDeclares DEF IInv
  <2> QED BY <2>1, <2>2, SystemTableIsTable, ReceiveKeepsTable, BuilderStays
<1>6. CASE VersionMarker
  <2>1. peer' = SystemTable /\ UNCHANGED <<cat, builder, handed>>
    BY <1>6 DEF VersionMarker
  <2> QED BY <2>1, SystemTableIsTable, BuilderStays
<1>7. ASSUME NEW symbols \in ForeignSymbols, AppendTable(symbols)
      PROVE  IInv'
  <2> DEFINE wire == [kind |-> "append", symbols |-> symbols]
  <2>1. Receive(wire, peer) /\ UNCHANGED <<cat, builder, handed>>
    BY <1>7 DEF AppendTable
  <2>2. IsWire(wire)
    BY WorldAssumption DEF IsWire
  <2> HIDE DEF wire
  <2>3. IsTable(peer)
    BY DEF IInv
  <2> QED BY <2>1, <2>2, <2>3, ReceiveKeepsTable, BuilderStays
<1>8. ASSUME NEW decls \in ForeignImports, NEW symbols \in ForeignSymbols,
             ForeignTable(decls, symbols)
      PROVE  IInv'
  <2> DEFINE wire == [kind |-> "table", imports |-> decls, symbols |-> symbols]
  <2>1. Receive(wire, peer) /\ UNCHANGED <<cat, builder, handed>>
    BY <1>8 DEF ForeignTable
  <2>2. IsWire(wire)
    <3>1. AreDecls(decls) /\ symbols \in Seq(Text)
      BY WorldAssumption DEF AreDecls, IsDecl
    <3> QED BY <3>1 DEF IsWire
  <2> HIDE DEF wire
  <2>3. IsTable(peer)
    BY DEF IInv
  <2> QED BY <2>1, <2>2, <2>3, ReceiveKeepsTable, BuilderStays
<1>9. CASE UNCHANGED vars
  BY <1>9 DEF IInv, vars
<1> QED BY <1>1, <1>2, <1>3, <1>4, <1>5, <1>6, <1>7, <1>8, <1>9 DEF Next

\* so it always holds.
LEMMA Invariance == Spec => []IInv
BY InitIInv, StepIInv, PTL DEF Spec
-----------------------------------------------------------------------------
(***************************************************************************)
(* The theorems.                                                           *)
(***************************************************************************)
\* An id the builder has handed out keeps its text, and a text its id: the builder
\* may grow while the values that use its ids are in a buffer
\* (symbolTableBuilder.Add).
THEOREM IdsStay == Spec => []HandedOutOnce
<1>1. IInv => HandedOutOnce
  <2> SUFFICES ASSUME IInv
               PROVE  HandedOutOnce
    OBVIOUS
  <2>1. \A h \in handed : h[1] > 0 /\ FindByName(builder, h[2]) = h[1]
    BY DEF IInv, Found
  <2>2. ASSUME NEW h \in handed
        PROVE  FindByID(builder, h[1]) = h[2]
    <3>1. h[1] > 0 => FindByID(builder, h[1]) = h[2]
      BY <2>1, NameToID DEF IInv, IsBuilder
    <3> QED BY <2>1, <3>1
  <2>3. ASSUME NEW g \in handed, NEW h \in handed
        PROVE  g[1] = h[1] <=> g[2] = h[2]
    BY <2>1, <2>2
  <2> QED BY <2>2, <2>3 DEF HandedOutOnce
<1> QED BY <1>1, Invariance, PTL

\* A name leads to the least id of its text, in the tables of the builder and of
\* the reader (FindByName).
THEOREM NamesLeadToLeastID == Spec => []NamesFindLeastID
<1>1. IInv => NamesFindLeastID
  <2> SUFFICES ASSUME IInv
               PROVE  NamesFindLeastID
    OBVIOUS
  <2>1. IsTable(builder) /\ IsTable(peer)
    BY DEF IInv, IsBuilder
  <2>2. \A t \in NewTexts \ {""} : IsName(t)
    BY WorldAssumption, Zenon DEF IsName
  <2>3. ASSUME NEW tbl \in {builder, peer}, NEW t \in NewTexts \ {""}
        PROVE  LET ids == {id \in 1 .. MaxID(tbl) : FindByID(tbl, id) = t}
               IN  FindByName(tbl, t) = IF ids = {} THEN 0 ELSE MinOf(ids)
    <3>1. IsName(t) /\ IsTable(tbl)
      BY <2>1, <2>2, Zenon
    <3> QED BY <3>1, LeastID, Zenon
  <2> QED BY <2>3, Zenon DEF NamesFindLeastID
<1> QED BY <1>1, Invariance, PTL

\* The reader refuses no table that this library writes, be it the builder's own or
\* one handed on: its imports all declare their max_id (WriteTo, readImport).
THEOREM WrittenIsAccepted == Spec => OwnTablesAccepted
<1>1. ASSUME IInv, [Next]_vars
      PROVE  [Transmit \/ Relay => peerErr' = "nil"]_vars
  <2>1. CASE Transmit
    <3>1. Receive(WriteTo(builder), SystemTable)
      BY <2>1 DEF Transmit
    <3>2. IsWire(WriteTo(builder)) /\ Declares(WriteTo(builder))
      BY <1>1, WrittenDeclares DEF IInv, IsBuilder
    <3>3. peerErr' = "nil"
      BY <1>1, <3>1, <3>2, SystemTableIsTable, ReceiveKeepsTable
    <3> QED BY <3>3
  <2>2. CASE Relay
    <3>1. Receive(WriteTo(peer), SystemTable)
      BY <2>2 DEF Relay
    <3>2. IsWire(WriteTo(peer)) /\ Declares(WriteTo(peer))
      BY <1>1, WrittenDeclares DEF IInv
    <3>3. peerErr' = "nil"
      BY <1>1, <3>1, <3>2, SystemTableIsTable, ReceiveKeepsTable
    <3> QED BY <3>3
  <2> QED BY <2>1, <2>2
<1> QED BY <1>1, Invariance, PTL DEF Spec, OwnTablesAccepted
-----------------------------------------------------------------------------
(***************************************************************************)
(* Authors and readers agree on what every symbol id means, for any shared *)
(* tables, texts, catalogs and bounds: the theorem of the symbol tables.   *)
(*                                                                         *)
(* Ids are added up: the slots of an import stand where the imports before *)
(* it end.  So the proof goes import by import.  A reader who knows a      *)
(* declaration, in whatever version, makes of it an import of as many ids  *)
(* as its author has, each with the author's text or none (DeclaredFits    *)
(* for tables this library writes, ForeignFits for those of others); lists *)
(* of such imports cover the same ids (ReadingCovers), and the tables made *)
(* of them agree (TableAgrees).  An append turns a table that agrees into  *)
(* an import (AgreesAsImports).                                            *)
(*                                                                         *)
(* The invariant must say what an import of a table is, for the table may  *)
(* be written in its turn: the system table comes first, and every other   *)
(* import has the texts of a published table (or none), so that the next   *)
(* reader finds under its name and version what it holds, or stands for    *)
(* what a table was appended to, which is never written.                   *)
(***************************************************************************)
(***************************************************************************)
(* Covered ids: what a list of imports gives a stretch of ids.             *)
(***************************************************************************)
\* One import more.
With(imports, x) == imports \o <<x>>

\* It begins where the others end.
Extends(b, a, x) ==
  /\ AreImports(b) /\ b # << >> /\ Len(a) \in Nat /\ Len(b) = Len(a) + 1
  /\ \A i \in 1 .. Len(a) : b[i] = a[i]
  /\ b[Len(a) + 1] = x
  /\ \A i \in 1 .. Len(a) + 1 : Offset(b, i) = Offset(a, i) /\ Offset(b, i) \in Nat
  /\ Offset(b, Len(a) + 2) = Offset(a, Len(a) + 1) + x.maxID

LEMMA OneMoreImport ==
  ASSUME NEW a, AreImports(a), NEW x, IsShared(x)
  PROVE  Extends(With(a, x), a, x)
<1> DEFINE b == With(a, x)
           m == Len(a)
<1>0. b = a \o <<x>>
  BY DEF With
<1> HIDE DEF b, m
<1>1. m \in Nat /\ AreImports(b) /\ Len(b) = m + 1
  BY <1>0, FewImports, ImportsConcat DEF m
<1>2. IsStack(a) /\ IsStack(<<x>>) /\ Len(<<x>>) = 1 /\ <<x>>[1] = x
  BY FewImports DEF AreImports
<1>3. \A i \in 1 .. m + 1 : b[i] = IF i <= m THEN a[i] ELSE <<x>>[i - m]
  BY <1>0, <1>1, <1>2, StackConcat DEF m
<1>4. \A i \in 1 .. m : b[i] = a[i]
  BY <1>1, <1>3
<1>5. b[m + 1] = x
  <2>1. PICK k \in 1 .. m + 1 : k = m + 1 /\ ~(k <= m) /\ k - m = 1
    BY <1>1
  <2>2. b[k] = <<x>>[k - m]
    BY <1>3, <2>1
  <2> QED BY <1>2, <2>1, <2>2
<1>6. /\ \A i \in 1 .. m : a[i].maxID \in Nat
      /\ \A i \in 1 .. m + 1 : b[i].maxID \in Nat
  BY <1>1 DEF AreImports, IsShared, m
<1>7. /\ Offset(a, 1) = 0
      /\ \A i \in 1 .. m + 1 : Offset(a, i) \in Nat
      /\ \A i \in 1 .. m : Offset(a, i + 1) = Offset(a, i) + a[i].maxID
  BY <1>1, <1>6, OffsetSteps
<1>8. PICK n \in Nat : n = m + 1
  BY <1>1
<1>9. /\ Offset(b, 1) = 0
      /\ \A i \in 1 .. n + 1 : Offset(b, i) \in Nat
      /\ \A i \in 1 .. n : Offset(b, i + 1) = Offset(b, i) + b[i].maxID
  BY <1>6, <1>8, OffsetSteps
<1> DEFINE S == {k \in 0 .. m : Offset(b, k + 1) = Offset(a, k + 1)}
<1>10. 0 \in S
  BY <1>1, <1>7, <1>9
<1>11. ASSUME NEW k \in 1 .. m, k - 1 \in S
       PROVE  k \in S
  <2>1. Offset(b, k - 1 + 1) = Offset(a, k - 1 + 1) /\ k - 1 + 1 = k
    BY <1>11
  <2>2. k \in 1 .. n
    BY <1>1, <1>8
  <2>3. Offset(b, k + 1) = Offset(b, k) + b[k].maxID
    BY <1>9, <2>2
  <2>4. Offset(a, k + 1) = Offset(a, k) + a[k].maxID
    BY <1>7
  <2>5. Offset(b, k + 1) = Offset(a, k + 1)
    BY <1>4, <2>1, <2>3, <2>4
  <2>6. k \in 0 .. m
    BY <1>1
  <2> QED BY <2>5, <2>6
<1>12. \A k \in 0 .. m : k \in S
  <2> HIDE DEF S
  <2> QED BY <1>1, <1>10, <1>11, Induction
<1>13. ASSUME NEW i \in 1 .. m + 1
       PROVE  Offset(b, i) = Offset(a, i) /\ Offset(b, i) \in Nat
  <2>1. i - 1 \in 0 .. m /\ i - 1 + 1 = i
    BY <1>1
  <2> QED BY <1>7, <1>12, <2>1
<1>14. Offset(b, m + 2) = Offset(a, m + 1) + x.maxID
  <2>1. m + 1 \in 1 .. n /\ m + 1 \in 1 .. m + 1 /\ m + 1 + 1 = m + 2
    BY <1>1, <1>8
  <2> QED BY <1>5, <1>9, <1>13, <2>1
<1>15. b # << >>
  <2>1. Len(b) > 0 /\ IsStack(b)
    BY <1>1 DEF AreImports
  <2> QED BY <2>1, StackLen
<1> QED BY <1>1, <1>4, <1>5, <1>13, <1>14, <1>15, Zenon DEF Extends, b, m

\* Where the ids of the imports end.
Total(imports) == Offset(imports, Len(imports) + 1)

\* What a reader may have for a text: the text, or nothing if it need not know it.
Known(slot, text) == slot.text # NoText => text = slot.text \/ (text = NoText /\ ~slot.sure)

\* The reader's imports give the ids their texts.
Covers(imports, slots) ==
  /\ IsStack(slots) /\ Len(slots) = Total(imports)
  /\ \A k \in 1 .. Len(imports) : \A p \in 1 .. imports[k].maxID :
       Known(slots[Offset(imports, k) + p], SharedFindByID(imports[k], p))

\* and so does one import more, for the ids behind them.
LEMMA CoversMore ==
  ASSUME NEW a, AreImports(a), NEW slots, Covers(a, slots),
         NEW x, IsShared(x), NEW more, IsStack(more), Len(more) = x.maxID,
         \A p \in 1 .. x.maxID : Known(more[p], SharedFindByID(x, p))
  PROVE  AreImports(With(a, x)) /\ Covers(With(a, x), slots \o more)
<1> DEFINE b == With(a, x)
           s == slots \o more
<1>1. PICK m \in Nat : m = Len(a)
  BY StackLen DEF AreImports
<1>0. Extends(b, a, x)
  BY OneMoreImport, Zenon
<1> HIDE DEF b
<1>2. PICK t \in Nat : t = Offset(a, m + 1)
  <2>1. m + 1 \in 1 .. m + 1
    BY <1>1
  <2> QED BY <1>1, <1>0, <2>1 DEF Extends
<1>3. PICK q \in Nat : q = x.maxID
  BY DEF IsShared
<1>4. /\ AreImports(b) /\ Len(b) = m + 1
      /\ \A i \in 1 .. m : b[i] = a[i]
      /\ b[m + 1] = x
      /\ \A i \in 1 .. m + 1 : Offset(b, i) = Offset(a, i) /\ Offset(b, i) \in Nat
      /\ Offset(b, m + 2) = t + q
  BY <1>1, <1>2, <1>3, <1>0 DEF Extends
<1>5. IsStack(slots) /\ Len(slots) = t
  BY <1>1, <1>2 DEF Covers, Total
<1>6. /\ IsStack(s) /\ Len(s) = t + q
      /\ \A i \in 1 .. t + q : s[i] = IF i <= t THEN slots[i] ELSE more[i - t]
  BY <1>3, <1>5, StackConcat
<1> HIDE DEF s
<1>7. Len(s) = Total(b)
  BY <1>4, <1>6 DEF Total
<1>8. ASSUME NEW k \in 1 .. m + 1, NEW p \in 1 .. b[k].maxID
      PROVE  Known(s[Offset(b, k) + p], SharedFindByID(b[k], p))
  <2>1. CASE k = m + 1
    <3>1. Offset(b, k) = t /\ b[k] = x
      BY <1>2, <1>4, <2>1
    <3>2. p \in 1 .. q
      BY <1>3, <3>1
    <3>3. t + p \in 1 .. t + q /\ ~(t + p <= t) /\ t + p - t = p
      BY <3>2
    <3>4. s[t + p] = more[p]
      BY <1>6, <3>3
    <3> QED BY <1>3, <3>1, <3>2, <3>4
  <2>2. CASE k \in 1 .. m
    <3>1. Offset(b, k) = Offset(a, k) /\ b[k] = a[k] /\ Offset(b, k) \in Nat
      BY <1>4, <2>2
    <3>2. a # << >>
      BY <1>1, <2>2, StackLen DEF AreImports
    <3>3. PICK y \in Nat : y = a[k].maxID
      BY <1>1, <2>2 DEF AreImports, IsShared
    <3>4. Offset(a, k) + y <= t
      <4>1. m + 1 \in 1 .. m + 1 /\ k < m + 1
        BY <2>2
      <4> QED BY <1>1, <1>2, <2>2, <3>2, <3>3, <4>1, OffsetsNest
    <3>5. p \in 1 .. y
      BY <3>1, <3>3
    <3> DEFINE id == Offset(a, k) + p
    <3>6. id \in 1 .. t + q /\ id <= t
      BY <3>1, <3>4, <3>5
    <3>7. s[id] = slots[id]
      <4> HIDE DEF id
      <4> QED BY <1>6, <3>6
    <3>8. Known(slots[id], SharedFindByID(a[k], p))
      BY <1>1, <2>2, <3>3, <3>5 DEF Covers
    <3> QED BY <3>1, <3>7, <3>8
  <2> QED BY <1>1, <2>1, <2>2
<1> QED BY <1>4, <1>6, <1>7, <1>8 DEF Covers, b, s
-----------------------------------------------------------------------------
(***************************************************************************)
(* Tables that agree with a meaning.                                       *)
(***************************************************************************)
\* The reader's table gives every id the text its author gave it, or none.
Agrees(tbl, slots) ==
  /\ IsStack(slots) /\ MaxID(tbl) = Len(slots)
  /\ \A id \in 1 .. Len(slots) : Known(slots[id], FindByID(tbl, id))

\* A table does so whose imports do, and its own symbols behind them.
LEMMA TableAgrees ==
  ASSUME NEW tbl, IsTable(tbl), NEW slots, Covers(tbl.imports, slots),
         NEW more, IsStack(more), Len(more) = Len(tbl.symbols),
         \A p \in 1 .. Len(tbl.symbols) : Known(more[p], tbl.symbols[p])
  PROVE  Agrees(tbl, slots \o more)
<1> DEFINE s == slots \o more
<1>1. PICK n \in Nat \ {0} : n = Len(tbl.imports)
  BY TableLayout
<1>2. PICK M \in Nat : M = MaxImportID(tbl) /\ M = Offset(tbl.imports, n + 1)
  BY <1>1, TableLayout
<1>3. PICK l \in Nat : l = Len(tbl.symbols) /\ MaxID(tbl) = M + l
  BY <1>2, TableLayout
<1>4. IsStack(slots) /\ Len(slots) = M
  BY <1>1, <1>2 DEF Covers, Total
<1>5. /\ IsStack(s) /\ Len(s) = M + l
      /\ \A i \in 1 .. M + l : s[i] = IF i <= M THEN slots[i] ELSE more[i - M]
  BY <1>3, <1>4, StackConcat
<1> HIDE DEF s
<1>6. ASSUME NEW id \in 1 .. M + l
      PROVE  Known(s[id], FindByID(tbl, id))
  <2>1. CASE id <= M
    <3>1. PICK k \in 1 .. n : \E p \in 1 .. tbl.imports[k].maxID : id = Offset(tbl.imports, k) + p
      <4>1. AreImports(tbl.imports) /\ tbl.imports # << >>
        BY DEF IsTable
      <4>2. id \in Nat \ {0} /\ id <= Offset(tbl.imports, n + 1)
        BY <1>2, <2>1
      <4> QED BY <1>1, <4>1, <4>2, IDHasImport
    <3>2. PICK p \in 1 .. tbl.imports[k].maxID : id = Offset(tbl.imports, k) + p
      BY <3>1
    <3>3. FindByID(tbl, id) = SharedFindByID(tbl.imports[k], p)
      BY <1>1, <3>2, TextOfImportID
    <3>4. Known(slots[id], SharedFindByID(tbl.imports[k], p))
      BY <1>1, <3>2 DEF Covers
    <3>5. s[id] = slots[id]
      BY <1>5, <2>1
    <3> QED BY <3>3, <3>4, <3>5
  <2>2. CASE ~(id <= M)
    <3> DEFINE p == id - M
    <3>1. p \in 1 .. l /\ M + p = id
      BY <2>2
    <3>2. FindByID(tbl, M + p) = tbl.symbols[p]
      <4> HIDE DEF p
      <4> QED BY <1>2, <1>3, <3>1, TextOfOwnID
    <3>3. s[id] = more[p]
      BY <1>5, <2>2
    <3> QED BY <1>3, <3>1, <3>2, <3>3
  <2> QED BY <2>1, <2>2
<1> QED BY <1>3, <1>5, <1>6 DEF Agrees, s

\* The texts of a table that agrees, import by import, and its own symbols.
LEMMA AgreedTexts ==
  ASSUME NEW tbl, IsTable(tbl), NEW slots, Agrees(tbl, slots)
  PROVE  /\ \A k \in 1 .. Len(tbl.imports) : \A p \in 1 .. tbl.imports[k].maxID :
              Known(slots[Offset(tbl.imports, k) + p], SharedFindByID(tbl.imports[k], p))
         /\ \A p \in 1 .. Len(tbl.symbols) :
              Known(slots[MaxImportID(tbl) + p], tbl.symbols[p])
         /\ Len(slots) = MaxImportID(tbl) + Len(tbl.symbols)
<1>1. PICK n \in Nat \ {0} : n = Len(tbl.imports)
  BY TableLayout
<1>2. PICK M \in Nat : M = MaxImportID(tbl)
  BY TableLayout
<1>3. PICK l \in Nat : l = Len(tbl.symbols) /\ Len(slots) = M + l
  BY <1>2, TableLayout DEF Agrees
<1>4. ASSUME NEW k \in 1 .. n, NEW p \in 1 .. tbl.imports[k].maxID
      PROVE  Known(slots[Offset(tbl.imports, k) + p], SharedFindByID(tbl.imports[k], p))
  <2>1. PICK o \in Nat : o = Offset(tbl.imports, k)
    BY <1>1, TableLayout
  <2>2. PICK q \in Nat : q = tbl.imports[k].maxID /\ o + q <= M
    BY <1>1, <1>2, <2>1, TableLayout
  <2>3. o + p \in 1 .. M + l
    BY <2>2
  <2>4. Known(slots[o + p], FindByID(tbl, o + p))
    BY <1>3, <2>3 DEF Agrees
  <2>5. FindByID(tbl, o + p) = SharedFindByID(tbl.imports[k], p)
    BY <1>1, <2>1, TextOfImportID
  <2> QED BY <2>1, <2>4, <2>5
<1>5. ASSUME NEW p \in 1 .. l
      PROVE  Known(slots[M + p], tbl.symbols[p])
  <2>1. M + p \in 1 .. M + l
    OBVIOUS
  <2>2. Known(slots[M + p], FindByID(tbl, M + p))
    BY <1>3, <2>1 DEF Agrees
  <2>3. FindByID(tbl, M + p) = tbl.symbols[p]
    BY <1>2, <1>3, TextOfOwnID
  <2> QED BY <2>2, <2>3
<1> QED BY <1>1, <1>2, <1>3, <1>4, <1>5

\* A table without symbols agrees by its imports,
LEMMA AgreesWithoutSymbols ==
  ASSUME NEW tbl, IsTable(tbl), Len(tbl.symbols) = 0, NEW slots, Agrees(tbl, slots)
  PROVE  Covers(tbl.imports, slots)
<1>1. PICK n \in Nat \ {0} : n = Len(tbl.imports)
  BY TableLayout
<1>2. PICK M \in Nat : M = MaxImportID(tbl) /\ M = Offset(tbl.imports, n + 1)
  BY <1>1, TableLayout
<1>3. Len(slots) = M
  <2>1. Len(slots) = MaxImportID(tbl) + Len(tbl.symbols)
    BY AgreedTexts
  <2>2. PICK l \in Nat : l = Len(tbl.symbols)
    BY TableLayout
  <2>3. l = 0
    BY <2>2
  <2>4. Len(slots) = M + l
    BY <1>2, <2>1, <2>2
  <2> QED BY <2>3, <2>4
<1> QED BY <1>1, <1>2, <1>3, AgreedTexts DEF Covers, Total, Agrees

\* and any table by its imports and its own symbols as one import more.
LEMMA AgreesAsImports ==
  ASSUME NEW tbl, IsTable(tbl), NEW slots, Agrees(tbl, slots),
         NEW own, IsShared(own), own.symbols = tbl.symbols, own.maxID = Len(tbl.symbols)
  PROVE  AreImports(With(tbl.imports, own)) /\ Covers(With(tbl.imports, own), slots)
<1> DEFINE a == tbl.imports
           b == With(a, own)
<1>1. PICK n \in Nat \ {0} : n = Len(a)
  BY TableLayout
<1>2. PICK M \in Nat : M = MaxImportID(tbl) /\ M = Offset(a, n + 1)
  BY <1>1, TableLayout
<1>3. PICK l \in Nat : l = Len(tbl.symbols)
  BY TableLayout
<1>4. AreImports(a)
  BY DEF IsTable
<1>5. /\ AreImports(b) /\ Len(b) = n + 1
      /\ \A i \in 1 .. n : b[i] = a[i]
      /\ b[n + 1] = own
      /\ \A i \in 1 .. n + 1 : Offset(b, i) = Offset(a, i) /\ Offset(b, i) \in Nat
      /\ Offset(b, n + 2) = M + l
  <2>1. Extends(b, a, own)
    BY <1>4, OneMoreImport, Zenon
  <2> HIDE DEF a, b
  <2> QED BY <1>1, <1>2, <1>3, <2>1 DEF Extends
<1> HIDE DEF b, a
<1>6. /\ \A k \in 1 .. n : \A p \in 1 .. a[k].maxID :
           Known(slots[Offset(a, k) + p], SharedFindByID(a[k], p))
      /\ \A p \in 1 .. l : Known(slots[M + p], tbl.symbols[p])
      /\ Len(slots) = M + l
  BY <1>1, <1>2, <1>3, AgreedTexts DEF a
<1>7. ASSUME NEW k \in 1 .. n + 1, NEW p \in 1 .. b[k].maxID
      PROVE  Known(slots[Offset(b, k) + p], SharedFindByID(b[k], p))
  <2>1. CASE k = n + 1
    <3>1. b[k] = own /\ Offset(b, k) = M /\ p \in 1 .. l
      BY <1>2, <1>3, <1>5, <2>1
    <3>2. SharedFindByID(own, p) = tbl.symbols[p]
      BY <1>3, <3>1 DEF SharedFindByID
    <3> QED BY <1>6, <3>1, <3>2
  <2>2. CASE k \in 1 .. n
    BY <1>5, <1>6, <2>2
  <2> QED BY <2>1, <2>2
<1>8. Len(slots) = Total(b)
  BY <1>5, <1>6 DEF Total
<1> QED BY <1>5, <1>7, <1>8 DEF Covers, Agrees, a, b

\* The import that an id falls into, as its author sees it.
LEMMA ImportOfImportID ==
  ASSUME NEW tbl, IsTable(tbl), NEW k \in 1 .. Len(tbl.imports),
         NEW p \in 1 .. tbl.imports[k].maxID, NEW id, id = Offset(tbl.imports, k) + p
  PROVE  ImportOf(tbl, id) = k
<1>1. PICK n \in Nat \ {0} : n = Len(tbl.imports)
  BY TableLayout
<1>2. PICK M \in Nat : M = MaxImportID(tbl)
  BY TableLayout
<1>3. PICK o \in Nat : o = Offset(tbl.imports, k)
  BY <1>1, TableLayout
<1>4. PICK q \in Nat : q = tbl.imports[k].maxID /\ o + q <= M
  BY <1>1, <1>2, <1>3, TableLayout
<1>5. id \in Nat /\ id <= M /\ id > o /\ id <= o + q
  BY <1>3, <1>4
<1> DEFINE within == {i \in 1 .. n : id > Offset(tbl.imports, i)}
<1>6. k \in within /\ within \in SUBSET Nat
  BY <1>1, <1>3, <1>5
<1>7. ASSUME NEW y \in within
      PROVE  y <= k
  <2>1. SUFFICES ASSUME k < y
                 PROVE  FALSE
    BY <1>1
  <2>2. y \in 1 .. n + 1 /\ AreImports(tbl.imports) /\ tbl.imports # << >>
    BY DEF IsTable
  <2>3. o + q <= Offset(tbl.imports, y)
    BY <1>1, <1>3, <1>4, <2>1, <2>2, OffsetsNest
  <2>4. Offset(tbl.imports, y) \in Nat
    BY <1>1, TableLayout
  <2> QED BY <1>5, <2>3, <2>4
<1>8. MaxOf(within) = k
  <2> HIDE DEF within
  <2> QED BY <1>6, <1>7, MaxIs
<1>9. ImportOf(tbl, id) = IF id > M THEN 0 ELSE MaxOf(within)
  BY <1>1, <1>2 DEF ImportOf
<1> HIDE DEF within
<1> QED BY <1>2, <1>5, <1>8, <1>9
-----------------------------------------------------------------------------
(***************************************************************************)
(* What is read for a declaration.                                         *)
(***************************************************************************)
\* A published table has its texts and as many ids.
LEMMA RegistryTable ==
  ASSUME NEW s \in Registry
  PROVE  /\ IsShared(s) /\ s.maxID = Len(s.symbols) /\ s.version \in Nat \ {0}
<1>1. s = SharedTable(s.name, s.version, s.symbols)
  BY WorldAssumption
<1> DEFINE name == s.name version == s.version symbols == s.symbols
<1>2. s.maxID = Len(symbols)
  <2>1. SharedTable(name, version, symbols).maxID = Len(symbols)
    BY Zenon DEF SharedTable
  <2> QED BY <1>1, <2>1
<1>3. s.version \in Nat \ {0}
  BY RegistryAssumption, Zenon
<1> QED BY <1>2, <1>3, RegistryIsCatalog

\* An id of a shared table has a text where the table has one.
LEMMA SharedText ==
  ASSUME NEW s, IsShared(s), NEW p \in Nat \ {0}
  PROVE  SharedFindByID(s, p) # NoText
           <=> p <= Len(s.symbols) /\ SharedFindByID(s, p) = s.symbols[p]
<1>1. PICK n \in Nat : n = Len(s.symbols)
  BY LenProperties DEF IsShared
<1>2. CASE p <= n
  <2>1. s.symbols \in [1 .. n -> Text]
    BY <1>1, LenProperties DEF IsShared
  <2>2. p \in 1 .. n
    BY <1>2
  <2>3. s.symbols[p] \in Text /\ SharedFindByID(s, p) = s.symbols[p]
    BY <1>1, <2>1, <2>2 DEF SharedFindByID
  <2>4. s.symbols[p] # NoText
    BY <2>3, TextAssumption
  <2> QED BY <1>1, <1>2, <2>3, <2>4
<1>3. CASE ~(p <= n)
  <2>1. p \notin 1 .. n
    BY <1>3
  <2>2. SharedFindByID(s, p) = NoText
    BY <1>1, <2>1 DEF SharedFindByID
  <2> QED BY <1>1, <1>3, <2>2
<1> QED BY <1>2, <1>3

\* The versions of a table give no id two texts.
LEMMA VersionsAgree ==
  ASSUME NEW s \in Registry, NEW t \in Registry, s.name = t.name, NEW p \in Nat \ {0},
         SharedFindByID(s, p) # NoText, SharedFindByID(t, p) # NoText
  PROVE  SharedFindByID(s, p) = SharedFindByID(t, p)
<1>1. /\ p <= Len(s.symbols) /\ SharedFindByID(s, p) = s.symbols[p]
      /\ p <= Len(t.symbols) /\ SharedFindByID(t, p) = t.symbols[p]
  BY RegistryTable, SharedText
<1>2. ASSUME NEW x \in Registry, NEW y \in Registry, x.name = y.name, x.version < y.version,
             p <= Len(x.symbols)
      PROVE  x.symbols[p] = y.symbols[p]
  <2>1. /\ Len(x.symbols) <= Len(y.symbols)
        /\ x.symbols = SubSeq(y.symbols, 1, Len(x.symbols))
    BY <1>2, RegistryAssumption, Zenon
  <2>2. PICK m \in Nat : m = Len(x.symbols)
    BY RegistryTable, LenProperties DEF IsShared
  <2>3. PICK n \in Nat : n = Len(y.symbols)
    BY RegistryTable, LenProperties DEF IsShared
  <2>4. y.symbols \in [1 .. n -> Text]
    BY <2>3, RegistryTable, LenProperties DEF IsShared
  <2>5. 1 .. m \subseteq 1 .. n
    BY <2>1, <2>2, <2>3
  <2>6. \A i \in 1 .. m : y.symbols[i] \in Text
    BY <2>4, <2>5
  <2>7. \A i \in 1 .. m : SubSeq(y.symbols, 1, m)[i] = y.symbols[i]
    BY <2>6, StackPrefix
  <2>8. p \in 1 .. m
    BY <1>2, <2>2
  <2> QED BY <2>1, <2>2, <2>7, <2>8
<1>3. s.version \in Nat /\ t.version \in Nat
  BY RegistryTable
<1>4. CASE s.version = t.version
  <2>1. s = t
    BY <1>4, RegistryAssumption, Zenon
  <2> QED BY <2>1
<1>5. CASE s.version < t.version
  BY <1>1, <1>2, <1>5
<1>6. CASE t.version < s.version
  BY <1>1, <1>2, <1>6
<1> QED BY <1>3, <1>4, <1>5, <1>6

\* Adjust changes the number of ids, and no text of those that stay.
LEMMA AdjustKeepsTexts ==
  ASSUME NEW s, IsShared(s), NEW m \in Nat, NEW x, x = Adjust(s, m)
  PROVE  /\ IsShared(x) /\ x.maxID = m /\ x.name = s.name /\ x.version = s.version
         /\ \A p \in 1 .. m : SharedFindByID(x, p) = SharedFindByID(s, p)
<1>1. PICK n \in Nat : n = Len(s.symbols)
  BY LenProperties DEF IsShared
<1>2. IsShared(x)
  BY AdjustKeepsShared
<1>3. CASE m > n
  <2>1. x = [s EXCEPT !.maxID = m]
    BY <1>1, <1>3 DEF Adjust
  <2>2. /\ x.maxID = m /\ x.name = s.name /\ x.version = s.version
        /\ x.symbols = s.symbols
    BY <2>1 DEF IsShared
  <2> QED BY <1>2, <2>2 DEF SharedFindByID
<1>4. CASE ~(m > n)
  <2> DEFINE kept == SubSeq(s.symbols, 1, m)
  <2>1. x = [[s EXCEPT !.symbols = kept] EXCEPT !.maxID = m]
    BY <1>1, <1>4, Zenon DEF Adjust
  <2>2. \A i \in 1 .. m : s.symbols[i] \in Text
    <3>1. s.symbols \in [1 .. n -> Text]
      BY <1>1, LenProperties DEF IsShared
    <3>2. 1 .. m \subseteq 1 .. n
      BY <1>1, <1>4
    <3> QED BY <3>1, <3>2
  <2>3. Len(kept) = m /\ \A i \in 1 .. m : kept[i] = s.symbols[i]
    BY <2>2, StackPrefix
  <2> HIDE DEF kept
  <2>4. /\ x.maxID = m /\ x.name = s.name /\ x.version = s.version /\ x.symbols = kept
    BY <2>1 DEF IsShared
  <2>5. ASSUME NEW p \in 1 .. m
        PROVE  SharedFindByID(x, p) = SharedFindByID(s, p)
    <3>1. p \in 1 .. n
      BY <1>4
    <3> QED BY <1>1, <2>3, <2>4, <3>1 DEF SharedFindByID
  <2> QED BY <1>2, <2>4, <2>5
<1> QED BY <1>3, <1>4

\* The import that is read for a declaration takes the ids that were declared, and
\* gives none a text but that of a published version of the table: of the one that
\* was asked for, if the catalog has it.
LEMMA ImportIsKnown ==
  ASSUME NEW decl, IsDecl(decl), ~PassedOver(decl.name), NEW c \in SUBSET Registry,
         NEW r, r = ReadImport(decl, c), r.err = "nil"
  PROVE  \E x : /\ r.imps = <<x>> /\ IsShared(x)
                /\ x.name = decl.name
                /\ decl.maxID >= 0 => x.maxID = decl.maxID
                /\ \/ \A p \in 1 .. x.maxID : SharedFindByID(x, p) = NoText
                   \/ \E t \in c : /\ t.name = decl.name /\ x.version = t.version
                                   /\ \A p \in 1 .. x.maxID :
                                        SharedFindByID(x, p) = SharedFindByID(t, p)
                /\ decl.maxID < 0 => \E s \in c : /\ s.name = decl.name
                                                 /\ s.version = Version(decl)
                                                 /\ x.maxID = s.maxID
                /\ \A s \in c : s.name = decl.name /\ s.version = Version(decl) =>
                     \A p \in 1 .. x.maxID : SharedFindByID(x, p) = SharedFindByID(s, p)
<1> DEFINE version == Version(decl)
           exact   == FindExact(c, decl.name, version)
           found   == IF exact # {} THEN exact ELSE FindLatest(c, decl.name)
           imp     == CHOOSE s \in found : TRUE
           maxID   == IF decl.maxID < 0 THEN imp.maxID ELSE decl.maxID
           refused == decl.maxID < 0 /\ (found = {} \/ imp.version # version)
<1>1. r = IF PassedOver(decl.name) THEN [err |-> "nil", imps |-> << >>]
          ELSE IF refused THEN [err |-> "nomaxid", imps |-> << >>]
          ELSE IF found = {}
          THEN [err |-> "nil", imps |-> <<BogusSST(decl.name, version, maxID)>>]
          ELSE [err |-> "nil", imps |-> <<Adjust(imp, maxID)>>]
  BY Zenon DEF ReadImport, PassedOver, Version
<1>2. \A s \in found : s \in c /\ s.name = decl.name
  BY DEF FindExact, FindLatest
<1>3. \A s \in c : s.name = decl.name /\ s.version = version => s \in exact
  BY DEF FindExact
<1>4. \A s, t \in exact : s = t
  <2>1. \A s \in exact : s \in Registry /\ s.name = decl.name /\ s.version = version
    BY DEF FindExact
  <2> HIDE DEF exact
  <2> QED BY <2>1, RegistryAssumption, Zenon
<1>5. found # {} => imp \in found
  <2> HIDE DEF found
  <2> QED OBVIOUS
<1>6. exact # {} => found = exact
  OBVIOUS
<1>7. refused <=> decl.maxID < 0 /\ (found = {} \/ imp.version # version)
  OBVIOUS
<1>8. /\ decl.maxID < 0 => maxID = imp.maxID
      /\ decl.maxID >= 0 => maxID = decl.maxID /\ maxID \in Nat
  <2> HIDE DEF imp
  <2> QED BY DEF IsDecl
<1> HIDE DEF refused, maxID, imp, found, exact, version
<1>9. ~refused
  BY <1>1
<1>10. CASE found = {}
  <2> DEFINE x == BogusSST(decl.name, version, maxID)
  <2>1. r = [err |-> "nil", imps |-> <<x>>]
    BY <1>1, <1>9, <1>10, Zenon
  <2>2. decl.maxID >= 0 /\ maxID = decl.maxID /\ maxID \in Nat
    BY <1>7, <1>8, <1>9, <1>10 DEF IsDecl
  <2>3. IsShared(x)
    <3>1. << >> \in Seq(Text) /\ Len(<< >>) = 0
      BY EmptySeq
    <3> QED BY <2>2, <3>1 DEF IsShared, BogusSST
  <2>4. x.symbols = << >> /\ x.maxID = maxID /\ x.name = decl.name
    BY DEF BogusSST
  <2>5. \A p : SharedFindByID(x, p) = NoText
    <3>1. Len(<< >>) = 0
      BY EmptySeq
    <3> HIDE DEF x
    <3> QED BY <2>4, <3>1 DEF SharedFindByID
  <2>6. \A s \in c : ~(s.name = decl.name /\ s.version = version)
    BY <1>3, <1>6, <1>10
  <2>7. r.imps = <<x>>
    BY <2>1
  <2> HIDE DEF x
  <2> QED BY <2>2, <2>3, <2>4, <2>5, <2>6, <2>7 DEF version
<1>11. CASE found # {}
  <2> DEFINE x == Adjust(imp, maxID)
  <2>1. r.imps = <<x>>
    <3>1. r = [err |-> "nil", imps |-> <<x>>]
      BY <1>1, <1>9, <1>11, Zenon
    <3> QED BY <3>1
  <2>2. imp \in c /\ imp \in Registry /\ imp.name = decl.name
    BY <1>2, <1>5, <1>11
  <2>3. IsShared(imp) /\ imp.maxID \in Nat
    BY <2>2, RegistryTable DEF IsShared
  <2>4. maxID \in Nat
    BY <1>8, <2>3 DEF IsDecl
  <2>5. /\ IsShared(x) /\ x.maxID = maxID /\ x.name = imp.name /\ x.version = imp.version
        /\ \A p \in 1 .. maxID : SharedFindByID(x, p) = SharedFindByID(imp, p)
    BY <2>3, <2>4, AdjustKeepsTexts
  <2>6. decl.maxID < 0 => imp.version = version
    BY <1>7, <1>9
  <2>7. ASSUME NEW s \in c, s.name = decl.name, s.version = version
        PROVE  s = imp
    BY <1>3, <1>4, <1>5, <1>6, <1>11, <2>7
  <2> HIDE DEF x
  <2> QED BY <1>8, <2>1, <2>2, <2>5, <2>6, <2>7 DEF version
<1> QED BY <1>10, <1>11
-----------------------------------------------------------------------------
(***************************************************************************)
(* Reading the declarations of a table.                                    *)
(***************************************************************************)
\* An import has the texts of a published table, or none.
Published(s) ==
  \/ \A p \in 1 .. s.maxID : SharedFindByID(s, p) = NoText
  \/ \E t \in Registry : /\ t.name = s.name /\ t.version = s.version
                         /\ \A p \in 1 .. s.maxID : SharedFindByID(s, p) = SharedFindByID(t, p)

\* An import that can be declared.
IsNamed(s) == ~PassedOver(s.name) /\ Published(s)

\* What was read for a declaration, against the ids the declaration stands for.
Fits(imps, slots) ==
  \/ imps = << >> /\ slots = << >>
  \/ \E x : /\ imps = <<x>> /\ IsShared(x) /\ IsNamed(x)
            /\ IsStack(slots) /\ Len(slots) = x.maxID
            /\ \A p \in 1 .. x.maxID : Known(slots[p], SharedFindByID(x, p))

\* A full list, with one import more.
LEMMA FullWith ==
  ASSUME NEW imports, AreImports(imports), NEW x, IsShared(x)
  PROVE  /\ Full(With(imports, x)) = With(Full(imports), x)
         /\ Full(imports \o << >>) = Full(imports)
<1>1. PICK S : imports \in Seq(S)
  BY DEF AreImports, IsStack
<1> DEFINE T == S \cup {x, V1System}
<1>2. imports \in Seq(T) /\ <<x>> \in Seq(T) /\ <<V1System>> \in Seq(T)
  <2>1. imports \in Seq(T)
    BY <1>1, SeqMonotonic
  <2>2. x \in T /\ V1System \in T
    OBVIOUS
  <2> HIDE DEF T
  <2> QED BY <2>1, <2>2
<1> HIDE DEF T
<1>3. (<<V1System>> \o imports) \o <<x>> = <<V1System>> \o (imports \o <<x>>)
  BY <1>2, ConcatAssociative
<1>4. imports \o << >> = imports
  BY <1>1, ConcatEmptySeq
<1> QED BY <1>3, <1>4, Zenon DEF Full, With

\* The system table agrees with its own meaning.
LEMMA SystemAgrees ==
  /\ Agrees(SystemTable, SystemMeaning) /\ Covers(Full(<< >>), SystemMeaning)
  /\ SystemTable.imports = Full(<< >>) /\ Len(SystemTable.symbols) = 0
<1>1. IsTable(SystemTable)
  BY SystemTableIsTable
<1>2. SystemTable.imports = Full(<< >>) /\ SystemTable.symbols = << >>
  <2>1. SystemTable.imports = ProcessImports(<< >>) /\ SystemTable.symbols = << >>
    BY DEF SystemTable, NewLocalTable
  <2>2. ProcessImports(<< >>) = Full(<< >>)
    BY Zenon DEF ProcessImports, Full
  <2> QED BY <2>1, <2>2
<1>3. Len(<< >>) = 0
  BY EmptySeq
<1>4. Agrees(SystemTable, SystemMeaning)
  <2>1. PICK m \in Nat : m = MaxID(SystemTable)
    <3>1. /\ MaxImportID(SystemTable) \in Nat /\ Len(SystemTable.symbols) \in Nat
          /\ MaxID(SystemTable) = MaxImportID(SystemTable) + Len(SystemTable.symbols)
      BY <1>1, TableLayout
    <3> QED BY <3>1
  <2> DEFINE M == [id \in 1 .. m |-> Slot(FindByID(SystemTable, id), TRUE)]
  <2>2. SystemMeaning = M
    BY <2>1 DEF SystemMeaning, MeaningOf
  <2>3. M \in Seq({M[i] : i \in 1 .. m}) /\ Len(M) = m
    <3>1. M \in [1 .. m -> {M[i] : i \in 1 .. m}]
      OBVIOUS
    <3> HIDE DEF M
    <3>2. M \in Seq({M[i] : i \in 1 .. m})
      BY <3>1, SeqDef
    <3> QED BY <3>1, <3>2, LenProperties
  <2>4. ASSUME NEW id \in 1 .. m
        PROVE  Known(M[id], FindByID(SystemTable, id))
    <3>1. M[id].text = FindByID(SystemTable, id)
      BY DEF Slot
    <3> QED BY <3>1 DEF Known
  <2> HIDE DEF M
  <2> QED BY <2>1, <2>2, <2>3, <2>4 DEF Agrees, IsStack
<1>5. Covers(SystemTable.imports, SystemMeaning)
  BY <1>1, <1>2, <1>3, <1>4, AgreesWithoutSymbols
<1> QED BY <1>2, <1>3, <1>4, <1>5

\* The declarations of a table are read in order: if what is read for each fits the
\* ids it stands for, the imports cover them all.
LEMMA ReadingCovers ==
  ASSUME NEW decls, NEW c, NEW n \in Nat, NEW f, Reading(f, decls, c, n), NEW d, NEW g,
         f[n].err = "nil",
         Covers(Full(<< >>), g[0]), \A i \in 1 .. n : g[i] = g[i - 1] \o d[i],
         \A i \in 1 .. n : ReadImport(decls[i], c).err = "nil"
                             => Fits(ReadImport(decls[i], c).imps, d[i])
  PROVE  /\ AreImports(f[n].imps) /\ Covers(Full(f[n].imps), g[n])
         /\ \A i \in 1 .. Len(f[n].imps) : IsNamed(f[n].imps[i])
<1> DEFINE Good(imps, slots) == /\ AreImports(imps) /\ Covers(Full(imps), slots)
                                /\ \A i \in 1 .. Len(imps) : IsNamed(imps[i])
           S == {k \in 0 .. n : f[k].err = "nil" => Good(f[k].imps, g[k])}
<1>1. 0 \in S
  <2>1. f[0] = NoneRead
    BY DEF Reading, ReadUpTo
  <2>2. f[0].imps = << >>
    BY <2>1 DEF NoneRead
  <2>3. \A i \in 1 .. Len(<< >>) : IsNamed(<< >>[i])
    BY EmptySeq
  <2> QED BY <2>2, <2>3, FewImports
<1>2. ASSUME NEW k \in 1 .. n, k - 1 \in S
      PROVE  k \in S
  <2> DEFINE x == f[k - 1]
             o == ReadImport(decls[k], c)
  <2> SUFFICES ASSUME f[k].err = "nil"
               PROVE  Good(f[k].imps, g[k])
    OBVIOUS
  <2>1. f[k] = ReadUpTo(k, x, decls, c) /\ k # 0
    BY DEF Reading
  <2>2. f[k] = IF x.err # "nil" THEN x ELSE OneMoreRead(x, o)
    BY <2>1 DEF ReadUpTo
  <2>3. x.err = "nil" => Good(x.imps, g[k - 1])
    BY <1>2
  <2>4. o.err = "nil" => Fits(o.imps, d[k])
    OBVIOUS
  <2>5. g[k] = g[k - 1] \o d[k]
    OBVIOUS
  <2> DEFINE more == d[k]
             slots == g[k - 1]
             imps == x.imps
             both == imps \o o.imps
  <2> HIDE DEF x, o
  <2>6. x.err = "nil"
    BY <2>2
  <2>7. f[k].err = o.err /\ f[k].imps = both
    <3>1. OneMoreRead(x, o) = [err |-> o.err, imps |-> both]
      BY Zenon DEF OneMoreRead
    <3> HIDE DEF both
    <3>2. f[k] = OneMoreRead(x, o)
      BY <2>2, <2>6
    <3> QED BY <3>1, <3>2
  <2>8. Good(imps, slots) /\ Fits(o.imps, more)
    BY <2>3, <2>4, <2>6, <2>7
  <2>9. CASE o.imps = << >> /\ more = << >>
    <3>1. both = imps
      <4>1. PICK T : imps \in Seq(T)
        BY <2>8 DEF AreImports, IsStack
      <4>2. imps \o << >> = imps
        BY <4>1, ConcatEmptySeq
      <4> QED BY <2>9, <4>2, Zenon
    <3>2. slots \o << >> = slots
      <4>1. PICK T : slots \in Seq(T)
        BY <2>8 DEF Covers, IsStack
      <4> QED BY <4>1, ConcatEmptySeq
    <3>3. g[k] = slots
      BY <2>5, <2>9, <3>2, Zenon
    <3> HIDE DEF both, slots, imps
    <3> QED BY <2>7, <2>8, <3>1, <3>3
  <2>10. CASE ~(o.imps = << >> /\ more = << >>)
    <3>1. PICK s : /\ o.imps = <<s>> /\ IsShared(s) /\ IsNamed(s)
                   /\ IsStack(more) /\ Len(more) = s.maxID
                   /\ \A p \in 1 .. s.maxID : Known(more[p], SharedFindByID(s, p))
      BY <2>8, <2>10, Zenon DEF Fits
    <3>2. both = With(imps, s)
      BY <3>1, Zenon DEF With
    <3>3. g[k] = slots \o more
      BY <2>5
    <3> HIDE DEF both, slots, imps, more
    <3>4. AreImports(imps) /\ AreImports(Full(imps)) /\ Covers(Full(imps), slots)
      BY <2>8, FullImports
    <3>5. Covers(With(Full(imps), s), slots \o more)
      BY <3>1, <3>4, CoversMore
    <3>6. Covers(Full(both), g[k])
      BY <3>1, <3>2, <3>3, <3>4, <3>5, FullWith
    <3>7. PICK m \in Nat : m = Len(imps)
      BY <3>4, StackLen DEF AreImports
    <3>8. /\ AreImports(both) /\ Len(both) = m + 1
          /\ \A i \in 1 .. m : both[i] = imps[i]
          /\ both[m + 1] = s
      <4>1. Extends(With(imps, s), imps, s)
        BY <3>1, <3>4, OneMoreImport, Zenon
      <4> QED BY <3>2, <3>7, <4>1 DEF Extends
    <3>9. \A i \in 1 .. m + 1 : IsNamed(both[i])
      <4>1. \A i \in 1 .. m + 1 : i \in 1 .. m \/ i = m + 1
        OBVIOUS
      <4> QED BY <2>8, <3>1, <3>7, <3>8, <4>1
    <3> QED BY <2>7, <3>6, <3>8, <3>9
  <2> QED BY <2>9, <2>10
<1>3. \A k \in 0 .. n : k \in S
  <2> HIDE DEF S
  <2> QED BY <1>1, <1>2, Induction
<1>4. n \in S
  BY <1>3
<1> QED BY <1>4
-----------------------------------------------------------------------------
(***************************************************************************)
(* Lists, and the tables made of them.                                     *)
(***************************************************************************)
\* A list given by its members.
LEMMA Listed ==
  ASSUME NEW f, NEW n \in Nat, DOMAIN f = 1 .. n, f = [i \in 1 .. n |-> f[i]]
  PROVE  IsStack(f) /\ Len(f) = n
<1> DEFINE T == {f[i] : i \in 1 .. n}
<1>1. f \in [1 .. n -> T]
  OBVIOUS
<1> HIDE DEF T
<1>2. f \in Seq(T)
  BY <1>1, SeqDef
<1>3. Len(f) = n
  BY <1>2, LenProperties
<1> QED BY <1>2, <1>3 DEF IsStack

\* The first n members of a list, and the m behind them.
FirstOf(M, n) == [i \in 1 .. n |-> M[i]]
Behind(M, n, m) == [i \in 1 .. m |-> M[n + i]]

IsList(s, n) == IsStack(s) /\ Len(s) = n

LEMMA FirstIs ==
  ASSUME NEW M, NEW n \in Nat
  PROVE  IsList(FirstOf(M, n), n)
<1> DEFINE a == FirstOf(M, n)
<1>1. DOMAIN a = 1 .. n /\ a = [i \in 1 .. n |-> a[i]]
  BY DEF FirstOf
<1> HIDE DEF a
<1>2. IsList(a, n)
  BY <1>1, Listed DEF IsList
<1> QED BY <1>2 DEF a

LEMMA BehindIs ==
  ASSUME NEW M, NEW n, NEW m \in Nat
  PROVE  IsList(Behind(M, n, m), m)
<1> DEFINE b == Behind(M, n, m)
<1>1. DOMAIN b = 1 .. m /\ b = [i \in 1 .. m |-> b[i]]
  BY DEF Behind
<1> HIDE DEF b
<1>2. IsList(b, m)
  BY <1>1, Listed DEF IsList
<1> QED BY <1>2 DEF b

LEMMA FirstThenBehind ==
  ASSUME NEW M, NEW n \in Nat, NEW m \in Nat
  PROVE  FirstOf(M, n + m) = FirstOf(M, n) \o Behind(M, n, m)
<1> DEFINE a == FirstOf(M, n)
           b == Behind(M, n, m)
           c == FirstOf(M, n + m)
<1>1. IsStack(a) /\ Len(a) = n
  BY FirstIs, Zenon DEF IsList
<1>2. IsStack(b) /\ Len(b) = m
  BY BehindIs, Zenon DEF IsList
<1>3. IsStack(c) /\ Len(c) = n + m
  <2>1. PICK k \in Nat : k = n + m
    OBVIOUS
  <2>2. IsList(FirstOf(M, k), k)
    BY FirstIs, Zenon
  <2> QED BY <2>1, <2>2 DEF IsList
<1>4. \A i \in 1 .. n + m : c[i] = IF i <= n THEN a[i] ELSE b[i - n]
  <2>1. ASSUME NEW i \in 1 .. n + m
        PROVE  c[i] = IF i <= n THEN a[i] ELSE b[i - n]
    <3>1. c[i] = M[i]
      BY DEF FirstOf
    <3>2. CASE i <= n
      <4>1. a[i] = M[i]
        BY <3>2 DEF FirstOf
      <4> QED BY <3>1, <3>2, <4>1
    <3>3. CASE ~(i <= n)
      <4>1. i - n \in 1 .. m /\ n + (i - n) = i
        BY <3>3
      <4>2. b[i - n] = M[n + (i - n)]
        BY <4>1 DEF Behind
      <4> QED BY <3>1, <3>3, <4>1, <4>2
    <3> QED BY <3>2, <3>3
  <2> QED BY <2>1
<1> HIDE DEF a, b, c
<1>5. /\ IsStack(a \o b) /\ Len(a \o b) = n + m
      /\ \A i \in 1 .. n + m : (a \o b)[i] = IF i <= n THEN a[i] ELSE b[i - n]
  BY <1>1, <1>2, StackConcat
<1>6. c = a \o b
  <2> DEFINE d == a \o b
  <2> HIDE DEF d
  <2>1. \A i \in 1 .. n + m : c[i] = d[i]
    BY <1>4, <1>5 DEF d
  <2>2. PICK S : c \in Seq(S) /\ d \in Seq(S)
    <3>1. PICK A, B : c \in Seq(A) /\ d \in Seq(B)
      BY <1>3, <1>5 DEF IsStack, d
    <3>2. c \in Seq(A \cup B) /\ d \in Seq(A \cup B)
      BY <3>1, SeqMonotonic
    <3> QED BY <3>2
  <2>3. Len(c) = Len(d)
    BY <1>3, <1>5 DEF d
  <2>4. c = d
    BY <1>3, <2>1, <2>2, <2>3, SeqEqual
  <2> QED BY <2>4 DEF d
<1> QED BY <1>6 DEF a, b, c

IsNameless(s) == s.name = ""

\* A table begins with the system table; its other imports can be declared, or stand
\* for what it was appended to.
IsProper(tbl) ==
  /\ tbl.imports[1] = V1System
  /\ \A i \in 2 .. Len(tbl.imports) : IsNameless(tbl.imports[i]) \/ IsNamed(tbl.imports[i])

\* A table of imports that can be declared.
LEMMA ProperTable ==
  ASSUME NEW imports, AreImports(imports), \A i \in 1 .. Len(imports) : IsNamed(imports[i]),
         NEW symbols \in Seq(Text), NEW tbl, tbl = NewLocalTable(imports, symbols)
  PROVE  /\ IsTable(tbl) /\ tbl.imports = Full(imports) /\ tbl.symbols = symbols
         /\ IsProper(tbl) /\ \A i \in 1 .. Len(tbl.imports) : ~IsNameless(tbl.imports[i])
<1>1. IsTable(tbl) /\ tbl.symbols = symbols
  BY NewLocalTableIsTable
<1>2. tbl.imports = ProcessImports(imports)
  BY DEF NewLocalTable
<1>3. ~(imports # << >> /\ imports[1].name = "$ion")
  <2>1. SUFFICES ASSUME imports # << >>
                 PROVE  ~(imports[1].name = "$ion")
    OBVIOUS
  <2>2. PICK n \in Nat \ {0} : n = Len(imports)
    BY <2>1, StackLen DEF AreImports
  <2>3. 1 \in 1 .. n
    OBVIOUS
  <2>4. ~PassedOver(imports[1].name)
    BY <2>2, <2>3 DEF IsNamed
  <2> QED BY <2>4, Zenon DEF PassedOver
<1>4. tbl.imports = Full(imports)
  BY <1>2, <1>3, Zenon DEF ProcessImports, Full
<1>5. PICK n \in Nat : n = Len(imports)
  BY StackLen DEF AreImports
<1>6. /\ Len(Full(imports)) = n + 1 /\ Full(imports)[1] = V1System
      /\ \A i \in 1 .. n : Full(imports)[i + 1] = imports[i]
  BY <1>5, FullImports
<1>7. ASSUME NEW i \in 2 .. n + 1
      PROVE  IsNamed(tbl.imports[i])
  <2>1. i - 1 \in 1 .. n /\ i - 1 + 1 = i
    OBVIOUS
  <2>2. tbl.imports[i] = imports[i - 1]
    BY <1>4, <1>6, <2>1
  <2> QED BY <1>5, <2>1, <2>2
<1>8. ~IsNameless(V1System)
  <2>1. V1System.name = "$ion"
    BY Zenon DEF V1System, SharedTable
  <2>2. "$ion" # ""
    BY Zenon
  <2> QED BY <2>1, <2>2, Zenon DEF IsNameless
<1>9. \A s : IsNamed(s) => ~IsNameless(s)
  BY Zenon DEF IsNamed, IsNameless, PassedOver
<1>10. ASSUME NEW i \in 1 .. n + 1
       PROVE  ~IsNameless(tbl.imports[i])
  <2>1. CASE i = 1
    BY <1>4, <1>6, <1>8, <2>1
  <2>2. CASE i # 1
    <3>1. i \in 2 .. n + 1
      BY <2>2
    <3> QED BY <1>7, <1>9, <3>1
  <2> QED BY <2>1, <2>2
<1> QED BY <1>1, <1>4, <1>6, <1>7, <1>10 DEF IsProper
-----------------------------------------------------------------------------
(***************************************************************************)
(* What declarations stand for, to their authors.                          *)
(***************************************************************************)
\* What a table means to its author.
Authored(tbl) == [id \in 1 .. MaxID(tbl) |-> Slot(FindByID(tbl, id), Sure(tbl, id))]

\* How WriteTo declares an import.
DeclOf(s) == [name |-> s.name, version |-> s.version, maxID |-> s.maxID]

\* A reader who knows the declaration of an import reads one that its author agrees
\* with, id by id: the author counts on it only if the catalog has it.
LEMMA DeclaredFits ==
  ASSUME NEW c \in SUBSET Registry, NEW s, IsShared(s), IsNamed(s), NEW r,
         r = ReadImport(DeclOf(s), c), NEW slots, IsStack(slots), Len(slots) = s.maxID,
         \A p \in 1 .. s.maxID : /\ slots[p].text = SharedFindByID(s, p)
                                 /\ slots[p].sure => s \in c
  PROVE  r.err = "nil" /\ Fits(r.imps, slots)
<1> DEFINE decl == DeclOf(s)
<1>1. decl.name = s.name /\ decl.version = s.version /\ decl.maxID = s.maxID
  BY DEF DeclOf
<1>2. s.maxID \in Nat
  BY DEF IsShared
<1>3. IsDecl(decl) /\ decl.maxID >= 0 /\ decl.maxID \in Nat
  <2> HIDE DEF decl
  <2> QED BY <1>1, <1>2 DEF IsDecl
<1>4. ~PassedOver(decl.name)
  BY <1>1 DEF IsNamed
<1> HIDE DEF decl
<1>5. IsCatalog(c)
  BY RegistryIsCatalog DEF IsCatalog
<1>6. r.err = "nil"
  BY <1>3, <1>5, ImportIsRead DEF decl
<1>7. PICK x : /\ r.imps = <<x>> /\ IsShared(x)
               /\ x.name = decl.name /\ x.maxID = decl.maxID
               /\ \/ \A p \in 1 .. x.maxID : SharedFindByID(x, p) = NoText
                  \/ \E t \in c : /\ t.name = decl.name /\ x.version = t.version
                                  /\ \A p \in 1 .. x.maxID :
                                       SharedFindByID(x, p) = SharedFindByID(t, p)
               /\ \A t \in c : t.name = decl.name /\ t.version = Version(decl) =>
                     \A p \in 1 .. x.maxID : SharedFindByID(x, p) = SharedFindByID(t, p)
  <2>1. r = ReadImport(decl, c)
    BY DEF decl
  <2> QED BY <1>3, <1>4, <1>6, <2>1, ImportIsKnown
<1>8. IsNamed(x)
  BY <1>4, <1>7 DEF IsNamed, Published
<1>9. ASSUME NEW p \in 1 .. s.maxID
      PROVE  Known(slots[p], SharedFindByID(x, p))
  <2> DEFINE mine == SharedFindByID(s, p)
             read == SharedFindByID(x, p)
  <2> SUFFICES ASSUME mine # NoText
               PROVE  read = mine \/ (read = NoText /\ s \notin c)
    BY DEF Known
  <2> HIDE DEF mine, read
  <2>1. p \in 1 .. x.maxID /\ p \in Nat \ {0}
    BY <1>1, <1>2, <1>7
  <2>2. CASE s \in c
    <3>1. s.version \in Nat \ {0}
      BY <2>2, RegistryTable
    <3>2. ~(s.version < 1)
      BY <3>1
    <3>3. Version(decl) = s.version
      BY <1>1, <3>2 DEF Version
    <3> QED BY <1>1, <1>7, <2>1, <2>2, <3>3 DEF mine, read
  <2>3. CASE s \notin c
    <3>1. PICK t1 \in Registry : t1.name = s.name /\ mine = SharedFindByID(t1, p)
      BY DEF IsNamed, Published, mine
    <3>2. SUFFICES ASSUME read # NoText
                   PROVE  read = mine
      BY <2>3
    <3>3. PICK t2 \in c : t2.name = decl.name /\ read = SharedFindByID(t2, p)
      BY <1>7, <2>1, <3>2 DEF read
    <3>4. t2 \in Registry /\ t1.name = t2.name
      BY <1>1, <3>1, <3>3
    <3> QED BY <2>1, <3>1, <3>2, <3>3, <3>4, VersionsAgree
  <2> QED BY <2>2, <2>3
<1>10. Len(slots) = x.maxID /\ \A p \in 1 .. x.maxID : Known(slots[p], SharedFindByID(x, p))
  BY <1>1, <1>7, <1>9
<1>11. Fits(r.imps, slots)
  BY <1>7, <1>8, <1>10, Zenon DEF Fits
<1> QED BY <1>6, <1>11

\* The slots of a table's own symbols.
OwnSlots(symbols) == [i \in 1 .. Len(symbols) |-> Slot(symbols[i], TRUE)]

LEMMA OwnSlotsAre ==
  ASSUME NEW symbols \in Seq(Text)
  PROVE  /\ IsStack(OwnSlots(symbols)) /\ Len(OwnSlots(symbols)) = Len(symbols)
         /\ \A p \in 1 .. Len(symbols) : Known(OwnSlots(symbols)[p], symbols[p])
<1> DEFINE f == OwnSlots(symbols)
<1>1. PICK n \in Nat : n = Len(symbols)
  BY LenProperties
<1>2. DOMAIN f = 1 .. n /\ f = [i \in 1 .. n |-> f[i]]
  BY <1>1 DEF OwnSlots
<1>3. \A p \in 1 .. n : f[p].text = symbols[p]
  BY <1>1 DEF OwnSlots, Slot
<1> HIDE DEF f
<1>4. IsStack(f) /\ Len(f) = n
  BY <1>2, Listed
<1>5. \A p \in 1 .. n : Known(f[p], symbols[p])
  BY <1>3 DEF Known
<1> QED BY <1>1, <1>4, <1>5 DEF f

\* The table a declaration stands for, and the number of its ids.
StandsFor(s, decl) ==
  \/ s \in Registry /\ s.name = decl.name /\ s.version = Version(decl)
  \/ /\ \A t \in Registry : ~(t.name = decl.name /\ t.version = Version(decl))
     /\ s = BogusSST(decl.name, Version(decl), 0)

Reserved(s, decl) == IF decl.maxID < 0 THEN s.maxID ELSE decl.maxID

\* Whatever the reader's catalog has, it reads the declaration so that it fits.
LEMMA PublishedFits ==
  ASSUME NEW c \in SUBSET Registry, NEW decl, IsDecl(decl), ~PassedOver(decl.name),
         NEW r, r = ReadImport(decl, c), r.err = "nil",
         NEW s, StandsFor(s, decl), NEW m, m = Reserved(s, decl),
         NEW slots, IsStack(slots), Len(slots) = m,
         \A p \in 1 .. m : /\ slots[p].text = SharedFindByID(s, p)
                           /\ slots[p].sure => s \in c
  PROVE  Fits(r.imps, slots)
<1>1. \A t \in Registry : t.name = decl.name /\ t.version = Version(decl) => s = t
  <2>1. ASSUME NEW t \in Registry, t.name = decl.name, t.version = Version(decl)
        PROVE  s = t
    <3>1. s \in Registry /\ s.name = t.name /\ s.version = t.version
      BY <2>1 DEF StandsFor
    <3> QED BY <3>1, RegistryAssumption, Zenon
  <2> QED BY <2>1
<1>2. PICK x : /\ r.imps = <<x>> /\ IsShared(x)
               /\ x.name = decl.name
               /\ decl.maxID >= 0 => x.maxID = decl.maxID
               /\ \/ \A p \in 1 .. x.maxID : SharedFindByID(x, p) = NoText
                  \/ \E t \in c : /\ t.name = decl.name /\ x.version = t.version
                                  /\ \A p \in 1 .. x.maxID :
                                       SharedFindByID(x, p) = SharedFindByID(t, p)
               /\ decl.maxID < 0 => \E t \in c : /\ t.name = decl.name
                                                /\ t.version = Version(decl)
                                                /\ x.maxID = t.maxID
               /\ \A t \in c : t.name = decl.name /\ t.version = Version(decl) =>
                     \A p \in 1 .. x.maxID : SharedFindByID(x, p) = SharedFindByID(t, p)
  BY ImportIsKnown
<1>3. IsNamed(x)
  BY <1>2 DEF IsNamed, Published
<1>4. s.maxID \in Nat /\ decl.maxID \in Int
  <2>1. CASE s \in Registry
    BY <2>1, RegistryTable DEF IsShared, IsDecl
  <2>2. CASE s = BogusSST(decl.name, Version(decl), 0)
    BY <2>2 DEF BogusSST, IsDecl
  <2> QED BY <2>1, <2>2 DEF StandsFor
<1>5. m \in Nat
  BY <1>4 DEF Reserved
<1>6. x.maxID = m
  <2>1. CASE decl.maxID < 0
    BY <1>1, <1>2, <2>1 DEF Reserved
  <2>2. CASE ~(decl.maxID < 0)
    BY <1>2, <1>4, <2>2 DEF Reserved
  <2> QED BY <2>1, <2>2
<1>7. ASSUME NEW p \in 1 .. m
      PROVE  Known(slots[p], SharedFindByID(x, p))
  <2> DEFINE mine == SharedFindByID(s, p)
             read == SharedFindByID(x, p)
  <2> SUFFICES ASSUME mine # NoText
               PROVE  read = mine \/ (read = NoText /\ s \notin c)
    BY DEF Known
  <2> HIDE DEF mine, read
  <2>1. p \in 1 .. x.maxID /\ p \in Nat \ {0}
    BY <1>5, <1>6
  <2>2. s \in Registry /\ s.name = decl.name /\ s.version = Version(decl)
    <3>1. \A q : SharedFindByID(BogusSST(decl.name, Version(decl), 0), q) = NoText
      <4>1. Len(<< >>) = 0
        BY EmptySeq
      <4> QED BY <4>1 DEF SharedFindByID, BogusSST
    <3> QED BY <3>1 DEF mine, StandsFor
  <2>3. CASE s \in c
    BY <1>2, <2>1, <2>2, <2>3 DEF mine, read
  <2>4. CASE s \notin c
    <3>1. SUFFICES ASSUME read # NoText
                   PROVE  read = mine
      BY <2>4
    <3>2. PICK t \in c : t.name = decl.name /\ read = SharedFindByID(t, p)
      BY <1>2, <2>1, <3>1 DEF read
    <3>3. t \in Registry /\ s.name = t.name
      BY <2>2, <3>2
    <3> QED BY <2>1, <2>2, <3>1, <3>2, <3>3, VersionsAgree DEF mine
  <2> QED BY <2>3, <2>4
<1> QED BY <1>2, <1>3, <1>6, <1>7, Zenon DEF Fits

\* A table that was not found has no ids of its own.
LEMMA BogusIsShared ==
  ASSUME NEW name, NEW version
  PROVE  IsShared(BogusSST(name, version, 0))
<1>1. << >> \in Seq(Text) /\ Len(<< >>) = 0
  BY EmptySeq
<1> QED BY <1>1 DEF IsShared, BogusSST

\* A published table, given the number of ids a declaration asks for, is what the
\* declaration stands for.
LEMMA ForeignFits ==
  ASSUME NEW decl, IsDecl(decl), cat \subseteq Registry, NEW c, c = cat,
         NEW r, r = ReadImport(decl, c), r.err = "nil"
  PROVE  Fits(r.imps, DeclaredSlots(decl))
<1> DEFINE slots == DeclaredSlots(decl)
           exact == FindExact(Registry, decl.name, Version(decl))
           d     == DeclaredTable(decl)
           s     == IF exact = {} THEN BogusSST(decl.name, Version(decl), 0)
                    ELSE CHOOSE t \in exact : TRUE
           m     == Reserved(s, decl)
           x     == Adjust(s, m)
<1>1. CASE PassedOver(decl.name)
  <2>1. r = [err |-> "nil", imps |-> << >>]
    BY <1>1, Zenon DEF ReadImport, PassedOver
  <2>2. d = << >>
    BY <1>1, Zenon DEF DeclaredTable, PassedOver
  <2>3. slots = << >>
    BY <2>2, Zenon DEF DeclaredSlots
  <2>4. r.imps = << >>
    BY <2>1
  <2> QED BY <2>3, <2>4, Zenon DEF Fits
<1>2. CASE ~PassedOver(decl.name)
  <2>1. d = <<[table |-> x, sure |-> s \in cat]>>
    BY <1>2, Zenon DEF DeclaredTable, PassedOver, Version, Reserved
  <2>2. d # << >> /\ d[1] = [table |-> x, sure |-> s \in cat]
    <3> HIDE DEF d, x, s
    <3> QED BY <2>1
  <2>3. slots = [i \in 1 .. d[1].table.maxID |-> Slot(SharedFindByID(d[1].table, i), d[1].sure)]
    BY <2>2, Zenon DEF DeclaredSlots
  <2>4. d[1].table = x /\ d[1].sure = (s \in c)
    <3> HIDE DEF d, x, s
    <3> QED BY <2>2
  <2>5. StandsFor(s, decl)
    <3>1. CASE exact = {}
      <4>1. \A t \in Registry : ~(t.name = decl.name /\ t.version = Version(decl))
        BY <3>1 DEF FindExact
      <4> QED BY <3>1, <4>1 DEF StandsFor
    <3>2. CASE exact # {}
      <4>1. s \in exact
        <5> HIDE DEF exact
        <5> QED BY <3>2
      <4> HIDE DEF s
      <4> QED BY <4>1 DEF FindExact, StandsFor
    <3> QED BY <3>1, <3>2
  <2>6. m = Reserved(s, decl)
    OBVIOUS
  <2> HIDE DEF d, s, exact, m
  <2>7. IsShared(s) /\ s.maxID \in Nat
    <3>1. IsShared(s)
      BY <2>5, RegistryTable, BogusIsShared DEF StandsFor
    <3> QED BY <3>1 DEF IsShared
  <2>8. m \in Nat
    BY <2>6, <2>7 DEF IsDecl, Reserved
  <2>9. /\ x.maxID = m
        /\ \A p \in 1 .. m : SharedFindByID(x, p) = SharedFindByID(s, p)
    BY <2>7, <2>8, AdjustKeepsTexts
  <2> HIDE DEF x
  <2>10. slots = [i \in 1 .. m |-> Slot(SharedFindByID(x, i), s \in c)]
    BY <2>3, <2>4, <2>9
  <2> HIDE DEF slots
  <2>11. DOMAIN slots = 1 .. m /\ slots = [i \in 1 .. m |-> slots[i]]
    BY <2>10
  <2>12. IsStack(slots) /\ Len(slots) = m
    BY <2>8, <2>11, Listed
  <2>13. \A p \in 1 .. m : /\ slots[p].text = SharedFindByID(s, p)
                           /\ slots[p].sure => s \in c
    BY <2>9, <2>10 DEF Slot
  <2>14. c \in SUBSET Registry
    OBVIOUS
  <2>15. Fits(r.imps, slots)
    BY <1>2, <2>5, <2>6, <2>12, <2>13, <2>14, PublishedFits
  <2> QED BY <2>15 DEF slots
<1> QED BY <1>1, <1>2
-----------------------------------------------------------------------------
(***************************************************************************)
(* A table that this library writes.                                       *)
(***************************************************************************)
\* The meaning M of a table to its author, where the catalog is c.
MeansTo(M, tbl, c) ==
  /\ IsStack(M) /\ Len(M) = MaxID(tbl)
  /\ \A id \in 1 .. MaxID(tbl) : M[id].text = FindByID(tbl, id)
  /\ \A k \in 2 .. Len(tbl.imports) : \A p \in 1 .. tbl.imports[k].maxID :
       M[Offset(tbl.imports, k) + p].sure => tbl.imports[k] \in c

\* A stack is the list of its members.
LEMMA AllOf ==
  ASSUME NEW M, IsStack(M)
  PROVE  Len(M) \in Nat /\ M = FirstOf(M, Len(M))
<1>1. PICK S : M \in Seq(S)
  BY DEF IsStack
<1>2. Len(M) \in Nat /\ M \in [1 .. Len(M) -> S]
  BY <1>1, LenProperties
<1> QED BY <1>2 DEF FirstOf

\* The ids of the system table.
LEMMA SystemPart ==
  ASSUME NEW M, IsStack(M), Len(M) = V1System.maxID,
         \A p \in 1 .. V1System.maxID : M[p].text = SharedFindByID(V1System, p)
  PROVE  Covers(Full(<< >>), M)
<1> DEFINE b == Full(<< >>)
<1>1. PICK e, m : e = << >> /\ m = Len(e) /\ m = 0 /\ AreImports(e)
  <2>1. Len(<< >>) = 0 /\ AreImports(<< >>)
    BY EmptySeq, FewImports
  <2> QED BY <2>1
<1>2. AreImports(b) /\ Len(b) = 1 /\ b[1] = V1System
  <2>1. AreImports(Full(e)) /\ Len(Full(e)) = m + 1 /\ Full(e)[1] = V1System
    BY <1>1, FullImports
  <2> QED BY <1>1, <2>1
<1>3. PICK q \in Nat : q = V1System.maxID
  BY V1SystemIsShared DEF IsShared
<1> HIDE DEF b
<1>4. b # << >>
  <2>1. IsStack(b)
    BY <1>2 DEF AreImports
  <2>2. b # << >> <=> Len(b) > 0
    BY <2>1, StackLen, Zenon
  <2> QED BY <1>2, <2>2
<1>5. Offset(b, 1) = 0 /\ Offset(b, 2) = q
  <2>1. \A i \in 1 .. 1 : Offset(b, i + 1) = Offset(b, i) + b[i].maxID
    BY <1>2, <1>4, Offsets
  <2>2. Offset(b, 1) = 0
    BY <1>2, <1>4, Offsets
  <2> QED BY <1>2, <1>3, <2>1, <2>2
<1>6. Len(M) = Total(b)
  BY <1>2, <1>3, <1>5 DEF Total
<1>7. ASSUME NEW k \in 1 .. Len(b), NEW p \in 1 .. b[k].maxID
      PROVE  Known(M[Offset(b, k) + p], SharedFindByID(b[k], p))
  <2>1. k = 1 /\ p \in 1 .. q /\ Offset(b, k) + p = p
    BY <1>2, <1>3, <1>5
  <2> QED BY <1>2, <1>3, <2>1 DEF Known
<1> QED BY <1>6, <1>7 DEF Covers, b

\* A table without imports and symbols of its own is the system table to the reader.
LEMMA NothingCarried ==
  ASSUME NEW A, IsTable(A), IsProper(A), Len(A.imports) = 1, Len(A.symbols) = 0,
         NEW c, NEW M, MeansTo(M, A, c)
  PROVE  Agrees(SystemTable, M)
<1>1. A.imports[1] = V1System
  BY DEF IsProper
<1>2. PICK q \in Nat : q = V1System.maxID
  BY V1SystemIsShared DEF IsShared
<1>3. Offset(A.imports, 1) = 0 /\ Offset(A.imports, 2) = q /\ MaxID(A) = q
  <2>1. A.imports # << >> /\ AreImports(A.imports)
    BY DEF IsTable
  <2>2. Offset(A.imports, 1) = 0
    BY <2>1, Offsets
  <2>3. \A i \in 1 .. 1 : Offset(A.imports, i + 1) = Offset(A.imports, i) + A.imports[i].maxID
    BY <2>1, Offsets
  <2>4. MaxID(A) = MaxImportID(A) + 0 /\ MaxImportID(A) = Offset(A.imports, 1 + 1)
    BY TableLayout
  <2> QED BY <1>1, <1>2, <2>2, <2>3, <2>4
<1>4. ASSUME NEW p \in 1 .. q
      PROVE  M[p].text = SharedFindByID(V1System, p)
  <2>1. FindByID(A, Offset(A.imports, 1) + p) = SharedFindByID(A.imports[1], p)
    BY <1>1, <1>2, TextOfImportID
  <2>2. Offset(A.imports, 1) + p = p
    BY <1>3
  <2> QED BY <1>1, <1>3, <2>1, <2>2 DEF MeansTo
<1>5. IsStack(M) /\ Len(M) = q
  BY <1>3 DEF MeansTo
<1>6. Covers(Full(<< >>), M)
  BY <1>2, <1>4, <1>5, SystemPart
<1>7. PICK e : e = << >> /\ IsStack(e) /\ Len(e) = 0
  BY EmptySeq DEF IsStack
<1>8. Agrees(SystemTable, M \o e)
  <2>1. PICK tbl : tbl = SystemTable
    OBVIOUS
  <2>2. IsTable(tbl) /\ Covers(tbl.imports, M) /\ Len(tbl.symbols) = 0
    BY <1>6, <2>1, SystemTableIsTable, SystemAgrees
  <2>3. PICK own : own = tbl.symbols /\ Len(own) = 0
    BY <2>2
  <2>4. Len(e) = Len(tbl.symbols) /\ \A p \in 1 .. Len(tbl.symbols) : Known(e[p], tbl.symbols[p])
    BY <1>7, <2>3
  <2> QED BY <1>7, <2>1, <2>2, <2>4, TableAgrees, Zenon
<1>9. M \o e = M
  BY <1>5, <1>7, ConcatEmptySeq DEF IsStack
<1> QED BY <1>8, <1>9

\* The ids of a table that its author declares and writes are read as the author
\* means them.
LEMMA CarriedOver ==
  ASSUME NEW c \in SUBSET Registry, NEW A, IsTable(A), IsProper(A),
         \A i \in 1 .. Len(A.imports) : ~IsNameless(A.imports[i]),
         NEW M, MeansTo(M, A, c),
         NEW n \in Nat, Len(A.imports) = n + 1, NEW decls, Len(decls) = n,
         \A i \in 1 .. n : decls[i] = DeclOf(A.imports[i + 1]),
         NEW q, q = ReadImports(decls, c), q.err = "nil",
         NEW tbl, tbl = NewLocalTable(q.imps, A.symbols)
  PROVE  Agrees(tbl, M) /\ IsProper(tbl)
<1> DEFINE a == A.imports
           d == [i \in 1 .. n |-> Behind(M, Offset(a, i + 1), a[i + 1].maxID)]
           g == [i \in 0 .. n |-> FirstOf(M, Offset(a, i + 2))]
<1>1. PICK f : Reading(f, decls, c, n) /\ q = f[n]
  BY ReadImportsIs
<1>2. PICK T \in Nat : T = MaxImportID(A) /\ T = Offset(a, n + 2)
  BY TableLayout
<1>3. PICK l \in Nat : l = Len(A.symbols) /\ MaxID(A) = T + l
  BY <1>2, TableLayout
<1>4. /\ AreImports(a) /\ Offset(a, 1) = 0
      /\ \A i \in 1 .. n + 2 : Offset(a, i) \in Nat
      /\ \A i \in 1 .. n + 1 : Offset(a, i + 1) = Offset(a, i) + a[i].maxID
      /\ \A i \in 1 .. n + 1 : a[i].maxID \in Nat
  <2>1. a # << >> /\ AreImports(a)
    BY DEF IsTable
  <2>2. PICK m : m = n + 1
    OBVIOUS
  <2>3. /\ \A i \in 1 .. m + 1 : Offset(a, i) \in Nat
        /\ \A i \in 1 .. m : Offset(a, i + 1) = Offset(a, i) + a[i].maxID
        /\ \A i \in 1 .. m : a[i].maxID \in Nat
        /\ Offset(a, 1) = 0
    BY <2>1, <2>2, Offsets
  <2> QED BY <2>1, <2>2, <2>3
<1>5. IsStack(M) /\ Len(M) = T + l
  BY <1>3 DEF MeansTo
<1>6. a[1] = V1System /\ \A i \in 1 .. n : IsNamed(a[i + 1])
  BY DEF IsProper
<1>7. ASSUME NEW k \in 1 .. n + 1, NEW p \in 1 .. a[k].maxID
      PROVE  /\ M[Offset(a, k) + p].text = SharedFindByID(a[k], p)
             /\ k # 1 /\ M[Offset(a, k) + p].sure => a[k] \in c
  <2>1. FindByID(A, Offset(a, k) + p) = SharedFindByID(a[k], p)
    BY TextOfImportID
  <2>2. Offset(a, k) + p \in 1 .. MaxID(A)
    <3>1. PICK o \in Nat, b \in Nat : o = Offset(a, k) /\ b = a[k].maxID
      BY <1>4
    <3>2. o + b <= T
      BY <1>2, <3>1, TableLayout
    <3>3. p \in 1 .. b
      BY <3>1
    <3>4. o + p \in 1 .. T + l
      BY <3>2, <3>3
    <3> QED BY <1>3, <3>1, <3>4
  <2>3. M[Offset(a, k) + p].text = SharedFindByID(a[k], p)
    BY <2>1, <2>2 DEF MeansTo
  <2>4. k # 1 => k \in 2 .. Len(A.imports)
    OBVIOUS
  <2> QED BY <2>3, <2>4 DEF MeansTo
<1>8. \A i \in 1 .. n : /\ g[i] = FirstOf(M, Offset(a, i + 2))
                       /\ g[i - 1] = FirstOf(M, Offset(a, i + 1))
                       /\ d[i] = Behind(M, Offset(a, i + 1), a[i + 1].maxID)
  <2>1. \A i \in 0 .. n : g[i] = FirstOf(M, Offset(a, i + 2))
    OBVIOUS
  <2>2. \A i \in 1 .. n : i - 1 \in 0 .. n /\ (i - 1) + 2 = i + 1 /\ i \in 0 .. n
    OBVIOUS
  <2> HIDE DEF g
  <2> QED BY <2>1, <2>2
<1>9. Covers(Full(<< >>), g[0])
  <2>1. PICK w \in Nat : w = V1System.maxID
    BY V1SystemIsShared DEF IsShared
  <2>2. Offset(a, 2) = w
    BY <1>4, <1>6, <2>1
  <2>3. g[0] = FirstOf(M, w)
    BY <2>2
  <2>4. IsStack(g[0]) /\ Len(g[0]) = w
    <3>1. IsList(FirstOf(M, w), w)
      BY FirstIs, Zenon
    <3> QED BY <2>3, <3>1 DEF IsList
  <2>5. ASSUME NEW p \in 1 .. w
        PROVE  g[0][p].text = SharedFindByID(V1System, p)
    <3>1. M[Offset(a, 1) + p].text = SharedFindByID(a[1], p)
      BY <1>6, <1>7, <2>1
    <3>2. Offset(a, 1) + p = p
      BY <1>4
    <3>3. g[0][p] = M[p]
      BY <2>3 DEF FirstOf
    <3> QED BY <1>6, <3>1, <3>2, <3>3
  <2> HIDE DEF g
  <2> QED BY <2>1, <2>4, <2>5, SystemPart
<1>10. g[n] = FirstOf(M, T)
  BY <1>2
<1> HIDE DEF g, d
<1>11. ASSUME NEW i \in 1 .. n
      PROVE  g[i] = g[i - 1] \o d[i]
  <2>1. i + 1 \in 1 .. n + 1 /\ i + 1 \in 1 .. n + 2 /\ (i + 1) + 1 = i + 2
    OBVIOUS
  <2>2. PICK o \in Nat, b \in Nat : o = Offset(a, i + 1) /\ b = a[i + 1].maxID
    BY <1>4, <2>1
  <2>3. Offset(a, i + 2) = o + b
    BY <1>4, <2>1, <2>2
  <2>4. g[i] = FirstOf(M, o + b) /\ g[i - 1] = FirstOf(M, o) /\ d[i] = Behind(M, o, b)
    BY <1>8, <2>2, <2>3
  <2>5. FirstOf(M, o + b) = FirstOf(M, o) \o Behind(M, o, b)
    BY FirstThenBehind, Zenon
  <2> QED BY <2>4, <2>5, Zenon
<1>12. ASSUME NEW i \in 1 .. n, NEW r, r = ReadImport(decls[i], c)
       PROVE  Fits(r.imps, d[i])
  <2>1. PICK s : s = a[i + 1]
    OBVIOUS
  <2>2. IsShared(s) /\ IsNamed(s) /\ decls[i] = DeclOf(s)
    <3>1. i + 1 \in 1 .. Len(a)
      OBVIOUS
    <3>2. IsShared(s)
      BY <1>4, <2>1, <3>1 DEF AreImports
    <3>3. IsNamed(s) /\ decls[i] = DeclOf(s)
      BY <1>6, <2>1
    <3> QED BY <3>2, <3>3
  <2>3. PICK o \in Nat, b \in Nat : o = Offset(a, i + 1) /\ b = s.maxID
    <3>1. i + 1 \in 1 .. n + 1 /\ i + 1 \in 1 .. n + 2
      OBVIOUS
    <3> QED BY <1>4, <2>1, <3>1
  <2>4. d[i] = Behind(M, o, b)
    BY <1>8, <2>1, <2>3
  <2>5. IsStack(d[i]) /\ Len(d[i]) = b
    <3>1. IsList(Behind(M, o, b), b)
      BY BehindIs, Zenon
    <3> QED BY <2>4, <3>1 DEF IsList
  <2>6. ASSUME NEW p \in 1 .. b
        PROVE  /\ d[i][p].text = SharedFindByID(s, p)
               /\ d[i][p].sure => s \in c
    <3>1. d[i][p] = M[o + p]
      BY <2>4 DEF Behind
    <3>2. i + 1 \in 1 .. n + 1 /\ i + 1 # 1
      OBVIOUS
    <3> QED BY <1>7, <2>1, <2>3, <3>1, <3>2
  <2>7. r = ReadImport(DeclOf(s), c)
    BY <1>12, <2>2
  <2>8. /\ Len(d[i]) = s.maxID
        /\ \A p \in 1 .. s.maxID : /\ d[i][p].text = SharedFindByID(s, p)
                                   /\ d[i][p].sure => s \in c
    BY <2>3, <2>5, <2>6
  <2> QED BY <2>2, <2>5, <2>7, <2>8, DeclaredFits, Zenon
<1>13. /\ AreImports(q.imps) /\ Covers(Full(q.imps), g[n])
       /\ \A i \in 1 .. Len(q.imps) : IsNamed(q.imps[i])
  <2>1. f[n].err = "nil"
    BY <1>1
  <2>2. \A i \in 1 .. n : ReadImport(decls[i], c).err = "nil"
                            => Fits(ReadImport(decls[i], c).imps, d[i])
    BY <1>12
  <2>3. Reading(f, decls, c, n) /\ q = f[n]
    BY <1>1
  <2>4. \A i \in 1 .. n : g[i] = g[i - 1] \o d[i]
    BY <1>11
  <2>5. /\ AreImports(f[n].imps) /\ Covers(Full(f[n].imps), g[n])
        /\ \A i \in 1 .. Len(f[n].imps) : IsNamed(f[n].imps[i])
    BY <1>9, <2>1, <2>2, <2>3, <2>4, ReadingCovers, Zenon
  <2> QED BY <2>3, <2>5, Zenon
<1>14. A.symbols \in Seq(Text)
  BY DEF IsTable
<1>15. /\ IsTable(tbl) /\ tbl.imports = Full(q.imps) /\ tbl.symbols = A.symbols
       /\ IsProper(tbl)
  BY <1>13, <1>14, ProperTable
<1> DEFINE more == Behind(M, T, l)
<1>16. IsStack(more) /\ Len(more) = l /\ FirstOf(M, T + l) = g[n] \o more
  <2>1. IsList(Behind(M, T, l), l)
    BY BehindIs, Zenon
  <2>2. FirstOf(M, T + l) = FirstOf(M, T) \o Behind(M, T, l)
    BY FirstThenBehind, Zenon
  <2> QED BY <1>10, <2>1, <2>2, Zenon DEF IsList
<1>17. M = g[n] \o more
  BY <1>5, <1>16, AllOf
<1>18. ASSUME NEW p \in 1 .. l
       PROVE  Known(more[p], tbl.symbols[p])
  <2>1. more[p] = M[T + p]
    BY DEF Behind
  <2>2. FindByID(A, T + p) = A.symbols[p]
    BY <1>2, <1>3, TextOfOwnID
  <2>3. T + p \in 1 .. MaxID(A)
    BY <1>3
  <2> QED BY <1>15, <2>1, <2>2, <2>3 DEF MeansTo, Known
<1> HIDE DEF more
<1>19. Agrees(tbl, g[n] \o more)
  BY <1>3, <1>13, <1>15, <1>16, <1>18, TableAgrees
<1> QED BY <1>15, <1>17, <1>19
-----------------------------------------------------------------------------
(***************************************************************************)
(* Tables that are written or appended to.                                 *)
(***************************************************************************)
\* A table all of whose imports can be declared.
Declarable(tbl) == \A i \in 1 .. Len(tbl.imports) : ~IsNameless(tbl.imports[i])

\* What a table means to its author.
LEMMA AuthoredMeans ==
  ASSUME NEW A, IsTable(A), NEW c, c = cat, NEW M, M = Authored(A)
  PROVE  MeansTo(M, A, c)
<1>1. PICK n \in Nat \ {0} : n = Len(A.imports)
  BY TableLayout
<1>2. PICK T \in Nat : T = MaxImportID(A) /\ T = Offset(A.imports, n + 1)
  BY <1>1, TableLayout
<1>3. PICK l \in Nat : l = Len(A.symbols) /\ MaxID(A) = T + l
  BY <1>2, TableLayout
<1>4. M = [id \in 1 .. T + l |-> Slot(FindByID(A, id), Sure(A, id))]
  BY <1>3 DEF Authored
<1> HIDE DEF Authored
<1>5. /\ DOMAIN M = 1 .. T + l /\ M = [id \in 1 .. T + l |-> M[id]]
      /\ \A id \in 1 .. T + l : M[id].text = FindByID(A, id) /\ M[id].sure = Sure(A, id)
  BY <1>4 DEF Slot
<1>6. IsStack(M) /\ Len(M) = T + l
  <2>1. PICK m \in Nat : m = T + l
    OBVIOUS
  <2> QED BY <1>5, <2>1, Listed
<1>7. ASSUME NEW k \in 2 .. n, NEW p \in 1 .. A.imports[k].maxID, M[Offset(A.imports, k) + p].sure
      PROVE  A.imports[k] \in c
  <2>1. k \in 1 .. n /\ k # 0 /\ k # 1
    OBVIOUS
  <2>2. PICK o \in Nat, b \in Nat : o = Offset(A.imports, k) /\ b = A.imports[k].maxID /\ o + b <= T
    BY <1>1, <1>2, <2>1, TableLayout
  <2>3. PICK id \in 1 .. T + l : id = o + p
    BY <2>2
  <2>4. ImportOf(A, id) = k
    BY <1>1, <2>1, <2>2, <2>3, ImportOfImportID
  <2>5. Sure(A, id)
    BY <1>5, <1>7, <2>2, <2>3
  <2> QED BY <2>1, <2>4, <2>5 DEF Sure
<1> QED BY <1>1, <1>3, <1>5, <1>6, <1>7 DEF MeansTo

\* The system table is proper.
LEMMA SystemIsProper == IsProper(SystemTable) /\ Declarable(SystemTable)
<1>1. PICK e : e = << >> /\ AreImports(e) /\ e \in Seq(Text) /\ Len(e) = 0
  BY EmptySeq, FewImports
<1>2. SystemTable = NewLocalTable(e, e)
  BY <1>1 DEF SystemTable
<1>3. \A i \in 1 .. Len(e) : IsNamed(e[i])
  BY <1>1
<1> QED BY <1>1, <1>2, <1>3, ProperTable DEF Declarable

\* A table begun with imports behind the system table keeps them as they are.
LEMMA FullTable ==
  ASSUME NEW imports, AreImports(imports), imports # << >>, imports[1] = V1System,
         NEW symbols, NEW tbl, tbl = NewLocalTable(imports, symbols)
  PROVE  tbl.imports = imports /\ tbl.symbols = symbols
<1>1. V1System.name = "$ion"
  BY Zenon DEF V1System, SharedTable
<1>2. ProcessImports(imports) = imports
  BY <1>1, Zenon DEF ProcessImports
<1> QED BY <1>2 DEF NewLocalTable

\* What an author writes reaches the reader with its meaning.
LEMMA Transmitted ==
  ASSUME NEW c \in SUBSET Registry, NEW A, IsTable(A), IsProper(A), Declarable(A),
         NEW M, MeansTo(M, A, c), NEW r, r = ReadLocalTable(WriteTo(A), SystemTable, c)
  PROVE  Agrees(r.tbl, M) /\ IsProper(r.tbl)
<1> DEFINE wire == WriteTo(A)
<1>1. IsCatalog(c)
  BY RegistryIsCatalog DEF IsCatalog
<1>2. PICK n \in Nat : Len(A.imports) = n + 1
  <2>1. PICK m \in Nat \ {0} : m = Len(A.imports)
    BY TableLayout
  <2>2. m - 1 \in Nat /\ m = (m - 1) + 1
    OBVIOUS
  <2> QED BY <2>1, <2>2
<1>3. CASE Len(A.imports) = 1 /\ A.symbols = << >>
  <2>1. wire = [kind |-> "absent"]
    BY <1>3, Zenon DEF WriteTo
  <2> HIDE DEF wire
  <2>2. r = [err |-> "nil", tbl |-> SystemTable]
    BY <2>1 DEF ReadLocalTable, wire
  <2>3. Len(A.symbols) = 0
    BY <1>3, EmptySeq
  <2> QED BY <1>3, <2>2, <2>3, NothingCarried, SystemIsProper
<1>4. CASE ~(Len(A.imports) = 1 /\ A.symbols = << >>)
  <2> DEFINE decls == [i \in 1 .. Len(A.imports) - 1 |->
                         [name    |-> A.imports[i + 1].name,
                          version |-> A.imports[i + 1].version,
                          maxID   |-> A.imports[i + 1].maxID]]
             q == ReadImports(decls, c)
  <2>1. wire = [kind |-> "table", imports |-> decls, symbols |-> A.symbols]
    BY <1>4, Zenon DEF WriteTo
  <2>2. DOMAIN decls = 1 .. n /\ decls = [i \in 1 .. n |-> decls[i]]
        /\ \A i \in 1 .. n : decls[i] = DeclOf(A.imports[i + 1])
    <3>1. Len(A.imports) - 1 = n
      BY <1>2
    <3> QED BY <3>1 DEF DeclOf
  <2> HIDE DEF decls
  <2>3. Len(decls) = n
    BY <2>2, Listed
  <2>4. IsWire(wire) /\ Declares(wire)
    BY WrittenDeclares
  <2> HIDE DEF wire
  <2>5. r = ReadLocalTable(wire, SystemTable, c)
    BY DEF wire
  <2>6. r.err = "nil"
    BY <1>1, <2>4, <2>5, SystemTableIsTable, TableIsRead
  <2>7. r = IF q.err # "nil" THEN [err |-> q.err, tbl |-> SystemTable]
            ELSE [err |-> "nil", tbl |-> NewLocalTable(q.imps, A.symbols)]
    BY <2>1, <2>5 DEF ReadLocalTable
  <2> HIDE DEF q
  <2>8. q.err = "nil" /\ r.tbl = NewLocalTable(q.imps, A.symbols)
    BY <2>6, <2>7
  <2>9. PICK tbl : tbl = NewLocalTable(q.imps, A.symbols)
    OBVIOUS
  <2>10. Agrees(tbl, M) /\ IsProper(tbl)
    BY <1>2, <2>2, <2>3, <2>8, <2>9, CarriedOver DEF q, Declarable
  <2> QED BY <2>8, <2>9, <2>10
<1> QED BY <1>3, <1>4

\* imports:$ion_symbol_table: the ids in force keep their texts, and the new symbols
\* come behind them.
LEMMA Appended ==
  ASSUME NEW cur, IsTable(cur), IsProper(cur), NEW M, Agrees(cur, M),
         NEW symbols \in Seq(Text), NEW tbl, tbl = NewLocalTable(AppendImports(cur), symbols)
  PROVE  Agrees(tbl, M \o OwnSlots(symbols)) /\ IsProper(tbl)
<1>1. /\ IsStack(OwnSlots(symbols)) /\ Len(OwnSlots(symbols)) = Len(symbols)
      /\ \A p \in 1 .. Len(symbols) : Known(OwnSlots(symbols)[p], symbols[p])
  BY OwnSlotsAre
<1>2. IsTable(tbl) /\ tbl.symbols = symbols
  BY AppendedAreImports, NewLocalTableIsTable
<1>3. Covers(tbl.imports, M) /\ IsProper(tbl)
  <2>1. CASE cur = SystemTable
    <3>1. PICK e : e = << >> /\ AreImports(e) /\ Len(e) = 0
      BY EmptySeq, FewImports
    <3>2. tbl = NewLocalTable(e, symbols)
      BY <2>1, <3>1, Zenon DEF AppendImports
    <3>3. tbl.imports = Full(e) /\ IsProper(tbl)
      BY <3>1, <3>2, ProperTable
    <3>4. Covers(cur.imports, M) /\ cur.imports = Full(e)
      BY <2>1, <3>1, SystemAgrees, AgreesWithoutSymbols
    <3> QED BY <3>3, <3>4
  <2>2. CASE cur # SystemTable
    <3> DEFINE own == SharedTable("", 0, cur.symbols)
               b == With(cur.imports, own)
    <3>1. AppendImports(cur) = b
      BY <2>2, Zenon DEF AppendImports, With
    <3>2. IsShared(own) /\ own.symbols = cur.symbols /\ own.maxID = Len(cur.symbols)
          /\ IsNameless(own)
      <4>1. cur.symbols \in Seq(Text)
        BY DEF IsTable
      <4>2. IsShared(own)
        BY <4>1, SharedTableIsShared
      <4>3. own.symbols = cur.symbols
        BY Zenon DEF SharedTable
      <4>4. own.maxID = Len(cur.symbols)
        BY Zenon DEF SharedTable
      <4>5. IsNameless(own)
        BY Zenon DEF SharedTable, IsNameless
      <4> QED BY <4>2, <4>3, <4>4, <4>5, Zenon
    <3> HIDE DEF own
    <3>3. AreImports(b) /\ Covers(b, M)
      BY <3>2, AgreesAsImports
    <3>4. PICK n \in Nat \ {0} : n = Len(cur.imports) /\ AreImports(cur.imports)
      BY TableLayout DEF IsTable
    <3>5. Len(b) = n + 1 /\ (\A i \in 1 .. n : b[i] = cur.imports[i]) /\ b[n + 1] = own
      <4>1. Extends(b, cur.imports, own)
        BY <3>2, <3>4, OneMoreImport, Zenon
      <4> HIDE DEF b
      <4> QED BY <3>4, <4>1 DEF Extends
    <3> HIDE DEF b
    <3>6. b[1] = V1System /\ b # << >>
      <4>1. b # << >> <=> Len(b) > 0
        BY <3>3, StackLen DEF AreImports
      <4> QED BY <3>4, <3>5, <4>1 DEF IsProper
    <3>7. tbl.imports = b
      BY <3>1, <3>3, <3>6, FullTable
    <3>8. ASSUME NEW i \in 2 .. n + 1
          PROVE  IsNameless(b[i]) \/ IsNamed(b[i])
      <4>1. CASE i = n + 1
        BY <3>2, <3>5, <4>1
      <4>2. CASE i # n + 1
        <5>1. i \in 2 .. n /\ i \in 1 .. n
          BY <4>2
        <5> QED BY <3>4, <3>5, <5>1 DEF IsProper
      <4> QED BY <4>1, <4>2
    <3> QED BY <3>3, <3>5, <3>6, <3>7, <3>8 DEF IsProper
  <2> QED BY <2>1, <2>2
<1> QED BY <1>1, <1>2, <1>3, TableAgrees
-----------------------------------------------------------------------------
(***************************************************************************)
(* The tables of other authors, and the agreement.                         *)
(***************************************************************************)
\* The slots behind the first i declarations.
DeclaredUpTo(i, x, decls) == IF i = 0 THEN SystemMeaning ELSE x \o DeclaredSlots(decls[i])

Declaring(g, decls, n) == g = [i \in 0 .. n |-> DeclaredUpTo(i, g[i - 1], decls)]

\* They can be computed, declaration by declaration.
LEMMA DeclaringExists ==
  ASSUME NEW decls, NEW n \in Nat
  PROVE  \E g : Declaring(g, decls, n)
<1> DEFINE S == {k \in 0 .. n : \E f : Declaring(f, decls, k)}
<1>1. 0 \in S
  <2>1. Declaring([i \in 0 .. 0 |-> SystemMeaning], decls, 0)
    BY DEF Declaring, DeclaredUpTo
  <2> QED BY <2>1
<1>2. ASSUME NEW k \in 1 .. n, k - 1 \in S
      PROVE  k \in S
  <2>1. PICK f : Declaring(f, decls, k - 1)
    BY <1>2
  <2> DEFINE g == [i \in 0 .. k |-> IF i = k THEN DeclaredUpTo(k, f[k - 1], decls) ELSE f[i]]
  <2>2. ASSUME NEW i \in 0 .. k
        PROVE  g[i] = DeclaredUpTo(i, g[i - 1], decls)
    <3>1. CASE i = k
      <4>1. g[i] = DeclaredUpTo(k, f[k - 1], decls) /\ g[i - 1] = f[k - 1]
        BY <3>1
      <4> QED BY <3>1, <4>1
    <3>2. CASE i = 0
      <4>1. g[0] = f[0] /\ f[0] = DeclaredUpTo(0, f[0 - 1], decls)
        BY <2>1 DEF Declaring
      <4>2. \A x : DeclaredUpTo(0, x, decls) = SystemMeaning
        BY DEF DeclaredUpTo
      <4> QED BY <3>2, <4>1, <4>2
    <3>3. CASE i # k /\ i # 0
      <4>1. i \in 0 .. k - 1 /\ i - 1 \in 0 .. k /\ i - 1 # k
        BY <3>3
      <4>2. g[i] = f[i] /\ g[i - 1] = f[i - 1]
        BY <3>3, <4>1
      <4>3. f[i] = DeclaredUpTo(i, f[i - 1], decls)
        BY <2>1, <4>1 DEF Declaring
      <4> QED BY <4>2, <4>3
    <3> QED BY <3>1, <3>2, <3>3
  <2>3. g = [i \in 0 .. k |-> g[i]]
    OBVIOUS
  <2> HIDE DEF g
  <2>4. Declaring(g, decls, k)
    BY <2>2, <2>3 DEF Declaring
  <2> QED BY <2>4
<1> HIDE DEF S
<1>3. n \in S
  BY <1>1, <1>2, Induction
<1> QED BY <1>3 DEF S

\* Another author's table is read as its declarations have it.
LEMMA ForeignRead ==
  ASSUME cat \subseteq Registry, NEW c, c = cat, NEW decls, AreDecls(decls),
         NEW symbols \in Seq(Text), NEW n, n = Len(decls), NEW g, Declaring(g, decls, n),
         NEW q, q = ReadImports(decls, c), q.err = "nil",
         NEW tbl, tbl = NewLocalTable(q.imps, symbols)
  PROVE  Agrees(tbl, g[n] \o OwnSlots(symbols)) /\ IsProper(tbl)
<1>1. n \in Nat
  BY DEF AreDecls
<1>2. PICK f : Reading(f, decls, c, n) /\ q = f[n]
  BY <1>1, ReadImportsIs
<1> DEFINE d == [i \in 1 .. n |-> DeclaredSlots(decls[i])]
<1>3. \A i \in 1 .. n : d[i] = DeclaredSlots(decls[i])
  OBVIOUS
<1> HIDE DEF d
<1>4. g[0] = SystemMeaning /\ \A i \in 1 .. n : g[i] = g[i - 1] \o d[i]
  <2>1. \A i \in 0 .. n : g[i] = DeclaredUpTo(i, g[i - 1], decls)
    BY <1>1 DEF Declaring
  <2>2. g[0] = SystemMeaning
    BY <1>1, <2>1 DEF DeclaredUpTo
  <2>3. ASSUME NEW i \in 1 .. n
        PROVE  g[i] = g[i - 1] \o d[i]
    <3>1. i \in 0 .. n /\ i # 0
      BY <1>1
    <3> QED BY <1>3, <2>1, <3>1 DEF DeclaredUpTo
  <2> QED BY <2>2, <2>3
<1>5. \A i \in 1 .. n : ReadImport(decls[i], c).err = "nil"
                          => Fits(ReadImport(decls[i], c).imps, d[i])
  <2>1. ASSUME NEW i \in 1 .. n, NEW r, r = ReadImport(decls[i], c), r.err = "nil"
        PROVE  Fits(r.imps, d[i])
    <3>1. PICK decl : decl = decls[i] /\ IsDecl(decl)
      BY DEF AreDecls
    <3>2. r = ReadImport(decl, c) /\ r.err = "nil"
      BY <2>1, <3>1
    <3>3. Fits(r.imps, DeclaredSlots(decl))
      BY <3>1, <3>2, ForeignFits
    <3> QED BY <1>3, <3>1, <3>3
  <2> QED BY <2>1
<1>6. /\ AreImports(q.imps) /\ Covers(Full(q.imps), g[n])
      /\ \A i \in 1 .. Len(q.imps) : IsNamed(q.imps[i])
  <2>1. f[n].err = "nil"
    BY <1>2
  <2>2. Covers(Full(<< >>), g[0])
    BY <1>4, SystemAgrees
  <2>3. \A i \in 1 .. n : g[i] = g[i - 1] \o d[i]
    BY <1>4
  <2>4. Reading(f, decls, c, n) /\ q = f[n]
    BY <1>2
  <2>5. /\ AreImports(f[n].imps) /\ Covers(Full(f[n].imps), g[n])
        /\ \A i \in 1 .. Len(f[n].imps) : IsNamed(f[n].imps[i])
    BY <1>1, <1>5, <2>1, <2>2, <2>3, <2>4, ReadingCovers, Zenon
  <2> QED BY <2>4, <2>5, Zenon
<1>7. /\ IsTable(tbl) /\ tbl.imports = Full(q.imps) /\ tbl.symbols = symbols
      /\ IsProper(tbl)
  BY <1>6, ProperTable
<1> DEFINE own == OwnSlots(symbols)
<1>8. /\ IsStack(own) /\ Len(own) = Len(symbols)
      /\ \A p \in 1 .. Len(symbols) : Known(own[p], symbols[p])
  BY OwnSlotsAre
<1> HIDE DEF own
<1>9. Agrees(tbl, g[n] \o own)
  BY <1>6, <1>7, <1>8, TableAgrees
<1> QED BY <1>7, <1>9 DEF own
-----------------------------------------------------------------------------
\* The invariant of the agreement: tables begin with the system table, an author's
\* table has only imports that can be declared, and the reader's table agrees with
\* what its author meant.
AgreeInv ==
  /\ IInv
  /\ IsProper(builder) /\ Declarable(builder) /\ IsProper(peer)
  /\ peerErr = "nil" => Agrees(peer, meaning)

\* A new builder can declare its imports.
LEMMA BuilderImports ==
  ASSUME NEW imports \in Seq(Registry), NEW b, b = NewBuilder(imports)
  PROVE  IsProper(b) /\ Declarable(b)
<1>1. /\ Len(imports) \in Nat
      /\ \A i \in 1 .. Len(imports) : imports[i] \in Registry
      /\ IsStack(imports)
  BY LenProperties DEF IsStack
<1>2. AreImports(imports)
  BY <1>1, RegistryIsCatalog DEF AreImports
<1>3. \A s \in Registry : IsNamed(s)
  <2>1. ASSUME NEW s \in Registry
        PROVE  IsNamed(s)
    <3>1. ~PassedOver(s.name)
      BY RegistryAssumption, Zenon DEF PassedOver
    <3>2. Published(s)
      BY DEF Published
    <3> QED BY <3>1, <3>2 DEF IsNamed
  <2> QED BY <2>1
<1>4. PICK e : e = << >> /\ e \in Seq(Text)
  BY EmptySeq
<1>5. b = NewLocalTable(imports, e)
  BY <1>4, Zenon DEF NewBuilder
<1>6. \A i \in 1 .. Len(imports) : IsNamed(imports[i])
  BY <1>1, <1>3
<1> QED BY <1>2, <1>4, <1>5, <1>6, ProperTable DEF Declarable

\* A symbol is added to the builder's own symbols.
LEMMA AddKeepsImports ==
  ASSUME NEW b, IsTable(b), NEW t, NEW r, r = Add(b, t)
  PROVE  r.tbl.imports = b.imports
<1>1. CASE FindByName(b, t) > 0
  BY <1>1 DEF Add
<1>2. CASE ~(FindByName(b, t) > 0)
  BY <1>2 DEF Add, IsTable
<1> QED BY <1>1, <1>2

\* What the agreement says of the builder and of what reaches the reader.
LEMMA AgreementKept ==
  ASSUME AgreeInv, IInv', builder' = builder, IsProper(peer'),
         peerErr' = "nil" => Agrees(peer', meaning')
  PROVE  AgreeInv'
BY DEF AgreeInv

\* A table of this library reaches the reader with its meaning,
LEMMA SendingAgrees ==
  ASSUME AgreeInv, NEW A, IsTable(A), IsProper(A), Declarable(A),
         Receive(WriteTo(A), SystemTable), meaning' = Authored(A)
  PROVE  IsProper(peer') /\ (peerErr' = "nil" => Agrees(peer', meaning'))
<1>1. PICK c : c = cat /\ c \in SUBSET Registry
  BY DEF AgreeInv, IInv
<1>2. PICK r : r = ReadLocalTable(WriteTo(A), SystemTable, c) /\ peer' = r.tbl
  BY <1>1 DEF Receive
<1>3. PICK M : M = Authored(A)
  OBVIOUS
<1>4. MeansTo(M, A, c)
  BY <1>1, <1>3, AuthoredMeans
<1>5. Agrees(r.tbl, M) /\ IsProper(r.tbl)
  BY <1>1, <1>2, <1>4, Transmitted
<1> QED BY <1>2, <1>3, <1>5

\* and so does what others append or declare.
LEMMA AppendAgrees ==
  ASSUME AgreeInv, NEW symbols \in ForeignSymbols, AppendTable(symbols)
  PROVE  IsProper(peer') /\ (peerErr' = "nil" => Agrees(peer', meaning'))
<1> DEFINE wire == [kind |-> "append", symbols |-> symbols]
<1>1. /\ Receive(wire, peer)
      /\ meaning' = meaning \o OwnSlots(symbols)
  BY DEF AppendTable, OwnSlots
<1>2. wire.kind = "append" /\ wire.symbols = symbols
  OBVIOUS
<1> HIDE DEF wire
<1>3. peer' = NewLocalTable(AppendImports(peer), symbols) /\ peerErr = "nil"
  BY <1>1, <1>2 DEF Receive, ReadLocalTable
<1>4. symbols \in Seq(Text)
  BY WorldAssumption
<1>5. IsTable(peer) /\ IsProper(peer) /\ Agrees(peer, meaning)
  BY <1>3 DEF AgreeInv, IInv
<1> QED BY <1>1, <1>3, <1>4, <1>5, Appended

LEMMA ForeignAgrees ==
  ASSUME AgreeInv, NEW decls \in ForeignImports, NEW symbols \in ForeignSymbols,
         ForeignTable(decls, symbols)
  PROVE  IsProper(peer') /\ (peerErr' = "nil" => Agrees(peer', meaning'))
<1> DEFINE wire == [kind |-> "table", imports |-> decls, symbols |-> symbols]
           n    == Len(decls)
           g    == CHOOSE f : Declaring(f, decls, n)
<1>1. AreDecls(decls) /\ symbols \in Seq(Text) /\ n \in Nat
  BY WorldAssumption DEF AreDecls, IsDecl
<1>2. Declaring(g, decls, n)
  BY <1>1, DeclaringExists
<1>3. Receive(wire, peer) /\ (peerErr' = "nil" => meaning' = g[n] \o OwnSlots(symbols))
  BY DEF ForeignTable, OwnSlots, Declaring, DeclaredUpTo
<1> HIDE DEF g
<1>4. wire.kind = "table" /\ wire.imports = decls /\ wire.symbols = symbols
  OBVIOUS
<1> HIDE DEF wire
<1>5. PICK c : c = cat
  OBVIOUS
<1>6. PICK q : q = ReadImports(decls, c)
  OBVIOUS
<1>7. /\ q.err # "nil" => peer' = peer /\ peerErr' = q.err
      /\ q.err = "nil" => peer' = NewLocalTable(q.imps, symbols) /\ peerErr' = "nil"
  BY <1>3, <1>4, <1>5, <1>6 DEF Receive, ReadLocalTable
<1>8. CASE q.err # "nil"
  BY <1>7, <1>8 DEF AgreeInv
<1>9. CASE q.err = "nil"
  <2>1. PICK tbl : tbl = NewLocalTable(q.imps, symbols)
    OBVIOUS
  <2>2. cat \subseteq Registry
    BY DEF AgreeInv, IInv
  <2>3. Agrees(tbl, g[n] \o OwnSlots(symbols)) /\ IsProper(tbl)
    BY <1>1, <1>2, <1>5, <1>6, <1>9, <2>1, <2>2, ForeignRead
  <2> QED BY <1>3, <1>7, <1>9, <2>1, <2>3
<1> QED BY <1>8, <1>9

\* The agreement holds at the start,
LEMMA InitAgreeInv == Init => AgreeInv
<1> SUFFICES ASSUME Init
             PROVE  AgreeInv
  OBVIOUS
<1>1. builder = NewBuilder(<< >>) /\ peer = SystemTable /\ meaning = SystemMeaning
  BY Zenon DEF Init
<1>2. PICK e : e = << >> /\ e \in Seq(Registry)
  BY EmptySeq
<1>3. IsProper(builder) /\ Declarable(builder)
  BY <1>1, <1>2, BuilderImports
<1>4. IInv
  BY InitIInv
<1> QED BY <1>1, <1>3, <1>4, SystemAgrees, SystemIsProper DEF AgreeInv

\* and every step keeps it,
LEMMA StepAgreeInv ==
  ASSUME AgreeInv, [Next]_vars
  PROVE  AgreeInv'
<1>0. IInv /\ IInv'
  BY StepIInv DEF AgreeInv
<1>1. ASSUME NEW imports \in Imports, StartBuilder(imports)
      PROVE  AgreeInv'
  <2>1. imports \in Seq(Registry)
    BY WorldAssumption
  <2>2. builder' = NewBuilder(imports) /\ UNCHANGED <<meaning, peer, peerErr>>
    BY <1>1 DEF StartBuilder
  <2>3. IsProper(builder') /\ Declarable(builder')
    BY <2>1, <2>2, BuilderImports
  <2> QED BY <1>0, <2>2, <2>3 DEF AgreeInv
<1>2. CASE ReuseImports
  <2>1. builder' = NewBuilder(peer.imports) /\ UNCHANGED <<meaning, peer, peerErr>>
    BY <1>2 DEF ReuseImports
  <2>2. IsProper(peer) /\ AreImports(peer.imports) /\ peer.imports # << >>
    BY DEF AgreeInv, IInv, IsTable
  <2>3. Declarable(peer)
    BY <1>2, Zenon DEF ReuseImports, Unnamed, Declarable, IsNameless
  <2>4. PICK e : e = << >>
    OBVIOUS
  <2>5. builder' = NewLocalTable(peer.imports, e)
    BY <2>1, <2>4, Zenon DEF NewBuilder
  <2>6. builder'.imports = peer.imports
    BY <2>2, <2>5, FullTable DEF IsProper
  <2>7. IsProper(builder') /\ Declarable(builder')
    BY <2>2, <2>3, <2>6 DEF IsProper, Declarable
  <2> QED BY <1>0, <2>1, <2>7 DEF AgreeInv
<1>3. ASSUME NEW t \in NewTexts, AddSymbol(t)
      PROVE  AgreeInv'
  <2>1. builder' = Add(builder, t).tbl /\ UNCHANGED <<meaning, peer, peerErr>>
    BY <1>3 DEF AddSymbol
  <2>2. builder'.imports = builder.imports
    BY <1>0, <2>1, AddKeepsImports DEF IInv, IsBuilder
  <2>3. IsProper(builder') /\ Declarable(builder')
    BY <2>2 DEF AgreeInv, IsProper, Declarable
  <2> QED BY <1>0, <2>1, <2>3 DEF AgreeInv
<1>4. CASE Transmit
  <2>1. /\ Receive(WriteTo(builder), SystemTable) /\ builder' = builder
        /\ meaning' = Authored(builder)
    BY <1>4 DEF Transmit, MeaningOf, Authored
  <2>2. IsTable(builder) /\ IsProper(builder) /\ Declarable(builder)
    BY DEF AgreeInv, IInv, IsBuilder
  <2> QED BY <1>0, <2>1, <2>2, SendingAgrees, AgreementKept
<1>5. CASE Relay
  <2>1. /\ Receive(WriteTo(peer), SystemTable) /\ builder' = builder
        /\ meaning' = Authored(peer)
    BY <1>5 DEF Relay, MeaningOf, Authored
  <2>2. Declarable(peer)
    BY <1>5, Zenon DEF Relay, Unnamed, Declarable, IsNameless
  <2>3. IsTable(peer) /\ IsProper(peer)
    BY DEF AgreeInv, IInv
  <2> QED BY <1>0, <2>1, <2>2, <2>3, SendingAgrees, AgreementKept
<1>6. CASE VersionMarker
  <2>1. peer' = SystemTable /\ meaning' = SystemMeaning /\ builder' = builder
    BY <1>6 DEF VersionMarker
  <2>2. IsProper(peer') /\ Agrees(peer', meaning')
    BY <2>1, SystemAgrees, SystemIsProper
  <2> QED BY <1>0, <2>1, <2>2, AgreementKept
<1>7. ASSUME NEW symbols \in ForeignSymbols, AppendTable(symbols)
      PROVE  AgreeInv'
  <2>1. builder' = builder
    BY <1>7 DEF AppendTable
  <2> QED BY <1>0, <1>7, <2>1, AppendAgrees, AgreementKept
<1>8. ASSUME NEW decls \in ForeignImports, NEW symbols \in ForeignSymbols,
             ForeignTable(decls, symbols)
      PROVE  AgreeInv'
  <2>1. builder' = builder
    BY <1>8 DEF ForeignTable
  <2> QED BY <1>0, <1>8, <2>1, ForeignAgrees, AgreementKept
<1>9. CASE UNCHANGED vars
  BY <1>0, <1>9 DEF AgreeInv, vars
<1> QED BY <1>1, <1>2, <1>3, <1>4, <1>5, <1>6, <1>7, <1>8, <1>9 DEF Next

\* The reader gives every id its author's text, or no text at all when it lacks the
\* import (or the author had none).
THEOREM AuthorsAndReadersAgree == Spec => []Agreement
<1>1. AgreeInv => Agreement
  <2> SUFFICES ASSUME AgreeInv, peerErr = "nil"
               PROVE  /\ MaxID(peer) = Len(meaning)
                      /\ \A id \in 1 .. Len(meaning) :
                           LET m == meaning[id]
                               t == FindByID(peer, id)
                           IN  m.text # NoText => t = m.text \/ (t = NoText /\ ~m.sure)
    BY DEF Agreement
  <2> QED BY DEF AgreeInv, Agrees, Known
<1>2. Spec => []AgreeInv
  BY InitAgreeInv, StepAgreeInv, PTL DEF Spec
<1> QED BY <1>1, <1>2, PTL
=============================================================================
