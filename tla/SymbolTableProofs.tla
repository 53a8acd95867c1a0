-------------------------- MODULE SymbolTableProofs --------------------------
(***************************************************************************)
(* The lookups of a symbol table undo each other, for tables of any number *)
(* of imports and symbols.                                                 *)
(*                                                                         *)
(* The ids of a table are laid out import after import: what Offset sums   *)
(* up is where each begins, and no two overlap (OffsetsNest).  So an id    *)
(* falls into one import only (ImportOfID), and a text found in one is     *)
(* found there again by its id.                                            *)
(***************************************************************************)
EXTENDS SymbolTable, Lemmas

\* A shared table, or the placeholder for one: it has no more texts than ids.
IsShared(s) ==
  /\ DOMAIN s = {"name", "version", "symbols", "maxID"}
  /\ s.symbols \in Seq(Text) /\ s.maxID \in Nat
  /\ Len(s.symbols) <= s.maxID

\* The imports of a table.
AreImports(imports) ==
  IsStack(imports) /\ \A i \in 1 .. Len(imports) : IsShared(imports[i])
-----------------------------------------------------------------------------
(***************************************************************************)
(* Least and greatest members.                                             *)
(***************************************************************************)
\* A set of numbers that is not empty has a least member, which MinOf chooses.
LEMMA MinOfNats ==
  ASSUME NEW S \in SUBSET Nat, S # {}
  PROVE  MinOf(S) \in S /\ \A y \in S : MinOf(S) <= y
<1>1. PICK x \in S : \A y \in S : ~(y < x)
  BY Least
<1>2. \A y \in S : x <= y
  BY <1>1
<1> QED BY <1>2 DEF MinOf

\* MaxOf and MinOf are the only bounds that are members.
LEMMA MaxIs ==
  ASSUME NEW S \in SUBSET Nat, NEW k \in S, \A y \in S : y <= k
  PROVE  MaxOf(S) = k
<1>1. MaxOf(S) \in S /\ \A y \in S : y <= MaxOf(S)
  BY DEF MaxOf
<1>2. k <= MaxOf(S) /\ MaxOf(S) <= k
  BY <1>1
<1>3. MaxOf(S) \in Nat /\ k \in Nat
  BY <1>1
<1> QED BY <1>2, <1>3

\* A member that is no greater than any other is the least.
LEMMA MinIs ==
  ASSUME NEW S \in SUBSET Nat, NEW k \in S, \A y \in S : k <= y
  PROVE  MinOf(S) = k
<1>1. MinOf(S) \in S /\ \A y \in S : MinOf(S) <= y
  BY DEF MinOf
<1>2. k <= MinOf(S) /\ MinOf(S) <= k
  BY <1>1
<1>3. MinOf(S) \in Nat /\ k \in Nat
  BY <1>1
<1> QED BY <1>2, <1>3
-----------------------------------------------------------------------------
(***************************************************************************)
(* The offsets of the imports.                                             *)
(***************************************************************************)
\* s[j] is the sum of the maxIDs of the imports before the j-th.
SumsUp(s, imports, i) ==
  s = [j \in 1 .. i |-> IF j = 1 THEN 0 ELSE s[j - 1] + imports[j - 1].maxID]

\* Offset is the last of these sums.
LEMMA OffsetIsComputed ==
  ASSUME NEW imports, NEW i \in Nat \ {0}, \A j \in 1 .. i - 1 : imports[j].maxID \in Nat
  PROVE  \E s : SumsUp(s, imports, i) /\ Offset(imports, i) = s[i]
<1> DEFINE n == i - 1
           h == [p \in Nat \X (1 .. n) |-> p[1] + imports[p[2]].maxID]
<1>1. n \in Nat
  OBVIOUS
<1>2. PICK g : Computation(g, n, 0, h)
  <2> HIDE DEF h, n
  <2> QED BY <1>1, Steps, Zenon
<1> DEFINE S == {k \in 0 .. n : g[k] \in Nat}
<1>3. 0 \in S
  BY <1>2 DEF Computation
<1>4. ASSUME NEW k \in 1 .. n, k - 1 \in S
      PROVE  k \in S /\ g[k] = g[k - 1] + imports[k].maxID
  <2>1. g[k] = h[<<g[k - 1], k>>]
    BY <1>2 DEF Computation
  <2>2. <<g[k - 1], k>> \in Nat \X (1 .. n)
    BY <1>4
  <2>3. g[k] = g[k - 1] + imports[k].maxID
    BY <2>1, <2>2
  <2>4. imports[k].maxID \in Nat /\ g[k - 1] \in Nat
    BY <1>4
  <2> QED BY <2>3, <2>4
<1> HIDE DEF S, h
<1>5. \A k \in 0 .. n : k \in S
  BY <1>1, <1>3, <1>4, Induction
<1>6. \A k \in 1 .. n : k - 1 \in S
  BY <1>1, <1>5
<1>7. g[0] = 0 /\ \A k \in 1 .. n : g[k] = g[k - 1] + imports[k].maxID
  BY <1>2, <1>4, <1>6 DEF Computation
<1> DEFINE s == [j \in 1 .. i |-> g[j - 1]]
<1>8. SumsUp(s, imports, i)
  <2>1. ASSUME NEW j \in 1 .. i
        PROVE  s[j] = IF j = 1 THEN 0 ELSE s[j - 1] + imports[j - 1].maxID
    <3>1. CASE j = 1
      BY <1>7, <3>1
    <3>2. CASE j # 1
      <4>1. j - 1 \in 1 .. n /\ j - 1 \in 1 .. i
        BY <3>2
      <4>2. s[j] = g[j - 1] /\ s[j - 1] = g[j - 1 - 1]
        BY <4>1
      <4>3. g[j - 1] = g[j - 1 - 1] + imports[j - 1].maxID
        BY <1>7, <4>1
      <4> QED BY <3>2, <4>2, <4>3
    <3> QED BY <3>1, <3>2
  <2>2. s = [j \in 1 .. i |-> s[j]]
    OBVIOUS
  <2> HIDE DEF s
  <2> QED BY <2>1, <2>2 DEF SumsUp
<1> HIDE DEF s
<1> DEFINE t == CHOOSE x : SumsUp(x, imports, i)
<1>9. SumsUp(t, imports, i)
  BY <1>8
<1>10. Offset(imports, i) = t[i]
  BY DEF Offset, SumsUp
<1> HIDE DEF t
<1> QED BY <1>9, <1>10

\* One import more moves the offset by the ids it reserves.
LEMMA OffsetSteps ==
  ASSUME NEW imports, NEW n \in Nat, \A j \in 1 .. n : imports[j].maxID \in Nat
  PROVE  /\ Offset(imports, 1) = 0
         /\ \A i \in 1 .. n + 1 : Offset(imports, i) \in Nat
         /\ \A i \in 1 .. n : Offset(imports, i + 1) = Offset(imports, i) + imports[i].maxID
<1> DEFINE N == n + 1
<1>1. PICK s : SumsUp(s, imports, N)
  BY OffsetIsComputed
<1>2. s[1] = 0 /\ \A j \in 2 .. N : s[j] = s[j - 1] + imports[j - 1].maxID
  BY <1>1 DEF SumsUp
<1> DEFINE P == {k \in 0 .. n : s[k + 1] \in Nat}
<1>3. 0 \in P
  BY <1>2
<1>4. ASSUME NEW k \in 1 .. n, k - 1 \in P
      PROVE  k \in P
  <2>1. s[k + 1] = s[k] + imports[k].maxID /\ s[k] \in Nat
    <3>1. k + 1 \in 2 .. N /\ k + 1 - 1 = k /\ k - 1 + 1 = k
      OBVIOUS
    <3> QED BY <1>2, <1>4, <3>1
  <2> QED BY <2>1
<1> HIDE DEF P
<1>5. \A k \in 0 .. n : k \in P
  BY <1>3, <1>4, Induction
<1>6. \A j \in 1 .. N : s[j] \in Nat
  <2>1. ASSUME NEW j \in 1 .. N
        PROVE  s[j] \in Nat
    <3>1. j - 1 \in 0 .. n /\ j - 1 + 1 = j
      OBVIOUS
    <3> QED BY <1>5, <3>1 DEF P
  <2> QED BY <2>1
<1>7. ASSUME NEW i \in 1 .. N
      PROVE  Offset(imports, i) = s[i]
  <2>1. PICK t : SumsUp(t, imports, i) /\ Offset(imports, i) = t[i]
    BY OffsetIsComputed
  <2>2. t[1] = 0 /\ \A j \in 2 .. i : t[j] = t[j - 1] + imports[j - 1].maxID
    BY <2>1 DEF SumsUp
  <2> DEFINE m == i - 1
             Q == {k \in 0 .. m : t[k + 1] = s[k + 1]}
  <2>3. 0 \in Q
    BY <1>2, <2>2
  <2>4. ASSUME NEW k \in 1 .. m, k - 1 \in Q
        PROVE  k \in Q
    <3>1. k + 1 \in 2 .. i /\ k + 1 \in 2 .. N /\ k + 1 - 1 = k /\ k - 1 + 1 = k
      OBVIOUS
    <3>2. t[k] = s[k]
      BY <2>4, <3>1
    <3>3. t[k + 1] = t[k] + imports[k].maxID /\ s[k + 1] = s[k] + imports[k].maxID
      BY <1>2, <2>2, <3>1
    <3> QED BY <3>2, <3>3
  <2> HIDE DEF Q
  <2>5. m \in Q
    BY <2>3, <2>4, Induction
  <2> QED BY <2>1, <2>5 DEF Q
<1>8. \A i \in 1 .. n : s[i + 1] = s[i] + imports[i].maxID
  <2>1. ASSUME NEW i \in 1 .. n
        PROVE  s[i + 1] = s[i] + imports[i].maxID
    <3>1. i + 1 \in 2 .. N /\ i + 1 - 1 = i
      OBVIOUS
    <3> QED BY <1>2, <3>1
  <2> QED BY <2>1
<1> QED BY <1>2, <1>6, <1>7, <1>8

\* The facts about offsets, of the imports of a table.
LEMMA Offsets ==
  ASSUME NEW imports, AreImports(imports), imports # << >>, NEW n, n = Len(imports)
  PROVE  /\ n \in Nat \ {0}
         /\ Offset(imports, 1) = 0
         /\ \A i \in 1 .. n + 1 : Offset(imports, i) \in Nat
         /\ \A i \in 1 .. n : Offset(imports, i + 1) = Offset(imports, i) + imports[i].maxID
         /\ \A i \in 1 .. n : imports[i].maxID \in Nat
<1>1. n \in Nat \ {0}
  BY StackLen DEF AreImports
<1>2. \A i \in 1 .. n : imports[i].maxID \in Nat
  BY DEF AreImports, IsShared
<1> QED BY <1>1, <1>2, OffsetSteps

\* The ids of an import come before those of the imports after it.
LEMMA OffsetsNest ==
  ASSUME NEW imports, AreImports(imports), imports # << >>, NEW n, n = Len(imports),
         NEW i \in 1 .. n, NEW j \in 1 .. n + 1, i < j
  PROVE  Offset(imports, i) + imports[i].maxID <= Offset(imports, j)
<1> DEFINE O(x) == Offset(imports, x)
           m    == j - (i + 1)
           S    == {d \in 0 .. m : O(i + 1) <= O(i + 1 + d)}
<1>1. /\ n \in Nat \ {0}
      /\ \A x \in 1 .. n + 1 : O(x) \in Nat
      /\ \A x \in 1 .. n : O(x + 1) = O(x) + imports[x].maxID
      /\ \A x \in 1 .. n : imports[x].maxID \in Nat
  BY Offsets
<1> HIDE DEF O
<1>2. m \in Nat
  BY <1>1
<1>3. 0 \in S
  BY <1>1, <1>2
<1>4. ASSUME NEW d \in 1 .. m, d - 1 \in S
      PROVE  d \in S
  <2> DEFINE x == i + d
  <2>1. x \in 1 .. n /\ x + 1 = i + 1 + d /\ x = i + 1 + (d - 1)
    BY <1>1
  <2>2. O(x + 1) = O(x) + imports[x].maxID /\ imports[x].maxID \in Nat /\ O(x) \in Nat
    BY <1>1, <2>1
  <2>3. O(i + 1) <= O(x) /\ O(i + 1) \in Nat
    <3>1. i + 1 \in 1 .. n + 1
      BY <1>1
    <3>2. O(i + 1) <= O(i + 1 + (d - 1))
      BY <1>4
    <3> QED BY <1>1, <2>1, <3>1, <3>2
  <2>4. O(i + 1) <= O(x + 1)
    BY <2>2, <2>3
  <2> QED BY <2>1, <2>4
<1>5. m \in S
  <2> HIDE DEF S, m
  <2>1. \A d \in 0 .. m : d \in S
    BY <1>2, <1>3, <1>4, Induction
  <2> QED BY <1>2, <2>1
<1>6. O(i + 1) <= O(i + 1 + m) /\ i + 1 + m = j
  BY <1>1, <1>5
<1>7. O(i + 1) = O(i) + imports[i].maxID
  BY <1>1
<1> QED BY <1>6, <1>7 DEF O

\* The imports whose ids, and those of all before them, begin below id.
Before(imports, id) ==
  {i \in 2 .. Len(imports) : \A j \in 2 .. i : id > Offset(imports, j)}

\* The search of FindByID ends at the import whose ids hold the id.
LEMMA ImportOfID ==
  ASSUME NEW imports, AreImports(imports), imports # << >>,
         NEW k \in 1 .. Len(imports), NEW p \in 1 .. imports[k].maxID,
         NEW id, id = Offset(imports, k) + p
  PROVE  MaxOf({1} \cup Before(imports, id)) = k
<1> DEFINE n == Len(imports)
           O(x) == Offset(imports, x)
<1>1. /\ n \in Nat \ {0} /\ O(1) = 0
      /\ \A x \in 1 .. n + 1 : O(x) \in Nat
      /\ \A x \in 1 .. n : imports[x].maxID \in Nat
  BY Offsets
<1>2. \A i \in 1 .. n : \A j \in 1 .. n + 1 : i < j => O(i) + imports[i].maxID <= O(j)
  BY OffsetsNest
<1> HIDE DEF O
<1>3. O(k) \in Nat /\ p \in Nat \ {0} /\ id = O(k) + p /\ p <= imports[k].maxID
  BY <1>1 DEF O
<1>4. k # 1 => k \in Before(imports, id)
  <2>1. ASSUME NEW j \in 2 .. k, k # 1
        PROVE  id > O(j)
    <3>1. CASE j = k
      BY <1>3, <3>1
    <3>2. CASE j # k
      <4>1. j \in 1 .. n /\ j < k /\ k \in 1 .. n + 1
        BY <1>1, <3>2
      <4>2. O(j) + imports[j].maxID <= O(k) /\ O(j) \in Nat /\ imports[j].maxID \in Nat
        BY <1>1, <1>2, <4>1
      <4> QED BY <1>3, <4>2
    <3> QED BY <3>1, <3>2
  <2> QED BY <1>1, <2>1 DEF Before, O
<1>5. \A i \in Before(imports, id) : i <= k
  <2>1. ASSUME NEW i \in Before(imports, id), i > k
        PROVE  FALSE
    <3>1. i \in 2 .. n /\ id > O(i)
      BY DEF Before, O
    <3>2. O(k) + imports[k].maxID <= O(i)
      BY <1>1, <1>2, <2>1, <3>1
    <3>3. O(i) \in Nat /\ imports[k].maxID \in Nat
      BY <1>1, <3>1
    <3> QED BY <1>3, <3>1, <3>2, <3>3
  <2>2. Before(imports, id) \subseteq Nat
    BY DEF Before
  <2> QED BY <2>1, <2>2
<1> DEFINE S == {1} \cup Before(imports, id)
<1>6. S \in SUBSET Nat /\ k \in S /\ \A y \in S : y <= k
  BY <1>4, <1>5 DEF Before
<1> HIDE DEF S
<1>7. MaxOf(S) = k
  BY <1>6, MaxIs
<1> QED BY <1>7 DEF S

\* Every id of the imports is an id of one of them.
LEMMA IDHasImport ==
  ASSUME NEW imports, AreImports(imports), imports # << >>, NEW n, n = Len(imports),
         NEW id \in Nat \ {0}, id <= Offset(imports, n + 1)
  PROVE  \E k \in 1 .. n : \E p \in 1 .. imports[k].maxID : id = Offset(imports, k) + p
<1> DEFINE O(x) == Offset(imports, x)
           T    == {i \in 1 .. n + 1 : id <= O(i)}
<1>1. /\ n \in Nat \ {0} /\ O(1) = 0
      /\ \A x \in 1 .. n + 1 : O(x) \in Nat
      /\ \A x \in 1 .. n : imports[x].maxID \in Nat
      /\ \A x \in 1 .. n : O(x + 1) = O(x) + imports[x].maxID
  BY Offsets
<1>2. n + 1 \in T /\ T \in SUBSET Nat
  BY <1>1
<1> HIDE DEF T
<1>3. PICK x \in T : \A y \in T : ~(y < x)
  BY <1>2, Least
<1> HIDE DEF O
<1>4. x \in 1 .. n + 1 /\ id <= O(x)
  BY DEF T
<1>5. x # 1
  BY <1>1, <1>4
<1> DEFINE k == x - 1
<1>6. k \in 1 .. n /\ k \in 1 .. n + 1 /\ k < x /\ k + 1 = x
  BY <1>1, <1>4, <1>5
<1>7. k \notin T
  BY <1>3, <1>6
<1>8. ~(id <= O(k)) /\ O(k) \in Nat
  BY <1>1, <1>6, <1>7 DEF T
<1>9. O(x) = O(k) + imports[k].maxID /\ imports[k].maxID \in Nat
  BY <1>1, <1>6
<1> DEFINE p == id - O(k)
<1>10. p \in 1 .. imports[k].maxID /\ id = O(k) + p
  BY <1>4, <1>8, <1>9
<1> QED BY <1>6, <1>10 DEF O
-----------------------------------------------------------------------------
(***************************************************************************)
(* Tables.                                                                 *)
(***************************************************************************)
\* The index leads every text it has to its first occurrence, and has every text
\* but that of a gap.
IsIndexed(tbl) ==
  /\ \A t \in DOMAIN tbl.index :
       /\ Occurrences(tbl.symbols, t) # {}
       /\ tbl.index[t] = MaxImportID(tbl) + MinOf(Occurrences(tbl.symbols, t))
  /\ \A t : t # "" /\ Occurrences(tbl.symbols, t) # {} => t \in DOMAIN tbl.index

\* A table as NewLocalTable makes it and Add grows it.
IsTable(tbl) ==
  /\ DOMAIN tbl = {"imports", "symbols", "index"}
  /\ AreImports(tbl.imports) /\ tbl.imports # << >>
  /\ tbl.symbols \in Seq(Text)
  /\ IsIndexed(tbl)

\* The empty text is that of a gap.
IsGapless(t) == t # ""

\* The imports that have a name.
Hits(tbl, t) == {i \in 1 .. Len(tbl.imports) : SharedFindByName(tbl.imports[i], t) > 0}

\* The first occurrence of a text among symbols.
LEMMA FirstOccurrence ==
  ASSUME NEW symbols \in Seq(Text), NEW t, Occurrences(symbols, t) # {}
  PROVE  /\ MinOf(Occurrences(symbols, t)) \in 1 .. Len(symbols)
         /\ symbols[MinOf(Occurrences(symbols, t))] = t
         /\ \A i \in 1 .. Len(symbols) :
              symbols[i] = t => MinOf(Occurrences(symbols, t)) <= i
<1> DEFINE S == Occurrences(symbols, t)
<1>1. S \in SUBSET Nat /\ S # {}
  BY DEF Occurrences
<1> HIDE DEF S
<1>2. MinOf(S) \in S /\ \A y \in S : MinOf(S) <= y
  BY <1>1, MinOfNats
<1> QED BY <1>2 DEF S, Occurrences

\* A name leads to the first id of its text in a shared table, and to none if the
\* table lacks it.
LEMMA SharedLookup ==
  ASSUME NEW s, IsShared(s), NEW t, NEW p, p = SharedFindByName(s, t)
  PROVE  /\ p \in Nat
         /\ p > 0 => /\ p \in 1 .. Len(s.symbols) /\ p \in 1 .. s.maxID
                     /\ s.symbols[p] = t /\ SharedFindByID(s, p) = t
         /\ t # "" => \A i \in 1 .. Len(s.symbols) : s.symbols[i] = t => p > 0 /\ p <= i
<1>1. PICK ss \in Seq(Text) : ss = s.symbols
  BY DEF IsShared
<1>2. PICK n \in Nat : n = Len(ss)
  BY LenProperties
<1>3. PICK m \in Nat : m = s.maxID /\ n <= m
  BY <1>1, <1>2 DEF IsShared
<1>4. CASE t = "" \/ Occurrences(ss, t) = {}
  <2>1. p = 0
    BY <1>1, <1>4 DEF SharedFindByName
  <2>2. ASSUME t # "", NEW i \in 1 .. n, ss[i] = t
        PROVE  FALSE
    BY <1>2, <1>4, <2>2 DEF Occurrences
  <2>3. t # "" => \A i \in 1 .. Len(s.symbols) : s.symbols[i] = t => p > 0 /\ p <= i
    BY <1>1, <1>2, <2>2
  <2>4. p \in Nat /\ ~(p > 0)
    BY <2>1
  <2> QED BY <2>3, <2>4
<1>5. CASE ~(t = "" \/ Occurrences(ss, t) = {})
  <2>1. p = MinOf(Occurrences(ss, t))
    BY <1>1, <1>5 DEF SharedFindByName
  <2>2. p \in 1 .. n /\ ss[p] = t /\ \A i \in 1 .. n : ss[i] = t => p <= i
    <3>1. Occurrences(ss, t) # {}
      BY <1>5
    <3>2. /\ MinOf(Occurrences(ss, t)) \in 1 .. Len(ss)
          /\ ss[MinOf(Occurrences(ss, t))] = t
          /\ \A i \in 1 .. Len(ss) : ss[i] = t => MinOf(Occurrences(ss, t)) <= i
      BY <3>1, FirstOccurrence
    <3> QED BY <1>2, <2>1, <3>2
  <2>3. SharedFindByID(s, p) = t
    BY <1>1, <1>2, <2>2 DEF SharedFindByID
  <2>4. p \in 1 .. m /\ p > 0 /\ p \in Nat
    BY <1>3, <2>2
  <2>5. p \in 1 .. Len(s.symbols) /\ p \in 1 .. s.maxID /\ s.symbols[p] = t
    BY <1>1, <1>2, <1>3, <2>2, <2>4
  <2>6. \A i \in 1 .. Len(s.symbols) : s.symbols[i] = t => p <= i
    BY <1>1, <1>2, <2>2
  <2> QED BY <2>3, <2>4, <2>5, <2>6
<1> QED BY <1>4, <1>5

\* The ids of the imports, in order, and then the table's own.
LEMMA TableLayout ==
  ASSUME NEW tbl, IsTable(tbl), NEW n, n = Len(tbl.imports)
  PROVE  /\ n \in Nat \ {0}
         /\ MaxImportID(tbl) = Offset(tbl.imports, n + 1) /\ MaxImportID(tbl) \in Nat
         /\ Len(tbl.symbols) \in Nat
         /\ MaxID(tbl) = MaxImportID(tbl) + Len(tbl.symbols)
         /\ \A k \in 1 .. n : /\ Offset(tbl.imports, k) \in Nat
                              /\ tbl.imports[k].maxID \in Nat
                              /\ Offset(tbl.imports, k) + tbl.imports[k].maxID <= MaxImportID(tbl)
<1>1. AreImports(tbl.imports) /\ tbl.imports # << >>
  BY DEF IsTable
<1>2. /\ n \in Nat \ {0}
      /\ \A i \in 1 .. n + 1 : Offset(tbl.imports, i) \in Nat
      /\ \A i \in 1 .. n : Offset(tbl.imports, i + 1) = Offset(tbl.imports, i) + tbl.imports[i].maxID
      /\ \A i \in 1 .. n : tbl.imports[i].maxID \in Nat
  BY <1>1, Offsets
<1>3. n \in 1 .. n /\ n + 1 \in 1 .. n + 1
  BY <1>2
<1>4. MaxImportID(tbl) = Offset(tbl.imports, n + 1) /\ MaxImportID(tbl) \in Nat
  BY <1>2, <1>3 DEF MaxImportID
<1>5. Len(tbl.symbols) \in Nat
  BY LenProperties DEF IsTable
<1>6. \A k \in 1 .. n : Offset(tbl.imports, k) + tbl.imports[k].maxID <= Offset(tbl.imports, n + 1)
  <2>1. ASSUME NEW k \in 1 .. n
        PROVE  Offset(tbl.imports, k) + tbl.imports[k].maxID <= Offset(tbl.imports, n + 1)
    <3>1. k < n + 1
      BY <1>2
    <3> QED BY <1>1, <1>3, <3>1, OffsetsNest
  <2> QED BY <2>1
<1> QED BY <1>2, <1>4, <1>5, <1>6 DEF MaxID

\* What FindByID makes of an id of an import.
LEMMA TextOfImportID ==
  ASSUME NEW tbl, IsTable(tbl), NEW k \in 1 .. Len(tbl.imports),
         NEW p \in 1 .. tbl.imports[k].maxID
  PROVE  FindByID(tbl, Offset(tbl.imports, k) + p) = SharedFindByID(tbl.imports[k], p)
<1> DEFINE O  == Offset(tbl.imports, k)
           id == O + p
<1>1. O \in Nat /\ p \in Nat \ {0} /\ id <= MaxImportID(tbl) /\ MaxImportID(tbl) \in Nat
  <2>1. /\ O \in Nat /\ tbl.imports[k].maxID \in Nat /\ MaxImportID(tbl) \in Nat
        /\ O + tbl.imports[k].maxID <= MaxImportID(tbl)
    BY TableLayout
  <2> HIDE DEF O
  <2> QED BY <2>1
<1>2. MaxOf({1} \cup Before(tbl.imports, id)) = k
  BY ImportOfID DEF IsTable
<1>3. ~(id <= 0) /\ id - O = p
  <2> HIDE DEF O
  <2> QED BY <1>1
<1> HIDE DEF id, O
<1>4. FindByID(tbl, id) = SharedFindByID(tbl.imports[k], id - O)
  BY <1>1, <1>2, <1>3 DEF FindByID, Before, O
<1> QED BY <1>3, <1>4 DEF id, O

\* What it makes of one of the table's own.
LEMMA TextOfOwnID ==
  ASSUME NEW tbl, IsTable(tbl), NEW p \in 1 .. Len(tbl.symbols)
  PROVE  FindByID(tbl, MaxImportID(tbl) + p) = tbl.symbols[p]
<1> DEFINE M  == MaxImportID(tbl)
           id == M + p
<1>1. M \in Nat /\ Len(tbl.symbols) \in Nat
  BY TableLayout
<1> HIDE DEF M
<1>2. ~(id <= 0) /\ ~(id <= M) /\ id - M = p /\ p <= Len(tbl.symbols)
  BY <1>1
<1> HIDE DEF id
<1>3. FindByID(tbl, id) = tbl.symbols[id - M]
  BY <1>2 DEF FindByID, M
<1> QED BY <1>2, <1>3 DEF id, M

\* A name leads to an id of this text.
LEMMA NameToID ==
  ASSUME NEW tbl, IsTable(tbl), NEW t, NEW id, id = FindByName(tbl, t)
  PROVE  id \in 0 .. MaxID(tbl) /\ (id > 0 => FindByID(tbl, id) = t)
<1>1. /\ MaxImportID(tbl) \in Nat /\ Len(tbl.symbols) \in Nat
      /\ MaxID(tbl) = MaxImportID(tbl) + Len(tbl.symbols)
  BY TableLayout
<1>2. CASE Hits(tbl, t) # {}
  <2> DEFINE k == MinOf(Hits(tbl, t))
             p == SharedFindByName(tbl.imports[k], t)
  <2>1. k \in Hits(tbl, t)
    <3>1. Hits(tbl, t) \in SUBSET Nat
      BY DEF Hits
    <3> QED BY <1>2, <3>1, MinOfNats
  <2>2. id = Offset(tbl.imports, k) + p
    BY <1>2 DEF FindByName, Hits
  <2> HIDE DEF k
  <2>3. k \in 1 .. Len(tbl.imports) /\ p > 0
    BY <2>1 DEF Hits
  <2>4. IsShared(tbl.imports[k])
    BY <2>3 DEF IsTable, AreImports
  <2>5. p \in 1 .. tbl.imports[k].maxID /\ SharedFindByID(tbl.imports[k], p) = t
    <3> DEFINE sh == tbl.imports[k]
    <3>1. IsShared(sh) /\ p = SharedFindByName(sh, t)
      BY <2>4
    <3> HIDE DEF sh, p
    <3>2. p > 0 => p \in 1 .. sh.maxID /\ SharedFindByID(sh, p) = t
      BY <3>1, SharedLookup
    <3> QED BY <2>3, <3>2 DEF sh, p
  <2> HIDE DEF p
  <2>6. FindByID(tbl, id) = t
    BY <2>2, <2>3, <2>5, TextOfImportID
  <2>7. /\ Offset(tbl.imports, k) \in Nat /\ tbl.imports[k].maxID \in Nat
        /\ Offset(tbl.imports, k) + tbl.imports[k].maxID <= MaxImportID(tbl)
    BY <2>3, TableLayout
  <2> QED BY <1>1, <2>2, <2>5, <2>6, <2>7
<1>3. CASE Hits(tbl, t) = {} /\ t \in DOMAIN tbl.index
  <2> DEFINE p == MinOf(Occurrences(tbl.symbols, t))
  <2>1. id = MaxImportID(tbl) + p /\ Occurrences(tbl.symbols, t) # {}
    BY <1>3 DEF FindByName, Hits, IsTable, IsIndexed
  <2>2. p \in 1 .. Len(tbl.symbols) /\ tbl.symbols[p] = t
    BY <2>1, FirstOccurrence DEF IsTable
  <2> HIDE DEF p
  <2>3. FindByID(tbl, id) = t
    BY <2>1, <2>2, TextOfOwnID
  <2> QED BY <1>1, <2>1, <2>2, <2>3
<1>4. CASE Hits(tbl, t) = {} /\ t \notin DOMAIN tbl.index
  <2>1. id = 0
    BY <1>4 DEF FindByName, Hits
  <2> QED BY <1>1, <2>1
<1> QED BY <1>2, <1>3, <1>4

\* A name that is found in an import is found in the first one that has it.
LEMMA NameInImports ==
  ASSUME NEW tbl, IsTable(tbl), NEW t, Hits(tbl, t) # {},
         NEW n \in Nat, n = Len(tbl.imports)
  PROVE  \E k \in 1 .. n : \E p \in Nat \ {0} :
           /\ FindByName(tbl, t) = Offset(tbl.imports, k) + p
           /\ p = SharedFindByName(tbl.imports[k], t) /\ p <= tbl.imports[k].maxID
           /\ \A j \in Hits(tbl, t) : k <= j
<1> DEFINE k == MinOf(Hits(tbl, t))
           p == SharedFindByName(tbl.imports[k], t)
<1>1. k \in Hits(tbl, t) /\ \A j \in Hits(tbl, t) : k <= j
  <2>1. Hits(tbl, t) \in SUBSET Nat
    BY DEF Hits
  <2> QED BY <2>1, MinOfNats
<1>2. FindByName(tbl, t) = Offset(tbl.imports, k) + p
  BY DEF FindByName, Hits
<1> HIDE DEF k
<1>3. k \in 1 .. n /\ p > 0
  BY <1>1 DEF Hits
<1> DEFINE sh == tbl.imports[k]
<1>4. IsShared(sh) /\ p = SharedFindByName(sh, t)
  BY <1>3 DEF IsTable, AreImports
<1>5. p \in Nat \ {0} /\ p <= sh.maxID
  <2>1. sh.maxID \in Nat
    BY <1>4 DEF IsShared
  <2> HIDE DEF sh, p
  <2>2. p \in Nat /\ (p > 0 => p \in 1 .. sh.maxID)
    BY <1>4, SharedLookup
  <2> QED BY <1>3, <2>1, <2>2
<1> HIDE DEF p
<1> QED BY <1>1, <1>2, <1>3, <1>5 DEF p

\* A text that a name can be: the empty one marks a gap.
IsName(t) == t \in Text /\ t # ""

\* A name leads to no later id of its text than any other.
LEMMA NameToLeastID ==
  ASSUME NEW tbl, IsTable(tbl), NEW t, IsName(t),
         NEW id \in Nat \ {0}, id <= MaxID(tbl), FindByID(tbl, id) = t,
         NEW f, f = FindByName(tbl, t)
  PROVE  f \in Nat \ {0} /\ f <= id
<1>1. PICK n \in Nat \ {0} : n = Len(tbl.imports)
  BY TableLayout
<1>2. PICK l \in Nat : l = Len(tbl.symbols)
  BY TableLayout
<1>3. PICK M \in Nat : M = MaxImportID(tbl)
  BY TableLayout
<1> DEFINE O(x) == Offset(tbl.imports, x)
<1>4. /\ MaxID(tbl) = M + l /\ M = O(n + 1)
      /\ \A k \in 1 .. n :
           O(k) \in Nat /\ tbl.imports[k].maxID \in Nat /\ O(k) + tbl.imports[k].maxID <= M
  BY <1>1, <1>2, <1>3, TableLayout
<1>5. AreImports(tbl.imports) /\ tbl.imports # << >>
  BY DEF IsTable
<1> HIDE DEF O
<1>6. CASE id <= M
  <2>1. PICK k \in 1 .. n : \E p \in 1 .. tbl.imports[k].maxID : id = O(k) + p
    <3>1. id <= Offset(tbl.imports, n + 1)
      BY <1>4, <1>6 DEF O
    <3> QED BY <1>1, <1>5, <3>1, IDHasImport DEF O
  <2>2. PICK p \in 1 .. tbl.imports[k].maxID : id = O(k) + p
    BY <2>1
  <2> DEFINE sh == tbl.imports[k]
             q  == SharedFindByName(sh, t)
  <2>3. O(k) \in Nat /\ p \in Nat \ {0}
    <3>1. tbl.imports[k].maxID \in Nat
      BY <1>4
    <3> QED BY <1>4, <3>1
  <2>4. SharedFindByID(sh, p) = t
    BY <1>1, <2>2, TextOfImportID DEF O
  <2>5. IsShared(sh)
    BY <1>1, <1>5 DEF AreImports
  <2>6. p \in 1 .. Len(sh.symbols) /\ sh.symbols[p] = t
    <3> HIDE DEF sh
    <3>1. t # NoText
      BY TextAssumption DEF IsName
    <3> QED BY <2>4, <3>1 DEF SharedFindByID
  <2>7. q \in Nat \ {0} /\ q <= p
    <3> HIDE DEF sh, q
    <3>1. q = SharedFindByName(sh, t)
      BY DEF q
    <3>2. q \in Nat
      BY <2>5, <3>1, SharedLookup
    <3>3. \A i \in 1 .. Len(sh.symbols) : sh.symbols[i] = t => q > 0 /\ q <= i
      BY <2>5, <3>1, SharedLookup DEF IsName
    <3>4. q > 0 /\ q <= p
      BY <2>6, <3>3
    <3> QED BY <3>2, <3>4
  <2>8. k \in Hits(tbl, t)
    BY <1>1, <2>7 DEF Hits
  <2>9. PICK m \in 1 .. n : \E r \in Nat \ {0} :
               /\ f = O(m) + r
               /\ r = SharedFindByName(tbl.imports[m], t) /\ r <= tbl.imports[m].maxID
               /\ m <= k
    BY <1>1, <2>8, NameInImports DEF O
  <2>10. PICK r \in Nat \ {0} :
               /\ f = O(m) + r
               /\ r = SharedFindByName(tbl.imports[m], t) /\ r <= tbl.imports[m].maxID
               /\ m <= k
    BY <2>9
  <2>11. O(m) \in Nat /\ tbl.imports[m].maxID \in Nat
    BY <1>4
  <2>12. CASE m = k
    <3>1. r = q /\ O(m) = O(k)
      BY <2>10, <2>12
    <3> HIDE DEF q
    <3> QED BY <2>2, <2>3, <2>7, <2>10, <3>1
  <2>13. CASE m # k
    <3>1. O(m) + tbl.imports[m].maxID <= O(k)
      <4>1. m < k /\ k \in 1 .. n + 1
        BY <2>10, <2>13
      <4> QED BY <1>1, <1>5, <4>1, OffsetsNest DEF O
    <3> QED BY <2>2, <2>3, <2>10, <2>11, <3>1
  <2> QED BY <2>12, <2>13
<1>7. CASE ~(id <= M)
  <2>1. PICK p \in 1 .. l : id = M + p
    <3>1. id - M \in 1 .. l /\ id = M + (id - M)
      BY <1>4, <1>7
    <3> QED BY <3>1
  <2>2. tbl.symbols[p] = t
    BY <1>2, <1>3, <2>1, TextOfOwnID
  <2>3. CASE Hits(tbl, t) # {}
    <3>1. PICK m \in 1 .. n : \E r \in Nat \ {0} :
                 f = O(m) + r /\ r <= tbl.imports[m].maxID
      BY <1>1, <2>3, NameInImports DEF O
    <3>2. O(m) \in Nat /\ tbl.imports[m].maxID \in Nat /\ O(m) + tbl.imports[m].maxID <= M
      BY <1>4
    <3> QED BY <1>7, <3>1, <3>2
  <2>4. CASE Hits(tbl, t) = {}
    <3> DEFINE q == MinOf(Occurrences(tbl.symbols, t))
    <3>1. p \in Occurrences(tbl.symbols, t)
      BY <1>2, <2>2 DEF Occurrences
    <3>2. Occurrences(tbl.symbols, t) # {}
      BY <3>1
    <3>3. t \in DOMAIN tbl.index /\ tbl.index[t] = M + q
      BY <1>3, <3>2 DEF IsTable, IsIndexed, IsName
    <3>4. f = M + q
      BY <2>4, <3>3 DEF FindByName, Hits
    <3>5. q \in 1 .. Len(tbl.symbols) /\ q <= p
      <4>1. tbl.symbols \in Seq(Text)
        BY DEF IsTable
      <4> QED BY <1>2, <2>2, <3>2, <4>1, FirstOccurrence
    <3> HIDE DEF q
    <3> QED BY <1>2, <2>1, <3>4, <3>5
  <2> QED BY <2>3, <2>4
<1> QED BY <1>6, <1>7

\* So it leads to the least id of its text.
LEMMA LeastID ==
  ASSUME NEW tbl, IsTable(tbl), NEW t, IsName(t)
  PROVE  LET ids == {id \in 1 .. MaxID(tbl) : FindByID(tbl, id) = t}
         IN  FindByName(tbl, t) = IF ids = {} THEN 0 ELSE MinOf(ids)
<1>1. /\ MaxImportID(tbl) \in Nat /\ Len(tbl.symbols) \in Nat
      /\ MaxID(tbl) = MaxImportID(tbl) + Len(tbl.symbols)
  BY TableLayout
<1>2. PICK m \in Nat : m = MaxID(tbl)
  BY <1>1
<1>3. PICK f : f = FindByName(tbl, t)
  OBVIOUS
<1> DEFINE ids == {id \in 1 .. m : FindByID(tbl, id) = t}
<1>4. f \in 0 .. m /\ (f > 0 => f \in ids)
  <2>1. f \in 0 .. m /\ (f > 0 => FindByID(tbl, f) = t)
    BY <1>2, <1>3, NameToID
  <2> QED BY <2>1
<1>5. ASSUME NEW id \in ids
      PROVE  f > 0 /\ f <= id
  <2>1. id \in Nat \ {0} /\ id <= m /\ FindByID(tbl, id) = t
    OBVIOUS
  <2>2. f \in Nat \ {0} /\ f <= id
    BY <1>2, <1>3, <2>1, NameToLeastID
  <2> QED BY <2>2
<1>6. ids \in SUBSET Nat
  OBVIOUS
<1> HIDE DEF ids
<1>7. f = IF ids = {} THEN 0 ELSE MinOf(ids)
  <2>1. CASE ids = {}
    BY <1>4, <2>1
  <2>2. CASE ids # {}
    <3>1. f \in ids /\ \A id \in ids : f <= id
      BY <1>4, <1>5, <2>2
    <3>2. MinOf(ids) = f
      BY <1>6, <3>1, MinIs
    <3> QED BY <2>2, <3>2
  <2> QED BY <2>1, <2>2
<1> QED BY <1>2, <1>3, <1>7 DEF ids
-----------------------------------------------------------------------------
(***************************************************************************)
(* Tables are made of tables.                                              *)
(***************************************************************************)
\* A shared table has an id for each of its symbols,
LEMMA SharedTableIsShared ==
  ASSUME NEW name, NEW version, NEW symbols \in Seq(Text)
  PROVE  IsShared(SharedTable(name, version, symbols))
<1>1. Len(symbols) \in Nat
  BY LenProperties
<1> QED BY <1>1 DEF IsShared, SharedTable

\* Nine of anything are a sequence.
LEMMA Nine ==
  ASSUME NEW a, NEW b, NEW c, NEW d, NEW e, NEW f, NEW g, NEW h, NEW i
  PROVE  <<a, b, c, d, e, f, g, h, i>> \in Seq({a, b, c, d, e, f, g, h, i})
OBVIOUS

\* and so has the system table.
LEMMA V1SystemIsShared == IsShared(V1System)
<1>1. V1SystemSymbols \in Seq(Text)
  <2>1. \E S : V1SystemSymbols \in Seq(S)
    BY Nine, Zenon DEF V1SystemSymbols
  <2> HIDE DEF V1SystemSymbols
  <2>2. V1SystemSymbols \in [1 .. Len(V1SystemSymbols) -> Text]
    BY <2>1, LenProperties, TextAssumption
  <2>3. Len(V1SystemSymbols) \in Nat
    BY <2>1, LenProperties
  <2> QED BY <2>2, <2>3, SeqDef
<1> QED BY <1>1, SharedTableIsShared DEF V1System

\* The imports of two tables in a row.
LEMMA ImportsConcat ==
  ASSUME NEW a, NEW b, AreImports(a), AreImports(b)
  PROVE  /\ AreImports(a \o b) /\ Len(a \o b) = Len(a) + Len(b)
         /\ Len(a) \in Nat /\ Len(b) \in Nat
<1>1. PICK m \in Nat : m = Len(a)
  BY StackLen DEF AreImports
<1>2. PICK n \in Nat : n = Len(b)
  BY StackLen DEF AreImports
<1>3. /\ IsStack(a \o b) /\ Len(a \o b) = m + n
      /\ \A i \in 1 .. m + n : (a \o b)[i] = IF i <= m THEN a[i] ELSE b[i - m]
  BY <1>1, <1>2, StackConcat DEF AreImports
<1>4. ASSUME NEW i \in 1 .. m + n
      PROVE  IsShared((a \o b)[i])
  <2>1. CASE i <= m
    <3>1. i \in 1 .. m /\ (a \o b)[i] = a[i]
      BY <1>3, <2>1
    <3> QED BY <1>1, <3>1 DEF AreImports
  <2>2. CASE ~(i <= m)
    <3>1. i - m \in 1 .. n /\ (a \o b)[i] = b[i - m]
      BY <1>3, <2>2
    <3> QED BY <1>2, <3>1 DEF AreImports
  <2> QED BY <2>1, <2>2
<1> QED BY <1>1, <1>2, <1>3, <1>4 DEF AreImports

\* No imports, and one.
LEMMA FewImports ==
  /\ AreImports(<< >>)
  /\ \A s : IsShared(s) => AreImports(<<s>>) /\ Len(<<s>>) = 1
<1>1. << >> \in Seq({}) /\ Len(<< >>) = 0
  BY EmptySeq
<1>2. ASSUME NEW s, IsShared(s)
      PROVE  AreImports(<<s>>) /\ Len(<<s>>) = 1
  <2>1. <<s>> \in Seq({s}) /\ Len(<<s>>) = 1 /\ <<s>>[1] = s
    OBVIOUS
  <2>2. \A i \in 1 .. 1 : i = 1
    OBVIOUS
  <2> QED BY <1>2, <2>1, <2>2 DEF AreImports, IsStack
<1> QED BY <1>1, <1>2 DEF AreImports, IsStack

\* NewLocalTable makes a table, with the system table in front of the imports.
LEMMA NewLocalTableIsTable ==
  ASSUME NEW imports, AreImports(imports), NEW symbols \in Seq(Text)
  PROVE  /\ IsTable(NewLocalTable(imports, symbols))
         /\ NewLocalTable(imports, symbols).symbols = symbols
<1> DEFINE imps == ProcessImports(imports)
           base == Offset(imps, Len(imps)) + imps[Len(imps)].maxID
           tbl  == NewLocalTable(imports, symbols)
<1>1. AreImports(imps) /\ imps # << >>
  <2>1. AreImports(<<V1System>>) /\ Len(<<V1System>>) = 1
    BY V1SystemIsShared, FewImports
  <2>2. AreImports(<<V1System>> \o imports) /\ Len(<<V1System>> \o imports) = 1 + Len(imports)
        /\ Len(imports) \in Nat
    BY <2>1, ImportsConcat
  <2>3. <<V1System>> \o imports # << >>
    <3>1. Len(<<V1System>> \o imports) > 0 /\ IsStack(<<V1System>> \o imports)
      BY <2>2 DEF AreImports
    <3> QED BY <3>1, StackLen
  <2> QED BY <2>2, <2>3 DEF ProcessImports
<1>2. base \in Nat
  <2>1. PICK n \in Nat \ {0} : n = Len(imps)
    BY <1>1, StackLen DEF AreImports
  <2> HIDE DEF imps
  <2>2. n \in 1 .. n /\ n \in 1 .. n + 1
    OBVIOUS
  <2>3. Offset(imps, n) \in Nat /\ imps[n].maxID \in Nat
    BY <1>1, <2>1, <2>2, Offsets
  <2> QED BY <2>1, <2>3
<1>3. /\ DOMAIN tbl = {"imports", "symbols", "index"}
      /\ tbl.imports = imps /\ tbl.symbols = symbols
      /\ tbl.index = BuildIndex(symbols, base + 1)
  BY DEF NewLocalTable
<1>4. MaxImportID(tbl) = base
  <2> HIDE DEF imps, tbl
  <2> QED BY <1>3 DEF MaxImportID
<1> HIDE DEF tbl, imps, base
<1>5. ASSUME NEW t \in DOMAIN tbl.index
      PROVE  /\ Occurrences(tbl.symbols, t) # {}
             /\ tbl.index[t] = MaxImportID(tbl) + MinOf(Occurrences(tbl.symbols, t))
  <2>1. PICK i \in 1 .. Len(symbols) : symbols[i] = t
    BY <1>3 DEF BuildIndex
  <2>2. Occurrences(symbols, t) # {}
    BY <2>1 DEF Occurrences
  <2>3. tbl.index[t] = base + 1 + MinOf(Occurrences(symbols, t)) - 1
    BY <1>3 DEF BuildIndex
  <2>4. MinOf(Occurrences(symbols, t)) \in Nat
    <3>1. Occurrences(symbols, t) \in SUBSET Nat
      BY DEF Occurrences
    <3> QED BY <2>2, <3>1, MinOfNats
  <2> QED BY <1>2, <1>3, <1>4, <2>2, <2>3, <2>4
<1>6. \A t : t # "" /\ Occurrences(tbl.symbols, t) # {} => t \in DOMAIN tbl.index
  BY <1>3, Zenon DEF BuildIndex, Occurrences
<1> QED BY <1>1, <1>3, <1>5, <1>6, Zenon DEF IsTable, IsIndexed, tbl
-----------------------------------------------------------------------------
(***************************************************************************)
(* The builder.                                                            *)
(***************************************************************************)
\* Unlike the index of a table that was read, the builder's has the empty text.
IsBuilder(tbl) ==
  /\ IsTable(tbl)
  /\ \A i \in 1 .. Len(tbl.symbols) : tbl.symbols[i] \in DOMAIN tbl.index

\* A new builder has no symbols, so all of them are indexed.
LEMMA NewBuilderIsBuilder ==
  ASSUME NEW imports, AreImports(imports)
  PROVE  IsBuilder(NewBuilder(imports))
<1>1. << >> \in Seq(Text) /\ Len(<< >>) = 0
  BY EmptySeq
<1>2. IsTable(NewLocalTable(imports, << >>)) /\ NewLocalTable(imports, << >>).symbols = << >>
  BY <1>1, NewLocalTableIsTable
<1> QED BY <1>1, <1>2 DEF IsBuilder, NewBuilder

\* A name that is not found has neither an import nor an entry in the index.
LEMMA NotFound ==
  ASSUME NEW tbl, IsTable(tbl), NEW t, ~(FindByName(tbl, t) > 0)
  PROVE  Hits(tbl, t) = {} /\ t \notin DOMAIN tbl.index
<1>1. PICK n \in Nat : n = Len(tbl.imports)
  BY TableLayout
<1>2. PICK M \in Nat : M = MaxImportID(tbl)
  BY TableLayout
<1>3. ASSUME Hits(tbl, t) # {}
      PROVE  FALSE
  <2>1. PICK k \in 1 .. n : \E p \in Nat \ {0} : FindByName(tbl, t) = Offset(tbl.imports, k) + p
    BY <1>1, <1>3, NameInImports
  <2>2. Offset(tbl.imports, k) \in Nat
    BY <1>1, TableLayout
  <2> QED BY <2>1, <2>2
<1>4. ASSUME t \in DOMAIN tbl.index
      PROVE  FALSE
  <2>1. FindByName(tbl, t) = tbl.index[t]
    BY <1>3, <1>4 DEF FindByName, Hits
  <2>2. /\ Occurrences(tbl.symbols, t) # {}
        /\ tbl.index[t] = M + MinOf(Occurrences(tbl.symbols, t))
    BY <1>2, <1>4 DEF IsTable, IsIndexed
  <2>3. MinOf(Occurrences(tbl.symbols, t)) \in 1 .. Len(tbl.symbols)
    BY <2>2, FirstOccurrence DEF IsTable
  <2>4. PICK m \in Nat \ {0} : m = MinOf(Occurrences(tbl.symbols, t))
    BY <2>3
  <2> QED BY <2>1, <2>2, <2>4
<1> QED BY <1>3, <1>4

\* Add returns the id the name has from then on, and moves no other name's.
LEMMA AddGrows ==
  ASSUME NEW b, IsBuilder(b), NEW t \in Text, NEW r, r = Add(b, t)
  PROVE  /\ IsBuilder(r.tbl)
         /\ r.id > 0 /\ FindByName(r.tbl, t) = r.id
         /\ \A u : FindByName(b, u) > 0 => FindByName(r.tbl, u) = FindByName(b, u)
<1>1. CASE FindByName(b, t) > 0
  <2>1. r.tbl = b /\ r.id = FindByName(b, t)
    BY <1>1 DEF Add
  <2> QED BY <1>1, <2>1
<1>2. CASE ~(FindByName(b, t) > 0)
  <2>1. IsTable(b) /\ Hits(b, t) = {} /\ t \notin DOMAIN b.index
    BY <1>2, NotFound DEF IsBuilder
  <2>2. PICK l \in Nat : l = Len(b.symbols)
    BY <2>1, TableLayout
  <2>3. PICK M \in Nat : M = MaxImportID(b)
    BY <2>1, TableLayout
  <2> DEFINE id  == M + l + 1
             tbl == r.tbl
  <2>4. MaxID(b) = M + l
    BY <2>1, <2>2, <2>3, TableLayout
  <2>5. /\ DOMAIN tbl = {"imports", "symbols", "index"} /\ tbl.imports = b.imports
        /\ tbl.symbols = Append(b.symbols, t)
        /\ tbl.index = [x \in DOMAIN b.index \cup {t} |-> IF x = t THEN id ELSE b.index[x]]
        /\ r.id = id
    BY <1>2, <2>1, <2>4 DEF Add, IsTable
  <2>6. id \in Nat \ {0}
    OBVIOUS
  <2> HIDE DEF tbl
  <2>7. MaxImportID(tbl) = M
    BY <2>3, <2>5 DEF MaxImportID
  <2>8. /\ tbl.symbols \in Seq(Text) /\ Len(tbl.symbols) = l + 1
        /\ tbl.symbols[l + 1] = t
        /\ \A i \in 1 .. l : tbl.symbols[i] = b.symbols[i]
    BY <2>1, <2>2, <2>5, AppendProperties DEF IsTable
  <2>9. ASSUME NEW u, u # t
        PROVE  Occurrences(tbl.symbols, u) = Occurrences(b.symbols, u)
    <3>1. ASSUME NEW i \in 1 .. l + 1
          PROVE  tbl.symbols[i] = u <=> (i \in 1 .. l /\ b.symbols[i] = u)
      BY <2>8, <2>9
    <3>2. 1 .. l \subseteq 1 .. l + 1
      OBVIOUS
    <3> QED BY <2>2, <2>8, <3>1, <3>2 DEF Occurrences
  <2>10. Occurrences(tbl.symbols, t) = {l + 1}
    <3>1. ASSUME NEW i \in 1 .. l + 1
          PROVE  tbl.symbols[i] = t <=> i = l + 1
      <4>1. i \in 1 .. l => b.symbols[i] # t
        BY <2>1, <2>2 DEF IsBuilder
      <4> QED BY <2>8, <4>1
    <3>2. l + 1 \in 1 .. l + 1
      OBVIOUS
    <3> QED BY <2>8, <3>1, <3>2 DEF Occurrences
  <2>11. IsIndexed(tbl)
    <3>1. ASSUME NEW u \in DOMAIN tbl.index
          PROVE  /\ Occurrences(tbl.symbols, u) # {}
                 /\ tbl.index[u] = M + MinOf(Occurrences(tbl.symbols, u))
      <4>1. CASE u = t
        <5>1. MinOf({l + 1}) = l + 1
          BY MinIs
        <5>2. tbl.index[u] = id
          BY <2>5, <4>1
        <5> QED BY <2>10, <4>1, <5>1, <5>2
      <4>2. CASE u # t
        <5>1. u \in DOMAIN b.index /\ tbl.index[u] = b.index[u]
          BY <2>5, <4>2
        <5>2. /\ Occurrences(b.symbols, u) # {}
              /\ b.index[u] = M + MinOf(Occurrences(b.symbols, u))
          BY <2>1, <2>3, <5>1 DEF IsTable, IsIndexed
        <5>3. Occurrences(tbl.symbols, u) = Occurrences(b.symbols, u)
          BY <2>9, <4>2
        <5> QED BY <5>1, <5>2, <5>3
      <4> QED BY <4>1, <4>2
    <3>2. ASSUME NEW u, IsGapless(u), Occurrences(tbl.symbols, u) # {}
          PROVE  u \in DOMAIN tbl.index
      <4>1. CASE u = t
        BY <2>5, <4>1
      <4>2. CASE u # t
        <5>1. Occurrences(b.symbols, u) # {}
          BY <2>9, <3>2, <4>2
        <5>2. u \in DOMAIN b.index
          BY <2>1, <3>2, <5>1 DEF IsTable, IsIndexed, IsGapless
        <5> QED BY <2>5, <5>2
      <4> QED BY <4>1, <4>2
    <3>3. \A u : u # "" /\ Occurrences(tbl.symbols, u) # {} => u \in DOMAIN tbl.index
      BY <3>2, Zenon DEF IsGapless
    <3> QED BY <2>7, <3>1, <3>3, Zenon DEF IsIndexed
  <2>12. IsBuilder(tbl)
    <3>1. ASSUME NEW i \in 1 .. l + 1
          PROVE  tbl.symbols[i] \in DOMAIN tbl.index
      <4>1. CASE i = l + 1
        BY <2>5, <2>8, <4>1
      <4>2. CASE i # l + 1
        <5>1. i \in 1 .. l
          BY <4>2
        <5>2. tbl.symbols[i] = b.symbols[i] /\ b.symbols[i] \in DOMAIN b.index
          BY <2>2, <2>8, <5>1 DEF IsBuilder
        <5> QED BY <2>5, <5>2
      <4> QED BY <4>1, <4>2
    <3>2. IsTable(tbl)
      BY <2>1, <2>5, <2>8, <2>11 DEF IsTable
    <3> QED BY <2>8, <3>1, <3>2 DEF IsBuilder
  <2>13. \A u : Hits(tbl, u) = Hits(b, u)
    BY <2>5 DEF Hits
  <2>14. \A u : Hits(b, u) # {} => FindByName(tbl, u) = FindByName(b, u)
    BY <2>5, <2>13 DEF FindByName, Hits
  <2>15. \A u : Hits(b, u) = {} /\ u \in DOMAIN tbl.index => FindByName(tbl, u) = tbl.index[u]
    BY <2>13 DEF FindByName, Hits
  <2>16. FindByName(tbl, t) = id
    BY <2>1, <2>5, <2>15
  <2>17. ASSUME NEW u, FindByName(b, u) > 0
         PROVE  FindByName(tbl, u) = FindByName(b, u)
    <3>1. CASE Hits(b, u) # {}
      BY <2>14, <3>1
    <3>2. CASE Hits(b, u) = {}
      <4>1. u \in DOMAIN b.index
        <5>1. u \notin DOMAIN b.index => FindByName(b, u) = 0
          BY <3>2 DEF FindByName, Hits
        <5> QED BY <2>17, <5>1
      <4>2. FindByName(b, u) = b.index[u]
        BY <3>2, <4>1 DEF FindByName, Hits
      <4>3. u # t /\ u \in DOMAIN tbl.index /\ tbl.index[u] = b.index[u]
        BY <2>1, <2>5, <4>1
      <4> QED BY <2>15, <3>2, <4>2, <4>3
    <3> QED BY <3>1, <3>2
  <2> QED BY <2>5, <2>6, <2>12, <2>16, <2>17 DEF tbl
<1> QED BY <1>1, <1>2
-----------------------------------------------------------------------------
(***************************************************************************)
(* Tables on the wire.                                                     *)
(***************************************************************************)
\* Adjust makes room for the ids that were reserved, and no more.
LEMMA AdjustKeepsShared ==
  ASSUME NEW s, IsShared(s), NEW m \in Nat
  PROVE  IsShared(Adjust(s, m))
<1>1. PICK n \in Nat : n = Len(s.symbols)
  BY LenProperties DEF IsShared
<1>2. CASE m > n
  <2>1. Adjust(s, m) = [s EXCEPT !.maxID = m]
    BY <1>1, <1>2 DEF Adjust
  <2>2. /\ DOMAIN Adjust(s, m) = DOMAIN s /\ Adjust(s, m).maxID = m
        /\ Adjust(s, m).symbols = s.symbols
    BY <2>1 DEF IsShared
  <2> QED BY <1>1, <1>2, <2>2 DEF IsShared
<1>3. CASE ~(m > n)
  <2> DEFINE kept == SubSeq(s.symbols, 1, m)
  <2>1. Adjust(s, m) = [[s EXCEPT !.symbols = kept] EXCEPT !.maxID = m]
    BY <1>1, <1>3, Zenon DEF Adjust
  <2>2. \A i \in 1 .. m : s.symbols[i] \in Text
    <3>1. s.symbols \in [1 .. n -> Text]
      BY <1>1, LenProperties DEF IsShared
    <3>2. 1 .. m \subseteq 1 .. n
      BY <1>1, <1>3
    <3> QED BY <3>1, <3>2
  <2>3. kept \in Seq(Text) /\ Len(kept) = m
    BY <2>2, StackPrefix
  <2> HIDE DEF kept
  <2>4. /\ DOMAIN Adjust(s, m) = DOMAIN s /\ Adjust(s, m).maxID = m
        /\ Adjust(s, m).symbols = kept
    BY <2>1 DEF IsShared
  <2> QED BY <2>3, <2>4 DEF IsShared
<1> QED BY <1>2, <1>3

\* A declaration of an import, and the reader's catalog.
IsDecl(decl) == decl.maxID \in Int

\* A catalog holds shared tables only.
IsCatalog(c) == \A s \in c : IsShared(s)

\* An import that declares its max_id is never refused.
LEMMA ImportIsRead ==
  ASSUME NEW decl, IsDecl(decl), NEW c, IsCatalog(c), NEW r, r = ReadImport(decl, c)
  PROVE  /\ r.err = "nil" => AreImports(r.imps)
         /\ decl.maxID \in Nat => r.err = "nil"
<1> DEFINE version == IF decl.version < 1 THEN 1 ELSE decl.version
           exact   == FindExact(c, decl.name, version)
           found   == IF exact # {} THEN exact ELSE FindLatest(c, decl.name)
           imp     == CHOOSE s \in found : TRUE
           maxID   == IF decl.maxID < 0 THEN imp.maxID ELSE decl.maxID
           skipped == decl.name \in {"", "$ion"}
           refused == decl.maxID < 0 /\ (found = {} \/ imp.version # version)
<1>1. r = IF skipped THEN [err |-> "nil", imps |-> << >>]
          ELSE IF refused THEN [err |-> "nomaxid", imps |-> << >>]
          ELSE IF found = {}
          THEN [err |-> "nil", imps |-> <<BogusSST(decl.name, version, maxID)>>]
          ELSE [err |-> "nil", imps |-> <<Adjust(imp, maxID)>>]
  BY Zenon DEF ReadImport
<1>2. found # {} => IsShared(imp)
  <2>1. found \subseteq c
    BY DEF FindExact, FindLatest
  <2> HIDE DEF found
  <2> QED BY <2>1 DEF IsCatalog
<1>3. refused => decl.maxID < 0
  BY Zenon
<1>4. ~refused => maxID \in Nat \/ (found # {} /\ maxID = imp.maxID)
  <2> HIDE DEF version, found, imp
  <2> QED BY DEF IsDecl
<1> HIDE DEF skipped, refused, imp, found, version, exact
<1>5. ~refused => maxID \in Nat
  <2> HIDE DEF maxID
  <2> QED BY <1>2, <1>4 DEF IsShared
<1> HIDE DEF maxID
<1>6. CASE skipped
  BY <1>1, <1>6, FewImports
<1>7. CASE ~skipped /\ refused
  BY <1>1, <1>3, <1>7
<1>8. CASE ~skipped /\ ~refused /\ found = {}
  <2>1. r = [err |-> "nil", imps |-> <<BogusSST(decl.name, version, maxID)>>]
    BY <1>1, <1>8
  <2>2. IsShared(BogusSST(decl.name, version, maxID))
    <3>1. << >> \in Seq(Text) /\ Len(<< >>) = 0
      BY EmptySeq
    <3> QED BY <1>5, <1>8, <3>1 DEF IsShared, BogusSST
  <2> QED BY <2>1, <2>2, FewImports
<1>9. CASE ~skipped /\ ~refused /\ found # {}
  <2>1. r = [err |-> "nil", imps |-> <<Adjust(imp, maxID)>>]
    BY <1>1, <1>9
  <2>2. IsShared(Adjust(imp, maxID))
    BY <1>2, <1>5, <1>9, AdjustKeepsShared
  <2> QED BY <2>1, <2>2, FewImports
<1> QED BY <1>6, <1>7, <1>8, <1>9

\* ReadImports before its first declaration.
NoneRead == [err |-> "nil", imps |-> << >>]

\* What one import more comes to, after those that were read.
OneMoreRead(x, o) == [err |-> o.err, imps |-> x.imps \o o.imps]

\* The step of ReadImports: an error ends it.
ReadUpTo(i, x, decls, c) ==
  IF i = 0 \/ x.err # "nil" THEN IF i = 0 THEN NoneRead ELSE x
  ELSE OneMoreRead(x, ReadImport(decls[i], c))

\* f[i] is what reading the first i declarations comes to.
Reading(f, decls, c, n) ==
  f = [i \in 0 .. n |-> ReadUpTo(i, f[i - 1], decls, c)]

\* There is such a function, so ReadImports is its last value.
LEMMA ReadingExists ==
  ASSUME NEW decls, NEW c, NEW n \in Nat
  PROVE  \E f : Reading(f, decls, c, n)
<1> DEFINE S == {k \in 0 .. n : \E f : Reading(f, decls, c, k)}
<1>1. 0 \in S
  <2>1. Reading([i \in 0 .. 0 |-> NoneRead], decls, c, 0)
    BY DEF Reading, ReadUpTo
  <2> QED BY <2>1
<1>2. ASSUME NEW k \in 1 .. n, k - 1 \in S
      PROVE  k \in S
  <2>1. PICK f : Reading(f, decls, c, k - 1)
    BY <1>2
  <2> DEFINE g == [i \in 0 .. k |-> IF i = k THEN ReadUpTo(k, f[k - 1], decls, c) ELSE f[i]]
  <2>2. ASSUME NEW i \in 0 .. k
        PROVE  g[i] = ReadUpTo(i, g[i - 1], decls, c)
    <3>1. CASE i = k
      <4>1. g[i] = ReadUpTo(k, f[k - 1], decls, c) /\ g[i - 1] = f[k - 1]
        BY <3>1
      <4> QED BY <3>1, <4>1
    <3>2. CASE i = 0
      <4>1. g[0] = f[0] /\ f[0] = ReadUpTo(0, f[0 - 1], decls, c)
        BY <2>1 DEF Reading
      <4>2. \A x : ReadUpTo(0, x, decls, c) = NoneRead
        BY DEF ReadUpTo
      <4> QED BY <3>2, <4>1, <4>2
    <3>3. CASE i # k /\ i # 0
      <4>1. i \in 0 .. k - 1 /\ i - 1 \in 0 .. k /\ i - 1 # k
        BY <3>3
      <4>2. g[i] = f[i] /\ g[i - 1] = f[i - 1]
        BY <3>3, <4>1
      <4>3. f[i] = ReadUpTo(i, f[i - 1], decls, c)
        BY <2>1, <4>1 DEF Reading
      <4> QED BY <4>2, <4>3
    <3> QED BY <3>1, <3>2, <3>3
  <2>3. g = [i \in 0 .. k |-> g[i]]
    OBVIOUS
  <2> HIDE DEF g
  <2>4. Reading(g, decls, c, k)
    BY <2>2, <2>3 DEF Reading
  <2> QED BY <2>4
<1> HIDE DEF S
<1>3. n \in S
  BY <1>1, <1>2, Induction
<1> QED BY <1>3 DEF S

\* A declaration that counts for nothing.
PassedOver(name) == name \in {"", "$ion"}

\* The version a declaration asks for.
Version(decl) == IF decl.version < 1 THEN 1 ELSE decl.version

\* The imports of a table, behind the system table.
Full(imports) == <<V1System>> \o imports

\* The first import of a full list is the system table, and the others follow.
LEMMA FullImports ==
  ASSUME NEW imports, AreImports(imports), NEW n, n = Len(imports)
  PROVE  /\ n \in Nat /\ AreImports(Full(imports)) /\ Len(Full(imports)) = n + 1
         /\ Full(imports)[1] = V1System
         /\ \A i \in 1 .. n : Full(imports)[i + 1] = imports[i]
<1>1. AreImports(<<V1System>>) /\ Len(<<V1System>>) = 1
  BY V1SystemIsShared, FewImports
<1>2. n \in Nat /\ AreImports(Full(imports)) /\ Len(Full(imports)) = n + 1
  BY <1>1, ImportsConcat DEF Full
<1>3. IsStack(<<V1System>>) /\ IsStack(imports) /\ <<V1System>>[1] = V1System
  BY <1>1 DEF AreImports
<1>4. \A i \in 1 .. 1 + n : Full(imports)[i] = IF i <= 1 THEN <<V1System>>[i] ELSE imports[i - 1]
  BY <1>1, <1>3, StackConcat DEF Full
<1>5. Full(imports)[1] = V1System
  BY <1>2, <1>3, <1>4
<1>6. ASSUME NEW i \in 1 .. n
      PROVE  Full(imports)[i + 1] = imports[i]
  <2>1. i + 1 \in 1 .. 1 + n /\ ~(i + 1 <= 1) /\ i + 1 - 1 = i
    BY <1>2
  <2> QED BY <1>4, <2>1
<1> QED BY <1>2, <1>5, <1>6

\* ReadImports is the last of its steps.
LEMMA ReadImportsIs ==
  ASSUME NEW decls, NEW n \in Nat, n = Len(decls), NEW c
  PROVE  \E f : Reading(f, decls, c, n) /\ ReadImports(decls, c) = f[n]
<1> DEFINE f == CHOOSE g : Reading(g, decls, c, n)
<1>1. Reading(f, decls, c, n)
  BY ReadingExists
<1>2. ReadImports(decls, c) = f[n]
  BY DEF ReadImports, Reading, ReadUpTo, OneMoreRead, NoneRead
<1> HIDE DEF f
<1> QED BY <1>1, <1>2

\* The declarations of a table on the wire.
AreDecls(decls) == Len(decls) \in Nat /\ \A i \in 1 .. Len(decls) : IsDecl(decls[i])

\* So the imports that are read make a table, and none is refused that declares
\* its max_id.
LEMMA ImportsAreRead ==
  ASSUME NEW decls, AreDecls(decls), NEW c, IsCatalog(c), NEW r, r = ReadImports(decls, c)
  PROVE  /\ r.err = "nil" => AreImports(r.imps)
         /\ (\A i \in 1 .. Len(decls) : decls[i].maxID \in Nat) => r.err = "nil"
<1>1. PICK n \in Nat : n = Len(decls)
  BY DEF AreDecls
<1> DEFINE f == CHOOSE g : Reading(g, decls, c, n)
           Promised == \A i \in 1 .. n : decls[i].maxID \in Nat
<1>2. Reading(f, decls, c, n)
  BY ReadingExists
<1>3. r = f[n]
  BY <1>1 DEF ReadImports, Reading, ReadUpTo, OneMoreRead, NoneRead
<1> HIDE DEF f, Promised
<1> DEFINE S == {k \in 0 .. n : /\ f[k].err = "nil" => AreImports(f[k].imps)
                                /\ Promised => f[k].err = "nil"}
<1>4. 0 \in S
  <2>1. f[0] = NoneRead
    BY <1>2 DEF Reading, ReadUpTo
  <2> QED BY <2>1, FewImports DEF NoneRead
<1>5. ASSUME NEW k \in 1 .. n, k - 1 \in S
      PROVE  k \in S
  <2> DEFINE x == f[k - 1]
             o == ReadImport(decls[k], c)
  <2>1. f[k] = ReadUpTo(k, x, decls, c) /\ k # 0
    BY <1>2 DEF Reading
  <2>2. (x.err = "nil" => AreImports(x.imps)) /\ (Promised => x.err = "nil")
    BY <1>5
  <2>3. /\ o.err = "nil" => AreImports(o.imps)
        /\ Promised => o.err = "nil"
    <3>1. IsDecl(decls[k]) /\ (Promised => decls[k].maxID \in Nat)
      BY <1>1 DEF AreDecls, Promised
    <3> HIDE DEF o
    <3>2. /\ o.err = "nil" => AreImports(o.imps)
          /\ decls[k].maxID \in Nat => o.err = "nil"
      BY <3>1, ImportIsRead DEF o
    <3> QED BY <3>1, <3>2
  <2>4. f[k] = IF x.err # "nil" THEN x ELSE OneMoreRead(x, o)
    BY <2>1 DEF ReadUpTo
  <2> HIDE DEF x, o
  <2>5. CASE x.err # "nil"
    BY <2>2, <2>4, <2>5
  <2>6. CASE x.err = "nil"
    <3> DEFINE both == x.imps \o o.imps
    <3>1. o.err = "nil" => AreImports(both)
      BY <2>2, <2>3, <2>6, ImportsConcat
    <3>2. OneMoreRead(x, o) = [err |-> o.err, imps |-> both]
      BY Zenon DEF OneMoreRead
    <3> HIDE DEF both
    <3>3. f[k] = OneMoreRead(x, o)
      BY <2>4, <2>6
    <3>4. f[k].err = o.err /\ f[k].imps = both
      BY <3>2, <3>3
    <3> QED BY <2>3, <3>1, <3>4
  <2> QED BY <2>5, <2>6
<1> HIDE DEF S
<1>6. n \in S
  <2>1. \A k \in 0 .. n : k \in S
    BY <1>4, <1>5, Induction
  <2> QED BY <2>1
<1> QED BY <1>1, <1>3, <1>6 DEF S, Promised

\* A table on the wire, by this library or another.
IsWire(wire) ==
  \/ wire.kind = "absent"
  \/ wire.kind = "append" /\ wire.symbols \in Seq(Text)
  \/ wire.kind = "table" /\ wire.symbols \in Seq(Text) /\ AreDecls(wire.imports)

\* All its imports, if it has any, declare their max_id.
Declares(wire) ==
  wire.kind = "table" => \A i \in 1 .. Len(wire.imports) : wire.imports[i].maxID \in Nat

\* WriteTo declares the max_id of every import it writes.
LEMMA WrittenDeclares ==
  ASSUME NEW tbl, IsTable(tbl), NEW wire, wire = WriteTo(tbl)
  PROVE  IsWire(wire) /\ wire.kind \in {"absent", "table"} /\ Declares(wire)
<1>1. CASE Len(tbl.imports) = 1 /\ tbl.symbols = << >>
  <2>1. wire = [kind |-> "absent"]
    BY <1>1, Zenon DEF WriteTo
  <2> QED BY <2>1 DEF IsWire, Declares
<1>2. CASE ~(Len(tbl.imports) = 1 /\ tbl.symbols = << >>)
  <2>1. PICK n \in Nat \ {0} : n = Len(tbl.imports)
    BY TableLayout
  <2> DEFINE m     == n - 1
             decl  == [i \in 1 .. m |-> [name    |-> tbl.imports[i + 1].name,
                                         version |-> tbl.imports[i + 1].version,
                                         maxID   |-> tbl.imports[i + 1].maxID]]
  <2>2. wire = [kind |-> "table", imports |-> decl, symbols |-> tbl.symbols]
    BY <1>2, <2>1, Zenon DEF WriteTo
  <2>3. \A i \in 1 .. m : decl[i].maxID \in Nat
    <3>1. ASSUME NEW i \in 1 .. m
          PROVE  decl[i].maxID \in Nat
      <4>1. decl[i].maxID = tbl.imports[i + 1].maxID
        OBVIOUS
      <4>2. i + 1 \in 1 .. n
        OBVIOUS
      <4>3. IsShared(tbl.imports[i + 1])
        BY <2>1, <4>2 DEF IsTable, AreImports
      <4> QED BY <4>1, <4>3 DEF IsShared
    <3> QED BY <3>1
  <2>4. Len(decl) = m /\ m \in Nat
    <3>1. DOMAIN decl = 1 .. m /\ m \in Nat
      OBVIOUS
    <3>2. decl \in Seq({decl[i] : i \in 1 .. m})
      <4>1. decl \in [1 .. m -> {decl[i] : i \in 1 .. m}]
        OBVIOUS
      <4> HIDE DEF decl, m
      <4> QED BY <3>1, <4>1, SeqDef
    <3> HIDE DEF decl, m
    <3> QED BY <3>1, <3>2, LenProperties
  <2> HIDE DEF decl, m
  <2>5. wire.kind = "table" /\ wire.imports = decl /\ wire.symbols = tbl.symbols
    BY <2>2
  <2>6. tbl.symbols \in Seq(Text)
    BY DEF IsTable
  <2>7. AreDecls(decl)
    BY <2>3, <2>4 DEF AreDecls, IsDecl
  <2> QED BY <2>3, <2>4, <2>5, <2>6, <2>7 DEF IsWire, Declares
<1> QED BY <1>1, <1>2

\* The table in force, as imports of the next one.
LEMMA AppendedAreImports ==
  ASSUME NEW cur, IsTable(cur)
  PROVE  AreImports(AppendImports(cur))
<1>1. cur.symbols \in Seq(Text) /\ AreImports(cur.imports)
  BY DEF IsTable
<1>2. IsShared(SharedTable("", 0, cur.symbols))
  BY <1>1, SharedTableIsShared
<1>3. AreImports(<<SharedTable("", 0, cur.symbols)>>)
  BY <1>2, FewImports, Zenon
<1>4. AreImports(cur.imports \o <<SharedTable("", 0, cur.symbols)>>)
  BY <1>1, <1>3, ImportsConcat, Zenon
<1> QED BY <1>4, FewImports, Zenon DEF AppendImports

\* Whatever is read, the reader is left with a table, and refuses none whose imports
\* all declare their max_id.
LEMMA TableIsRead ==
  ASSUME NEW wire, IsWire(wire), NEW cur, IsTable(cur), NEW c, IsCatalog(c),
         NEW r, r = ReadLocalTable(wire, cur, c)
  PROVE  IsTable(r.tbl) /\ (Declares(wire) => r.err = "nil")
<1>1. CASE wire.kind = "absent"
  <2>1. r = [err |-> "nil", tbl |-> cur]
    BY <1>1 DEF ReadLocalTable
  <2> QED BY <2>1
<1>2. CASE wire.kind = "append" /\ wire.symbols \in Seq(Text)
  <2>1. r = [err |-> "nil", tbl |-> NewLocalTable(AppendImports(cur), wire.symbols)]
    BY <1>2 DEF ReadLocalTable
  <2>2. IsTable(NewLocalTable(AppendImports(cur), wire.symbols))
    BY <1>2, AppendedAreImports, NewLocalTableIsTable
  <2> QED BY <2>1, <2>2
<1>3. CASE wire.kind = "table" /\ wire.symbols \in Seq(Text) /\ AreDecls(wire.imports)
  <2> DEFINE o == ReadImports(wire.imports, c)
  <2>1. r = IF o.err # "nil" THEN [err |-> o.err, tbl |-> cur]
            ELSE [err |-> "nil", tbl |-> NewLocalTable(o.imps, wire.symbols)]
    BY <1>3 DEF ReadLocalTable
  <2>2. /\ o.err = "nil" => AreImports(o.imps)
        /\ Declares(wire) => o.err = "nil"
    <3> HIDE DEF o
    <3>1. /\ o.err = "nil" => AreImports(o.imps)
          /\ (\A i \in 1 .. Len(wire.imports) : wire.imports[i].maxID \in Nat) => o.err = "nil"
      BY <1>3, ImportsAreRead DEF o
    <3> QED BY <1>3, <3>1 DEF Declares
  <2> HIDE DEF o
  <2>3. CASE o.err # "nil"
    BY <2>1, <2>2, <2>3
  <2>4. CASE o.err = "nil"
    <3>1. IsTable(NewLocalTable(o.imps, wire.symbols))
      BY <1>3, <2>2, <2>4, NewLocalTableIsTable
    <3> QED BY <2>1, <2>4, <3>1
  <2> QED BY <2>3, <2>4
<1> QED BY <1>1, <1>2, <1>3 DEF IsWire
=============================================================================
