---------------------------- MODULE DecodeProofs ----------------------------
(***************************************************************************)
(* What a reader makes of the atoms that the binary writer writes.         *)
(*                                                                         *)
(* Decode is a walk.  Its state is read as what it was told so far, the    *)
(* table in force and the extents that are open (At).  Reads(t, A, E,      *)
(* way) says that the atoms A tell a reader who knows the texts of the     *)
(* table t the events E, behind any events and inside any extents with     *)
(* the room for them; where A ends, a value does ("whole"), or a name or   *)
(* annotations wait for one ("pending").  It is shown of every kind of     *)
(* atom, of two runs of them in a row, and of a container or a wrapper     *)
(* around them: what closes when the last byte of an extent is used up is  *)
(* what was begun.                                                         *)
(*                                                                         *)
(* Whatever the atoms, a walk only adds to its events, so what is whole    *)
(* of a torn output is read as the beginning of what was to be written.    *)
(*                                                                         *)
(* A table that is written is read back with the same ids, and a           *)
(* builder's table grows without changing a text, so what reads as some    *)
(* events does so through every later table.                               *)
(***************************************************************************)
EXTENDS WriterMeaning, BinaryWriterProofs, SymbolTableProofs

(***************************************************************************)
(* The walk over the atoms.                                                *)
(***************************************************************************)
\* f[i] is where the walk from d is after i atoms.
Walks(f, d, atoms, n) == f = [i \in 0 .. n |-> IF i = 0 THEN d ELSE Step(f[i - 1], atoms[i])]

\* The walk from d to the end of the atoms.
Walk(d, atoms) == (CHOOSE f : Walks(f, d, atoms, Len(atoms)))[Len(atoms)]

\* Step by step.
Runs(f, d, atoms, n) == f[0] = d /\ \A i \in 1 .. n : f[i] = Step(f[i - 1], atoms[i])

\* There is such a walk.
LEMMA WalkExists ==
  ASSUME NEW d, NEW atoms, NEW n \in Nat
  PROVE  \E f : Walks(f, d, atoms, n)
<1> DEFINE S == {k \in 0 .. n : \E f : Walks(f, d, atoms, k)}
<1>1. 0 \in S
  <2>1. Walks([i \in 0 .. 0 |-> d], d, atoms, 0)
    BY DEF Walks
  <2> QED BY <2>1
<1>2. ASSUME NEW k \in 1 .. n, k - 1 \in S
      PROVE  k \in S
  <2>1. PICK f : Walks(f, d, atoms, k - 1)
    BY <1>2
  <2> DEFINE g == [i \in 0 .. k |-> IF i = k THEN Step(f[k - 1], atoms[k]) ELSE f[i]]
  <2>2. ASSUME NEW i \in 0 .. k
        PROVE  g[i] = IF i = 0 THEN d ELSE Step(g[i - 1], atoms[i])
    <3>1. CASE i = k
      <4>1. g[i] = Step(f[k - 1], atoms[k]) /\ g[i - 1] = f[k - 1]
        BY <3>1
      <4> QED BY <3>1, <4>1
    <3>2. CASE i = 0
      BY <2>1, <3>2 DEF Walks
    <3>3. CASE i # k /\ i # 0
      <4>1. i \in 0 .. k - 1 /\ i - 1 \in 0 .. k /\ i - 1 # k
        BY <3>3
      <4>2. g[i] = f[i] /\ g[i - 1] = f[i - 1]
        BY <3>3, <4>1
      <4>3. f[i] = IF i = 0 THEN d ELSE Step(f[i - 1], atoms[i])
        BY <2>1, <4>1 DEF Walks
      <4> QED BY <4>2, <4>3
    <3> QED BY <3>1, <3>2, <3>3
  <2>3. g = [i \in 0 .. k |-> g[i]]
    OBVIOUS
  <2> HIDE DEF g
  <2>4. Walks(g, d, atoms, k)
    BY <2>2, <2>3 DEF Walks
  <2> QED BY <2>4
<1> HIDE DEF S
<1>3. n \in S
  BY <1>1, <1>2, Induction
<1> QED BY <1>3 DEF S

\* The walk is made step by step,
LEMMA WalkRuns ==
  ASSUME NEW d, NEW atoms, NEW n \in Nat, n = Len(atoms)
  PROVE  \E f : Runs(f, d, atoms, n) /\ Walk(d, atoms) = f[n]
<1> DEFINE f == CHOOSE g : Walks(g, d, atoms, n)
<1>1. Walks(f, d, atoms, n)
  BY WalkExists
<1>2. Walk(d, atoms) = f[n]
  BY DEF Walk
<1> HIDE DEF f
<1>3. Runs(f, d, atoms, n)
  BY <1>1 DEF Walks, Runs
<1> QED BY <1>2, <1>3

\* and in one way only.
LEMMA WalkIsOne ==
  ASSUME NEW d, NEW atoms, NEW n \in Nat, n = Len(atoms), NEW g, Runs(g, d, atoms, n)
  PROVE  Walk(d, atoms) = g[n]
<1>1. PICK f : Runs(f, d, atoms, n) /\ Walk(d, atoms) = f[n]
  BY WalkRuns
<1> DEFINE S == {k \in 0 .. n : f[k] = g[k]}
<1>2. 0 \in S
  BY <1>1 DEF Runs
<1>3. ASSUME NEW k \in 1 .. n, k - 1 \in S
      PROVE  k \in S
  BY <1>1, <1>3 DEF Runs
<1> HIDE DEF S
<1>4. \A k \in 0 .. n : k \in S
  BY <1>2, <1>3, Induction
<1> QED BY <1>1, <1>4 DEF S

\* Decode walks from the start.
LEMMA DecodeIsWalk ==
  ASSUME NEW out
  PROVE  Decode(out) = Walk(Start, out)
BY DEF Decode, Walk, Walks

\* A walk over no atoms, over one, and over two sequences in a row.
LEMMA WalkNone ==
  ASSUME NEW d, NEW atoms, Len(atoms) = 0
  PROVE  Walk(d, atoms) = d
<1>1. PICK f : Runs(f, d, atoms, 0) /\ Walk(d, atoms) = f[0]
  BY WalkRuns
<1> QED BY <1>1 DEF Runs

\* A walk over one atom is a step,
LEMMA WalkOne ==
  ASSUME NEW d, NEW a
  PROVE  Walk(d, <<a>>) = Step(d, a)
<1> DEFINE one == <<a>>
<1>1. Len(one) = 1 /\ one[1] = a
  OBVIOUS
<1> HIDE DEF one
<1>2. PICK f : Runs(f, d, one, 1) /\ Walk(d, one) = f[1]
  BY <1>1, WalkRuns
<1>3. f[0] = d /\ f[1] = Step(f[1 - 1], one[1])
  BY <1>2 DEF Runs
<1> QED BY <1>1, <1>2, <1>3 DEF one

\* and a walk over two sequences in a row goes on with the second.
LEMMA WalkConcat ==
  ASSUME NEW d, NEW a, NEW b, IsStack(a), IsStack(b)
  PROVE  Walk(d, a \o b) = Walk(Walk(d, a), b)
<1>1. PICK m \in Nat : m = Len(a)
  BY StackLen
<1>2. PICK k \in Nat : k = Len(b)
  BY StackLen
<1> DEFINE c == a \o b
<1>3. /\ Len(c) = m + k /\ m + k \in Nat
      /\ \A i \in 1 .. m + k : c[i] = IF i <= m THEN a[i] ELSE b[i - m]
  BY <1>1, <1>2, StackConcat
<1> HIDE DEF c
<1>4. PICK f : Runs(f, d, c, m + k) /\ Walk(d, c) = f[m + k]
  BY <1>3, WalkRuns
<1>5. Walk(d, a) = f[m]
  <2>1. \A i \in 1 .. m : f[i] = Step(f[i - 1], a[i])
    BY <1>3, <1>4 DEF Runs
  <2>2. Runs(f, d, a, m)
    BY <1>4, <2>1 DEF Runs
  <2> QED BY <1>1, <2>2, WalkIsOne
<1> DEFINE g == [i \in 0 .. k |-> f[m + i]]
<1>6. Runs(g, f[m], b, k)
  <2>1. ASSUME NEW i \in 1 .. k
        PROVE  g[i] = Step(g[i - 1], b[i])
    <3>1. g[i] = f[m + i] /\ g[i - 1] = f[m + (i - 1)]
      OBVIOUS
    <3>2. PICK j \in 1 .. m + k : j = m + i /\ j - 1 = m + (i - 1) /\ j - m = i /\ ~(j <= m)
      OBVIOUS
    <3>3. f[j] = Step(f[j - 1], c[j])
      BY <1>4 DEF Runs
    <3> QED BY <1>3, <3>1, <3>2, <3>3
  <2>2. g[0] = f[m]
    OBVIOUS
  <2> QED BY <2>1, <2>2 DEF Runs
<1>7. g[k] = f[m + k]
  OBVIOUS
<1> HIDE DEF g
<1>8. Walk(f[m], b) = g[k]
  BY <1>2, <1>6, WalkIsOne
<1> QED BY <1>4, <1>5, <1>7, <1>8 DEF c
-----------------------------------------------------------------------------
(***************************************************************************)
(* The reader between two atoms.                                           *)
(***************************************************************************)
Extents == [wrapper : BOOLEAN, left : Nat]

\* All was well formed so far.
At(ev, tbl, open) == [events |-> ev, tbl |-> tbl, open |-> open, ok |-> TRUE]

\* There are n bytes left of the innermost extent, and some are.
Room(open, n) == open = << >> \/ open[Len(open)].left >= n
Clean(open)   == open = << >> \/ open[Len(open)].left > 0

\* n of them are used up.
Spend(open, n) == IF open = << >> THEN open ELSE [open EXCEPT ![Len(open)].left = @ - n]

\* The extents of a pushed list.
LEMMA ExtentsAre ==
  ASSUME NEW open \in Seq(Extents)
  PROVE  /\ IsStack(open) /\ Len(open) \in Nat
         /\ open # << >> <=> Len(open) > 0
         /\ \A i \in 1 .. Len(open) :
              /\ open[i] = Extent(open[i].wrapper, open[i].left)
              /\ open[i].left \in Nat /\ open[i].wrapper \in BOOLEAN
              /\ open[i] \in Extents
<1>1. IsStack(open)
  BY DEF IsStack
<1>2. \A i \in 1 .. Len(open) : open[i] \in Extents
  BY ElementOfSeq
<1>3. \A x \in Extents : x = Extent(x.wrapper, x.left) /\ x.left \in Nat /\ x.wrapper \in BOOLEAN
  BY DEF Extents, Extent
<1> QED BY <1>1, <1>2, <1>3, StackLen

\* What is left when n bytes are spent.
LEMMA SpendIs ==
  ASSUME NEW open \in Seq(Extents), NEW n \in Nat, Room(open, n)
  PROVE  /\ Spend(open, n) \in Seq(Extents) /\ Len(Spend(open, n)) = Len(open)
         /\ \A i \in 1 .. Len(open) :
              Spend(open, n)[i] = IF i = Len(open) THEN Extent(open[i].wrapper, open[i].left - n)
                                  ELSE open[i]
<1>1. PICK k \in Nat : k = Len(open)
  BY ExtentsAre
<1>2. CASE open = << >>
  <2>1. k = 0
    BY <1>1, <1>2, ExtentsAre
  <2> QED BY <1>1, <1>2, <2>1 DEF Spend
<1>3. CASE open # << >>
  <2>1. k \in 1 .. k
    BY <1>1, <1>3, ExtentsAre
  <2>2. /\ open[k] = Extent(open[k].wrapper, open[k].left)
        /\ open[k].left \in Nat /\ open[k].wrapper \in BOOLEAN
    BY <1>1, <2>1, ExtentsAre
  <2> DEFINE x == Extent(open[k].wrapper, open[k].left - n)
             s == [open EXCEPT ![k] = x]
  <2>3. open[k].left - n \in Nat
    BY <1>1, <1>3, <2>2 DEF Room
  <2>4. x \in Extents
    BY <2>2, <2>3 DEF Extents, Extent
  <2>5. Spend(open, n) = [open EXCEPT ![k] = [open[k] EXCEPT !.left = open[k].left - n]]
    BY <1>1, <1>3 DEF Spend
  <2>6. [open[k] EXCEPT !.left = open[k].left - n] = x
    BY <2>2 DEF Extent
  <2>7. Spend(open, n) = s
    BY <2>5, <2>6
  <2> HIDE DEF x
  <2>8. s \in Seq(Extents) /\ Len(s) = k /\ \A i \in 1 .. k : s[i] = IF i = k THEN x ELSE open[i]
    BY <1>1, <2>1, <2>4, ExceptSeq
  <2> HIDE DEF s
  <2> QED BY <1>1, <2>7, <2>8 DEF x
<1> QED BY <1>2, <1>3

\* Two sequences are the same if they are in all their members.
LEMMA SameStacks ==
  ASSUME NEW a, NEW b, IsStack(a), IsStack(b), Len(a) = Len(b),
         \A i \in 1 .. Len(a) : a[i] = b[i]
  PROVE  a = b
BY SeqEqual, SeqMonotonic DEF IsStack

\* Bytes may be spent one after the other.
LEMMA SpendTwice ==
  ASSUME NEW open \in Seq(Extents), NEW m \in Nat, NEW n \in Nat, Room(open, m + n)
  PROVE  /\ Room(open, m) /\ Room(Spend(open, m), n)
         /\ Spend(Spend(open, m), n) = Spend(open, m + n)
         /\ n > 0 => Clean(Spend(open, m))
<1>1. PICK k \in Nat : k = Len(open)
  BY ExtentsAre
<1>2. CASE open = << >>
  BY <1>2 DEF Spend, Room, Clean
<1>3. CASE open # << >>
  <2>1. k \in 1 .. k
    BY <1>1, <1>3, ExtentsAre
  <2>2. PICK l \in Nat : l = open[k].left
    BY <1>1, <2>1, ExtentsAre
  <2>3. l >= m + n
    BY <1>1, <1>3, <2>2 DEF Room
  <2>4. Room(open, m)
    BY <1>1, <2>2, <2>3 DEF Room
  <2> DEFINE s == Spend(open, m)
             q == Spend(s, n)
             r == Spend(open, m + n)
  <2>5. /\ s \in Seq(Extents) /\ Len(s) = k
        /\ \A i \in 1 .. k : s[i] = IF i = k THEN Extent(open[i].wrapper, open[i].left - m) ELSE open[i]
    BY <1>1, <2>4, SpendIs
  <2>6. /\ r \in Seq(Extents) /\ Len(r) = k
        /\ \A i \in 1 .. k : r[i] = IF i = k THEN Extent(open[i].wrapper, open[i].left - (m + n)) ELSE open[i]
    BY <1>1, SpendIs
  <2> HIDE DEF s, r
  <2>7. s[k] = Extent(open[k].wrapper, l - m)
    BY <2>1, <2>2, <2>5
  <2>8. s[k].left = l - m /\ s[k].wrapper = open[k].wrapper
    BY <2>7 DEF Extent
  <2>9. Room(s, n) /\ (n > 0 => Clean(s))
    BY <2>3, <2>5, <2>8 DEF Room, Clean
  <2>10. /\ q \in Seq(Extents) /\ Len(q) = k
         /\ \A i \in 1 .. k : q[i] = IF i = k THEN Extent(s[i].wrapper, s[i].left - n) ELSE s[i]
    BY <2>5, <2>9, SpendIs
  <2> HIDE DEF q
  <2>11. \A i \in 1 .. k : q[i] = r[i]
    <3>1. ASSUME NEW i \in 1 .. k
          PROVE  q[i] = r[i]
      <4>1. CASE i = k
        <5>1. q[i] = Extent(open[k].wrapper, l - m - n)
          BY <2>8, <2>10, <4>1
        <5>2. r[i] = Extent(open[k].wrapper, l - (m + n))
          BY <2>2, <2>6, <4>1
        <5>3. l - m - n = l - (m + n)
          OBVIOUS
        <5> QED BY <5>1, <5>2, <5>3
      <4>2. CASE i # k
        BY <2>5, <2>6, <2>10, <4>2
      <4> QED BY <4>1, <4>2
    <3> QED BY <3>1
  <2>12. q = r
    BY <2>6, <2>10, <2>11, SameStacks DEF IsStack
  <2> QED BY <2>4, <2>9, <2>12 DEF q, r, s
<1> QED BY <1>2, <1>3

\* The extents of a reader replaced, and its verdict.
Put(d, open, ok) == [d EXCEPT !.open = open, !.ok = ok]

\* The walk with other extents.
LEMMA OpenReplaced ==
  ASSUME NEW ev, NEW tbl, NEW open, NEW yes, NEW s, NEW q,
         NEW d, d = [events |-> ev, tbl |-> tbl, open |-> open, ok |-> yes]
  PROVE  Put(d, s, q) = [events |-> ev, tbl |-> tbl, open |-> s, ok |-> q]
<1> DEFINE u == [events |-> ev, tbl |-> tbl, open |-> s, ok |-> yes]
<1>1. [d EXCEPT !.open = s] = u
  OBVIOUS
<1>2. [u EXCEPT !.ok = q] = [events |-> ev, tbl |-> tbl, open |-> s, ok |-> q]
  OBVIOUS
<1>3. [d EXCEPT !.open = s, !.ok = q] = [[d EXCEPT !.open = s] EXCEPT !.ok = q]
  BY Zenon
<1> QED BY <1>1, <1>2, <1>3, Zenon DEF Put

\* Using bytes up that are there.
LEMMA UseIs ==
  ASSUME NEW ev, NEW tbl, NEW open \in Seq(Extents), NEW n \in Nat, Room(open, n)
  PROVE  Use(At(ev, tbl, open), n) = At(ev, tbl, Spend(open, n))
<1> DEFINE yes == TRUE
           d   == [events |-> ev, tbl |-> tbl, open |-> open, ok |-> yes]
<1>0. d = At(ev, tbl, open)
  BY DEF At
<1>1. CASE open = << >>
  BY <1>1 DEF Use, Spend, At
<1>2. CASE open # << >>
  <2> DEFINE s   == [open EXCEPT ![Len(open)].left = @ - n]
             fit == n <= Top(open).left
             end == (yes /\ fit)
  <2>1. Use(d, n) = Put(d, s, end)
    BY <1>2 DEF Use, Put
  <2>2. fit
    BY <1>2, ExtentsAre DEF Room, Top
  <2>3. end = yes
    BY <2>2
  <2>4. s = Spend(open, n)
    BY <1>2 DEF Spend
  <2> HIDE DEF s, fit, yes
  <2>5. Put(d, s, end) = [events |-> ev, tbl |-> tbl, open |-> s, ok |-> end]
    <3> HIDE DEF end
    <3>1. d = [events |-> ev, tbl |-> tbl, open |-> open, ok |-> yes]
      OBVIOUS
    <3> HIDE DEF d
    <3> QED BY <3>1, OpenReplaced
  <2> HIDE DEF d, end
  <2>6. Use(d, n) = [events |-> ev, tbl |-> tbl, open |-> s, ok |-> yes]
    BY <2>1, <2>3, <2>5
  <2>7. At(ev, tbl, s) = [events |-> ev, tbl |-> tbl, open |-> s, ok |-> yes]
    BY DEF At, yes
  <2> QED BY <1>0, <2>4, <2>6, <2>7
<1> QED BY <1>1, <1>2

\* Telling an event.
LEMMA TellIs ==
  ASSUME NEW ev, NEW tbl, NEW open, NEW e
  PROVE  Tell(At(ev, tbl, open), e) = At(Append(ev, e), tbl, open)
<1> DEFINE yes == TRUE
           more == Append(ev, e)
<1>1. At(ev, tbl, open) = [events |-> ev, tbl |-> tbl, open |-> open, ok |-> yes]
  BY DEF At
<1>2. At(more, tbl, open) = [events |-> more, tbl |-> tbl, open |-> open, ok |-> yes]
  BY DEF At
<1> HIDE DEF yes
<1>3. Tell(At(ev, tbl, open), e) = [[events |-> ev, tbl |-> tbl, open |-> open, ok |-> yes] EXCEPT !.events = more]
  BY <1>1 DEF Tell
<1> HIDE DEF more
<1>4. Tell(At(ev, tbl, open), e) = [events |-> more, tbl |-> tbl, open |-> open, ok |-> yes]
  BY <1>3
<1> QED BY <1>2, <1>4 DEF more
-----------------------------------------------------------------------------
(***************************************************************************)
(* The extents that are over.                                              *)
(***************************************************************************)
Filled(open) == {0} \cup {i \in 1 .. Len(open) : open[i].left > 0}
Keep(open)   == MaxOf(Filled(open))
Over(open)   == {i \in Keep(open) + 1 .. Len(open) : ~open[i].wrapper}
Ends(n)      == [i \in 1 .. n |-> [e |-> "end"]]

\* A set of numbers has a greatest member if none is above a bound.
LEMMA GreatestIs ==
  ASSUME NEW n \in Nat, NEW S \in SUBSET (0 .. n), S # {}
  PROVE  MaxOf(S) \in S /\ \A y \in S : y <= MaxOf(S)
<1> DEFINE T == {n - i : i \in S}
<1>1. T \in SUBSET Nat
  <2>1. \A i \in 0 .. n : n - i \in Nat
    OBVIOUS
  <2> QED BY <2>1
<1>2. T # {}
  OBVIOUS
<1>3. PICK x \in T : \A y \in T : ~(y < x)
  <2> HIDE DEF T
  <2> QED BY <1>1, <1>2, Least
<1>4. PICK k \in S : x = n - k
  OBVIOUS
<1>5. ASSUME NEW y \in S
      PROVE  y <= k
  <2>1. n - y \in T
    OBVIOUS
  <2>2. ~(n - y < n - k)
    BY <1>3, <1>4, <2>1
  <2>3. y \in 0 .. n /\ k \in 0 .. n
    OBVIOUS
  <2> QED BY <2>2, <2>3
<1> HIDE DEF T
<1>6. S \in SUBSET Nat
  OBVIOUS
<1>7. MaxOf(S) = k
  BY <1>5, <1>6, MaxIs
<1> QED BY <1>5, <1>7

\* The extents that are kept are counted, and so are those that are over.
LEMMA KeepIs ==
  ASSUME NEW open \in Seq(Extents)
  PROVE  /\ Keep(open) \in 0 .. Len(open)
         /\ IsFiniteSet(Over(open)) /\ Cardinality(Over(open)) \in Nat
<1>1. PICK n \in Nat : n = Len(open)
  BY ExtentsAre
<1>2. Filled(open) \in SUBSET (0 .. n) /\ Filled(open) # {}
  BY <1>1 DEF Filled
<1>3. Keep(open) \in 0 .. n
  <2>1. Keep(open) \in Filled(open)
    BY <1>2, GreatestIs DEF Keep
  <2> QED BY <1>2, <2>1
<1>4. IsFiniteSet(Keep(open) + 1 .. n)
  BY <1>3, FS_Interval
<1>5. Over(open) \in SUBSET (Keep(open) + 1 .. n)
  BY <1>1 DEF Over
<1> QED BY <1>1, <1>3, <1>4, <1>5, FS_Subset, FS_CardinalityType

\* The extents and the events of a reader replaced.
Set(d, open, events) == [d EXCEPT !.open = open, !.events = events]

\* A walk with other extents and events.
LEMMA SetIs ==
  ASSUME NEW ev, NEW tbl, NEW open, NEW s, NEW more
  PROVE  Set(At(ev, tbl, open), s, more) = At(more, tbl, s)
<1> DEFINE yes == TRUE
           d   == [events |-> ev, tbl |-> tbl, open |-> open, ok |-> yes]
           u   == [events |-> ev, tbl |-> tbl, open |-> s, ok |-> yes]
<1>1. At(ev, tbl, open) = d /\ At(more, tbl, s) = [events |-> more, tbl |-> tbl, open |-> s, ok |-> yes]
  BY DEF At
<1>2. Set(d, s, more) = [[d EXCEPT !.open = s] EXCEPT !.events = more]
  BY Zenon DEF Set
<1> HIDE DEF yes
<1>3. [d EXCEPT !.open = s] = u
  OBVIOUS
<1>4. [u EXCEPT !.events = more] = [events |-> more, tbl |-> tbl, open |-> s, ok |-> yes]
  OBVIOUS
<1> HIDE DEF d, u
<1> QED BY <1>1, <1>2, <1>3, <1>4

\* Close, for a walk that found no fault.
LEMMA CloseIs ==
  ASSUME NEW ev, NEW tbl, NEW open
  PROVE  Close(At(ev, tbl, open))
           = At(ev \o Ends(Cardinality(Over(open))), tbl, SubSeq(open, 1, Keep(open)))
<1> DEFINE d == At(ev, tbl, open)
<1>1. d.open = open /\ d.events = ev
  BY DEF At
<1> HIDE DEF d
<1>2. Close(d) = Set(d, SubSeq(open, 1, Keep(open)), ev \o Ends(Cardinality(Over(open))))
  BY <1>1 DEF Close, Keep, Filled, Over, Ends, Set
<1>3. \A s, more : Set(d, s, more) = At(more, tbl, s)
  BY SetIs DEF d
<1>4. Close(d) = At(ev \o Ends(Cardinality(Over(open))), tbl, SubSeq(open, 1, Keep(open)))
  BY <1>2, <1>3, Zenon
<1> QED BY <1>4 DEF d

\* The ends of containers are a sequence.
LEMMA EndsAre ==
  ASSUME NEW n \in Nat
  PROVE  IsStack(Ends(n)) /\ Len(Ends(n)) = n /\ \A i \in 1 .. n : Ends(n)[i] = [e |-> "end"]
<1> DEFINE x == [e |-> "end"]
<1>1. Ends(n) = [i \in 1 .. n |-> x]
  BY DEF Ends
<1> HIDE DEF x
<1>2. [i \in 1 .. n |-> x] \in Seq({x}) /\ Len([i \in 1 .. n |-> x]) = n
  OBVIOUS
<1> QED BY <1>1, <1>2 DEF IsStack, x

\* No container ends.
LEMMA NoEnds == Ends(0) = << >>
<1>1. IsStack(Ends(0)) /\ Len(Ends(0)) = 0
  BY EndsAre
<1> QED BY <1>1, StackLen

\* Nothing is over while there are bytes left.
LEMMA CloseNothing ==
  ASSUME NEW ev, IsStack(ev), NEW tbl, NEW open \in Seq(Extents), Clean(open)
  PROVE  Close(At(ev, tbl, open)) = At(ev, tbl, open)
<1>1. PICK n \in Nat : n = Len(open)
  BY ExtentsAre
<1>2. n \in Filled(open) /\ \A y \in Filled(open) : y <= n
  <2>1. CASE open = << >>
    BY <1>1, <2>1, ExtentsAre DEF Filled
  <2>2. CASE open # << >>
    BY <1>1, <2>2, ExtentsAre DEF Filled, Clean
  <2> QED BY <2>1, <2>2
<1>3. Filled(open) \in SUBSET Nat
  BY <1>1 DEF Filled
<1>4. Keep(open) = n
  BY <1>2, <1>3, MaxIs DEF Keep
<1>5. Over(open) = {}
  BY <1>1, <1>4 DEF Over
<1>6. Cardinality(Over(open)) = 0
  BY <1>5, FS_EmptySet
<1>7. ev \o Ends(0) = ev
  BY NoEnds, ConcatNothing
<1>8. SubSeq(open, 1, n) = open
  <2>1. /\ SubSeq(open, 1, n) \in Seq(Extents) /\ Len(SubSeq(open, 1, n)) = n
        /\ \A i \in 1 .. n : SubSeq(open, 1, n)[i] = open[i]
    BY <1>1, ExtentsAre, StackPrefix
  <2> QED BY <1>1, <2>1, SameStacks DEF IsStack
<1>9. Close(At(ev, tbl, open))
           = At(ev \o Ends(Cardinality(Over(open))), tbl, SubSeq(open, 1, Keep(open)))
  BY CloseIs
<1> QED BY <1>4, <1>6, <1>7, <1>8, <1>9

\* The end that a reader sees of an extent.
EndOf(wrapper) == IF wrapper THEN << >> ELSE <<[e |-> "end"]>>

\* One container more ends first.
LEMMA OneEndMore ==
  ASSUME NEW c \in Nat
  PROVE  Ends(c + 1) = <<[e |-> "end"]>> \o Ends(c)
<1> DEFINE e   == [e |-> "end"]
           one == <<e>>
           x   == Ends(c + 1)
           y   == one \o Ends(c)
<1>1. IsStack(one) /\ Len(one) = 1 /\ one[1] = e
  BY Tuples
<1> HIDE DEF one
<1>2. IsStack(Ends(c)) /\ Len(Ends(c)) = c /\ \A i \in 1 .. c : Ends(c)[i] = e
  BY EndsAre
<1>3. IsStack(x) /\ Len(x) = c + 1 /\ \A i \in 1 .. c + 1 : x[i] = e
  BY EndsAre
<1> HIDE DEF e
<1>4. /\ IsStack(y) /\ Len(y) = 1 + c
      /\ \A i \in 1 .. 1 + c : y[i] = IF i <= 1 THEN one[i] ELSE Ends(c)[i - 1]
  <2>1. /\ IsStack(y) /\ Len(y) = Len(one) + Len(Ends(c))
        /\ \A i \in 1 .. Len(one) + Len(Ends(c)) :
             y[i] = IF i <= Len(one) THEN one[i] ELSE Ends(c)[i - Len(one)]
    BY <1>1, <1>2, StackConcat
  <2> HIDE DEF y
  <2> QED BY <1>1, <1>2, <2>1
<1> HIDE DEF x, y
<1>5. ASSUME NEW i \in 1 .. c + 1
      PROVE  y[i] = e
  <2>1. CASE i = 1
    BY <1>1, <1>4, <2>1
  <2>2. CASE i # 1
    <3>1. PICK j \in 1 .. c : i - 1 = j
      BY <2>2
    <3>2. y[i] = Ends(c)[i - 1]
      BY <1>4, <2>2
    <3> QED BY <1>2, <3>1, <3>2
  <2> QED BY <2>1, <2>2
<1>6. x = y
  BY <1>3, <1>4, <1>5, SameStacks
<1> QED BY <1>6 DEF x, y, one, e

\* An extent without bytes on top is over, and then those below it may be.
LEMMA CloseOne ==
  ASSUME NEW ev, IsStack(ev), NEW tbl, NEW open \in Seq(Extents), NEW wrapper \in BOOLEAN
  PROVE  Close(At(ev, tbl, Append(open, Extent(wrapper, 0)))) = Close(At(ev \o EndOf(wrapper), tbl, open))
<1>1. PICK n \in Nat : n = Len(open)
  BY ExtentsAre
<1> DEFINE x == Extent(wrapper, 0)
           p == Append(open, x)
<1>2. x \in Extents /\ x.left = 0 /\ x.wrapper = wrapper
  BY DEF Extents, Extent
<1> HIDE DEF x
<1>3. /\ p \in Seq(Extents) /\ Len(p) = n + 1
      /\ \A i \in 1 .. n : p[i] = open[i]
      /\ p[n + 1] = x
  BY <1>1, <1>2, AppendProperties
<1> HIDE DEF p
<1>4. Filled(p) = Filled(open)
  <2>1. \A i \in 1 .. n + 1 : p[i].left > 0 <=> i \in 1 .. n /\ open[i].left > 0
    BY <1>2, <1>3
  <2> QED BY <1>1, <1>3, <2>1 DEF Filled
<1>5. PICK k \in 0 .. n : k = Keep(open)
  BY <1>1, KeepIs
<1>6. Keep(p) = k
  BY <1>4, <1>5 DEF Keep
<1>7. Over(p) = IF wrapper THEN Over(open) ELSE Over(open) \cup {n + 1}
  <2>1. \A i \in k + 1 .. n + 1 : ~p[i].wrapper <=> IF i = n + 1 THEN ~wrapper ELSE ~open[i].wrapper
    BY <1>2, <1>3
  <2> QED BY <1>1, <1>3, <1>5, <1>6, <2>1 DEF Over
<1>8. n + 1 \notin Over(open)
  BY <1>1, <1>5 DEF Over
<1>9. PICK c \in Nat : c = Cardinality(Over(open))
  BY KeepIs
<1>10. Cardinality(Over(p)) = IF wrapper THEN c ELSE c + 1
  BY <1>7, <1>8, <1>9, KeepIs, FS_AddElement
<1>11. SubSeq(p, 1, k) = SubSeq(open, 1, k)
  <2>1. \A i \in 1 .. k : p[i] = open[i] /\ p[i] \in Extents /\ open[i] \in Extents
    BY <1>1, <1>3, ExtentsAre
  <2>2. /\ SubSeq(p, 1, k) \in Seq(Extents) /\ Len(SubSeq(p, 1, k)) = k
        /\ \A i \in 1 .. k : SubSeq(p, 1, k)[i] = p[i]
        /\ SubSeq(open, 1, k) \in Seq(Extents) /\ Len(SubSeq(open, 1, k)) = k
        /\ \A i \in 1 .. k : SubSeq(open, 1, k)[i] = open[i]
    BY <2>1, StackPrefix
  <2> QED BY <2>1, <2>2, SameStacks DEF IsStack
<1>12. ev \o Ends(Cardinality(Over(p))) = (ev \o EndOf(wrapper)) \o Ends(c)
  <2>1. CASE wrapper
    BY <1>10, <2>1, ConcatNothing DEF EndOf
  <2>2. CASE ~wrapper
    <3> DEFINE one == <<[e |-> "end"]>>
    <3>1. Ends(c + 1) = one \o Ends(c)
      BY OneEndMore
    <3>2. IsStack(one) /\ IsStack(Ends(c))
      BY Tuples, EndsAre
    <3>3. EndOf(wrapper) = one
      BY <2>2 DEF EndOf
    <3> HIDE DEF one
    <3>4. Assoc(ev, one, Ends(c))
      BY <3>2, Associates
    <3>5. Cardinality(Over(p)) = c + 1
      BY <1>10, <2>2
    <3> QED BY <3>1, <3>3, <3>4, <3>5, Zenon DEF Assoc
  <2> QED BY <2>1, <2>2
<1> DEFINE e1 == ev \o EndOf(wrapper)
<1>13. Close(At(ev, tbl, p)) = At(ev \o Ends(Cardinality(Over(p))), tbl, SubSeq(p, 1, Keep(p)))
  BY CloseIs, Zenon
<1>14. Close(At(e1, tbl, open)) = At(e1 \o Ends(Cardinality(Over(open))), tbl, SubSeq(open, 1, Keep(open)))
  BY CloseIs, Zenon
<1>15. Close(At(ev, tbl, p)) = Close(At(e1, tbl, open))
  BY <1>5, <1>6, <1>9, <1>11, <1>12, <1>13, <1>14, Zenon
<1> QED BY <1>15, Zenon DEF p, x
-----------------------------------------------------------------------------
(***************************************************************************)
(* What atoms read as.                                                     *)
(***************************************************************************)
\* u has the texts of t.
Later(t, u) == \A id \in Nat : FindByID(t, id) # NoText => FindByID(u, id) = FindByID(t, id)

\* What a table keeps to come, the next keeps too.
LEMMA LaterOn ==
  ASSUME NEW t, NEW u, NEW x, Later(t, u), Later(u, x)
  PROVE  Later(t, x)
<1>1. ASSUME NEW id \in Nat, FindByID(t, id) # NoText
      PROVE  FindByID(x, id) = FindByID(t, id)
  BY <1>1 DEF Later
<1> QED BY <1>1 DEF Later

\* A reader may begin the atoms here; way says whether they are a value's end or
\* the beginning of one that goes on in the innermost extent.
MayRead(way, open, n) ==
  Clean(open) /\ Room(open, n) /\ (way = "whole" \/ Clean(Spend(open, n)))

\* Then it is told the events.
ReadAs(t, A, E, way) ==
  \A ev, u : \A open \in Seq(Extents) :
    IsStack(ev) /\ Later(t, u) /\ MayRead(way, open, SizeOf(A)) =>
      Walk(At(ev, u, open), A) = Close(At(ev \o E, u, Spend(open, SizeOf(A))))

Solid(A) == Sized(A) /\ (A = << >> \/ SizeOf(A) > 0)

Reads(t, A, E, way) == Solid(A) /\ IsStack(E) /\ ReadAs(t, A, E, way)

\* How to use that atoms read as events.
LEMMA ReadsIs ==
  ASSUME NEW t, NEW A, NEW E, NEW way, Reads(t, A, E, way), NEW ev, IsStack(ev), NEW u, Later(t, u),
         NEW open \in Seq(Extents), MayRead(way, open, SizeOf(A))
  PROVE  Walk(At(ev, u, open), A) = Close(At(ev \o E, u, Spend(open, SizeOf(A))))
BY Zenon DEF Reads, ReadAs

\* They do through every later table.
LEMMA ReadsLater ==
  ASSUME NEW t, NEW A, NEW E, NEW way, Reads(t, A, E, way), NEW x, Later(t, x)
  PROVE  Reads(x, A, E, way)
<1>1. ASSUME NEW ev, NEW u, NEW open \in Seq(Extents), IsStack(ev), Later(x, u), MayRead(way, open, SizeOf(A))
      PROVE  Walk(At(ev, u, open), A) = Close(At(ev \o E, u, Spend(open, SizeOf(A))))
  <2>1. Later(t, u)
    BY <1>1, LaterOn
  <2> QED BY <1>1, <2>1, ReadsIs
<1> QED BY <1>1, Zenon DEF Reads, ReadAs

\* What may end a value may also stand in front of one.
LEMMA ReadsPending ==
  ASSUME NEW t, NEW A, NEW E, Reads(t, A, E, "whole")
  PROVE  Reads(t, A, E, "pending")
<1>1. ASSUME NEW ev, NEW u, NEW open \in Seq(Extents), IsStack(ev), Later(t, u), MayRead("pending", open, SizeOf(A))
      PROVE  Walk(At(ev, u, open), A) = Close(At(ev \o E, u, Spend(open, SizeOf(A))))
  <2>1. MayRead("whole", open, SizeOf(A))
    BY <1>1 DEF MayRead
  <2> QED BY <1>1, <2>1, ReadsIs
<1> QED BY <1>1, Zenon DEF Reads, ReadAs

\* To use up nothing changes nothing.
LEMMA SpendNothing ==
  ASSUME NEW open \in Seq(Extents), Clean(open)
  PROVE  Room(open, 0) /\ Spend(open, 0) = open
<1>1. PICK k \in Nat : k = Len(open)
  BY ExtentsAre
<1>2. Room(open, 0)
  BY <1>1, ExtentsAre DEF Room, Clean
<1>3. \A i \in 1 .. k : open[i] = Extent(open[i].wrapper, open[i].left) /\ open[i].left \in Nat
  BY <1>1, ExtentsAre
<1>4. /\ Spend(open, 0) \in Seq(Extents) /\ Len(Spend(open, 0)) = k
      /\ \A i \in 1 .. k :
           Spend(open, 0)[i] = IF i = k THEN Extent(open[i].wrapper, open[i].left - 0) ELSE open[i]
  BY <1>1, <1>2, SpendIs
<1>5. \A i \in 1 .. k : Spend(open, 0)[i] = open[i]
  BY <1>3, <1>4
<1>6. Spend(open, 0) = open
  BY <1>1, <1>4, <1>5, SameStacks DEF IsStack
<1> QED BY <1>2, <1>6

\* No atoms read as no events.
LEMMA ReadsNothing ==
  ASSUME NEW t, NEW way
  PROVE  Reads(t, << >>, << >>, way)
<1> DEFINE none == << >>
<1>1. Sized(none) /\ SizeOf(none) = 0 /\ IsStack(none) /\ Len(none) = 0
  BY SizeOfNone, Tuples
<1>2. \A ev : IsStack(ev) => ev \o none = ev
  BY ConcatNothing
<1>3. none = << >>
  OBVIOUS
<1> HIDE DEF none
<1>4. ASSUME NEW ev, NEW u, NEW open \in Seq(Extents), IsStack(ev), Later(t, u), MayRead(way, open, SizeOf(none))
      PROVE  Walk(At(ev, u, open), none) = Close(At(ev \o none, u, Spend(open, SizeOf(none))))
  <2>1. Walk(At(ev, u, open), none) = At(ev, u, open)
    BY <1>1, WalkNone
  <2>2. Clean(open) /\ Spend(open, 0) = open
    BY <1>4, SpendNothing DEF MayRead
  <2>3. Close(At(ev, u, open)) = At(ev, u, open)
    BY <1>4, <2>2, CloseNothing
  <2> QED BY <1>1, <1>2, <1>4, <2>1, <2>2, <2>3
<1>5. Reads(t, none, none, way)
  BY <1>1, <1>3, <1>4, Zenon DEF Reads, ReadAs, Solid
<1> QED BY <1>5 DEF none

\* Atoms behind atoms have the bytes of both.
LEMMA SolidConcat ==
  ASSUME NEW A, NEW B, Solid(A), Solid(B)
  PROVE  Solid(A \o B) /\ SizeOf(A \o B) = SizeOf(A) + SizeOf(B)
<1>1. Sized(A \o B) /\ SizeOf(A \o B) = SizeOf(A) + SizeOf(B)
  BY SizeOfConcat DEF Solid
<1>2. SizeOf(A) \in Nat /\ SizeOf(B) \in Nat
  BY SizesAreNaturals DEF Solid
<1>3. CASE A = << >>
  <2>1. A \o B = B
    BY <1>3, ConcatNothing DEF Solid, Sized
  <2> QED BY <1>1, <2>1
<1>4. CASE SizeOf(A) > 0
  BY <1>1, <1>2, <1>4 DEF Solid
<1> QED BY <1>3, <1>4 DEF Solid

\* One sequence after the other.
LEMMA ReadsConcat ==
  ASSUME NEW t, NEW A, NEW E, NEW wayA, Reads(t, A, E, wayA),
         NEW B, NEW F, NEW way, Reads(t, B, F, way), SizeOf(B) > 0
  PROVE  Reads(t, A \o B, E \o F, way)
<1>1. /\ Solid(A \o B) /\ SizeOf(A \o B) = SizeOf(A) + SizeOf(B)
      /\ IsStack(A) /\ IsStack(B) /\ IsStack(E) /\ IsStack(F)
  BY SolidConcat DEF Reads, Solid, Sized
<1>2. PICK m \in Nat, n \in Nat : m = SizeOf(A) /\ n = SizeOf(B) /\ n > 0
  BY SizesAreNaturals DEF Reads, Solid
<1>3. ASSUME NEW ev, NEW u, NEW open \in Seq(Extents), IsStack(ev), Later(t, u), MayRead(way, open, m + n)
      PROVE  Walk(At(ev, u, open), A \o B) = Close(At(ev \o (E \o F), u, Spend(open, m + n)))
  <2> DEFINE s == Spend(open, m)
             e == ev \o E
  <2>1. /\ Room(open, m) /\ Room(s, n) /\ Spend(s, n) = Spend(open, m + n) /\ Clean(s)
        /\ s \in Seq(Extents)
    <3>1. Room(open, m + n)
      BY <1>3 DEF MayRead
    <3>2. Room(open, m) /\ Room(s, n) /\ Spend(s, n) = Spend(open, m + n) /\ Clean(s)
      BY <1>2, <3>1, SpendTwice
    <3> QED BY <3>2, SpendIs
  <2>2. MayRead(wayA, open, m)
    BY <1>3, <2>1 DEF MayRead
  <2>3. Walk(At(ev, u, open), A) = Close(At(e, u, s))
    BY <1>2, <1>3, <2>2, ReadsIs
  <2>4. IsStack(e)
    BY <1>1, <1>3, StackConcat
  <2>5. Close(At(e, u, s)) = At(e, u, s)
    BY <2>1, <2>4, CloseNothing
  <2>6. MayRead(way, s, n)
    BY <1>3, <2>1 DEF MayRead
  <2>7. Walk(At(e, u, s), B) = Close(At(e \o F, u, Spend(s, n)))
    <3> HIDE DEF e, s
    <3> QED BY <1>2, <1>3, <2>1, <2>4, <2>6, ReadsIs
  <2>8. Walk(At(ev, u, open), A \o B) = Walk(Walk(At(ev, u, open), A), B)
    BY <1>1, WalkConcat
  <2>9. Assoc(ev, E, F)
    BY <1>1, <1>3, Associates
  <2> QED BY <2>1, <2>3, <2>5, <2>7, <2>8, <2>9, Zenon DEF Assoc
<1> QED BY <1>1, <1>2, <1>3, StackConcat, Zenon DEF Reads, ReadAs

\* One atom.
LEMMA ReadsOne ==
  ASSUME NEW t, NEW a, a.size \in Nat \ {0}, NEW E, IsStack(E), NEW way,
         \A ev, u : \A open \in Seq(Extents) :
           IsStack(ev) /\ Later(t, u) /\ MayRead(way, open, a.size) =>
             Step(At(ev, u, open), a) = Close(At(ev \o E, u, Spend(open, a.size)))
  PROVE  Reads(t, <<a>>, E, way)
<1> DEFINE one == <<a>>
<1>1. Sized(one) /\ SizeOf(one) = a.size /\ SizeOf(one) > 0
  BY SizeOfOne
<1>2. \A d : Walk(d, one) = Step(d, a)
  BY WalkOne
<1> HIDE DEF one
<1>3. Solid(one)
  BY <1>1 DEF Solid
<1>4. Reads(t, one, E, way)
  BY <1>1, <1>2, <1>3, Zenon DEF Reads, ReadAs
<1> QED BY <1>4 DEF one
-----------------------------------------------------------------------------
(***************************************************************************)
(* The atoms of names, symbols and scalars.                                *)
(***************************************************************************)
\* Nothing is written in no bytes.
LEMMA SomeBytes ==
  /\ \A v : varUintLen(v) \in Nat \ {0} /\ Len(appendVarUint(v)) \in Nat \ {0}
  /\ \A code, len : Len(appendTag(code, len)) \in Nat \ {0}
<1>1. ASSUME NEW v
      PROVE  varUintLen(v) \in Nat \ {0} /\ Len(appendVarUint(v)) \in Nat \ {0}
  <2>1. Group \in Nat \ {0}
    BY BitsAssumption DEF Group
  <2>2. varUintLen(v) \in Nat \ {0}
    BY <2>1, ShiftsIsNat DEF varUintLen
  <2> QED BY <2>2, VarUintBytes
<1>2. ASSUME NEW code, NEW len
      PROVE  Len(appendTag(code, len)) \in Nat \ {0}
  <2> DEFINE a == <<code + len>>
             b == <<code + 14>>
  <2>1. Len(a) = 1 /\ Len(b) = 1 /\ IsStack(b)
    BY Tuples
  <2> HIDE DEF a, b
  <2>2. Len(b \o appendVarUint(len)) = 1 + varUintLen(len)
    BY <2>1, VarUintBytes, StackConcat
  <2>3. appendTag(code, len) \in {a, b \o appendVarUint(len)}
    BY Zenon DEF appendTag, a, b
  <2>4. Len(b \o appendVarUint(len)) \in Nat \ {0}
    BY <1>1, <2>2
  <2> QED BY <2>1, <2>3, <2>4
<1> QED BY <1>1, <1>2

\* The id stands for the text in the table.
Means(t, id, text) == text = NoText \/ (id \in Nat /\ FindByID(t, id) = text)

\* A reader names an id as the writer does that holds its text.
LEMMA NameRead ==
  ASSUME NEW t, NEW id, NEW text, Means(t, id, text), NEW u, Later(t, u), NEW ev, NEW open
  PROVE  NameOf(At(ev, u, open), id, text) = Seen([id |-> id, text |-> text])
<1> DEFINE d == At(ev, u, open)
<1>1. d.tbl = u
  BY DEF At
<1> HIDE DEF d
<1>2. text # NoText => FindByID(u, id) = text
  BY DEF Means, Later
<1>3. NameOf(d, id, text) = IF text = NoText THEN [id |-> id] ELSE [text |-> FindByID(u, id)]
  BY <1>1 DEF NameOf
<1>4. Seen([id |-> id, text |-> text]) = IF text = NoText THEN [id |-> id] ELSE [text |-> text]
  BY DEF Seen
<1>5. NameOf(d, id, text) = Seen([id |-> id, text |-> text])
  BY <1>2, <1>3, <1>4
<1> QED BY <1>5 DEF d

\* An event is told, and then bytes are used up.
LEMMA ToldThenUsed ==
  ASSUME NEW ev, IsStack(ev), NEW u, NEW open \in Seq(Extents), NEW n \in Nat, Room(open, n), NEW e
  PROVE  Use(Tell(At(ev, u, open), e), n) = At(ev \o <<e>>, u, Spend(open, n))
<1>1. Tell(At(ev, u, open), e) = At(ev \o <<e>>, u, open)
  <2>1. Append(ev, e) = ev \o <<e>>
    BY AppendOne
  <2>2. Tell(At(ev, u, open), e) = At(Append(ev, e), u, open)
    BY TellIs
  <2> QED BY <2>1, <2>2, Zenon
<1>2. Use(At(ev \o <<e>>, u, open), n) = At(ev \o <<e>>, u, Spend(open, n))
  BY UseIs
<1> QED BY <1>1, <1>2

\* What goes on leaves the reader in the innermost extent.
LEMMA GoesOn ==
  ASSUME NEW ev, IsStack(ev), NEW e, NEW u, NEW open \in Seq(Extents), NEW n \in Nat,
         MayRead("pending", open, n)
  PROVE  Close(At(ev \o <<e>>, u, Spend(open, n))) = At(ev \o <<e>>, u, Spend(open, n))
<1>1. Room(open, n) /\ Clean(Spend(open, n))
  BY DEF MayRead
<1>2. Spend(open, n) \in Seq(Extents)
  BY <1>1, SpendIs
<1>3. IsStack(ev \o <<e>>)
  BY Tuples, StackConcat
<1> QED BY <1>1, <1>2, <1>3, CloseNothing

FieldEvent(id, text) == [e |-> "field", name |-> Seen([id |-> id, text |-> text])]

\* A field name reads as one, and so does a symbol,
LEMMA FieldReads ==
  ASSUME NEW t, NEW id, NEW text, Means(t, id, text)
  PROVE  Reads(t, <<FieldAtom(id, text)>>, <<FieldEvent(id, text)>>, "pending")
<1> DEFINE a == FieldAtom(id, text)
           e == FieldEvent(id, text)
<1>1. a.size \in Nat \ {0} /\ a.k = "field" /\ a.id = id /\ a.text = text
  BY SomeBytes DEF FieldAtom
<1> HIDE DEF a
<1>2. ASSUME NEW ev, NEW u, NEW open \in Seq(Extents), IsStack(ev), Later(t, u), MayRead("pending", open, a.size)
      PROVE  Step(At(ev, u, open), a) = Close(At(ev \o <<e>>, u, Spend(open, a.size)))
  <2> DEFINE d == At(ev, u, open)
  <2>1. NameOf(d, id, text) = Seen([id |-> id, text |-> text])
    BY <1>2, NameRead
  <2>2. Step(d, a) = Use(Tell(d, [e |-> "field", name |-> NameOf(d, a.id, a.text)]), a.size)
    BY <1>1 DEF Step
  <2>3. Step(d, a) = Use(Tell(d, e), a.size)
    BY <1>1, <2>1, <2>2 DEF FieldEvent
  <2> HIDE DEF e
  <2>4. Use(Tell(d, e), a.size) = At(ev \o <<e>>, u, Spend(open, a.size))
    BY <1>1, <1>2, ToldThenUsed DEF MayRead
  <2>5. Close(At(ev \o <<e>>, u, Spend(open, a.size))) = At(ev \o <<e>>, u, Spend(open, a.size))
    BY <1>1, <1>2, GoesOn
  <2> QED BY <2>3, <2>4, <2>5
<1> HIDE DEF e
<1>3. IsStack(<<e>>)
  BY Tuples
<1>4. Reads(t, <<a>>, <<e>>, "pending")
  BY <1>1, <1>2, <1>3, ReadsOne
<1> QED BY <1>4 DEF a, e

SymbolEvent(id, text) == [e |-> "symbol", name |-> Seen([id |-> id, text |-> text])]

\* which is a value of its own.
LEMMA SymbolReads ==
  ASSUME NEW t, NEW id, NEW text, Means(t, id, text)
  PROVE  Reads(t, <<SymbolAtom(id, text)>>, <<SymbolEvent(id, text)>>, "whole")
<1> DEFINE a == SymbolAtom(id, text)
           e == SymbolEvent(id, text)
<1>1. a.size \in Nat \ {0} /\ a.k = "symbol" /\ a.id = id /\ a.text = text
  <2>1. a.size = Len(appendTag(112, uintLen(id))) + Len(appendUint(id))
    BY DEF SymbolAtom
  <2>2. a.size \in Nat \ {0}
    BY <2>1, SomeBytes, UintBytes
  <2> QED BY <2>2 DEF SymbolAtom
<1> HIDE DEF a
<1>2. ASSUME NEW ev, NEW u, NEW open \in Seq(Extents), IsStack(ev), Later(t, u), MayRead("whole", open, a.size)
      PROVE  Step(At(ev, u, open), a) = Close(At(ev \o <<e>>, u, Spend(open, a.size)))
  <2> DEFINE d == At(ev, u, open)
  <2>1. NameOf(d, id, text) = Seen([id |-> id, text |-> text])
    BY <1>2, NameRead
  <2>2. Step(d, a) = Close(Use(Tell(d, [e |-> "symbol", name |-> NameOf(d, a.id, a.text)]), a.size))
    BY <1>1 DEF Step
  <2>3. Step(d, a) = Close(Use(Tell(d, e), a.size))
    BY <1>1, <2>1, <2>2 DEF SymbolEvent
  <2> HIDE DEF e
  <2>4. Use(Tell(d, e), a.size) = At(ev \o <<e>>, u, Spend(open, a.size))
    BY <1>1, <1>2, ToldThenUsed DEF MayRead
  <2> QED BY <2>3, <2>4
<1> HIDE DEF e
<1>3. IsStack(<<e>>)
  BY Tuples
<1>4. Reads(t, <<a>>, <<e>>, "whole")
  BY <1>1, <1>2, <1>3, ReadsOne
<1> QED BY <1>4 DEF a, e

\* All the ids of annotations stand for their texts.
NamesAll(t, ids, texts) ==
  IsStack(ids) /\ \A i \in 1 .. Len(ids) : Means(t, ids[i], texts[i])

SeenAll(ids, texts) == [i \in 1 .. Len(ids) |-> Seen([id |-> ids[i], text |-> texts[i]])]

MarksEvent(ids, texts) == [e |-> "annotations", names |-> SeenAll(ids, texts)]

\* Annotations take some bytes.
LEMMA AnnotationBytes ==
  ASSUME NEW ids, NEW texts, IsStack(ids)
  PROVE  AnnotationAtom(ids, texts).size \in Nat \ {0}
<1> DEFINE f     == [i \in 1 .. Len(ids) |-> Len(appendVarUint(ids[i]))]
           len   == SumTo([i \in 1 .. Len(ids) |-> varUintLen(ids[i])], Len(ids))
<1>1. Len(ids) \in Nat
  BY StackLen
<1>2. Naturals(f, Len(ids))
  BY VarUintBytes DEF Naturals
<1>3. AnnotationAtom(ids, texts).size = Len(appendVarUint(len)) + SumTo(f, Len(ids))
  BY DEF AnnotationAtom
<1> HIDE DEF f, len
<1>4. SumTo(f, Len(ids)) \in Nat
  BY <1>1, <1>2, SumOfOneMore
<1> QED BY <1>3, <1>4, SomeBytes

\* Annotations read as their names.
LEMMA MarksRead ==
  ASSUME NEW t, NEW ids, NEW texts, NamesAll(t, ids, texts)
  PROVE  Reads(t, <<AnnotationAtom(ids, texts)>>, <<MarksEvent(ids, texts)>>, "pending")
<1> DEFINE a == AnnotationAtom(ids, texts)
           e == MarksEvent(ids, texts)
<1>1. a.size \in Nat \ {0} /\ a.k = "annotations" /\ a.ids = ids /\ a.texts = texts
  BY AnnotationBytes DEF AnnotationAtom, NamesAll
<1> HIDE DEF a
<1>2. ASSUME NEW ev, NEW u, NEW open \in Seq(Extents), IsStack(ev), Later(t, u), MayRead("pending", open, a.size)
      PROVE  Step(At(ev, u, open), a) = Close(At(ev \o <<e>>, u, Spend(open, a.size)))
  <2> DEFINE d == At(ev, u, open)
  <2>1. \A i \in 1 .. Len(ids) :
          NameOf(d, ids[i], texts[i]) = Seen([id |-> ids[i], text |-> texts[i]])
    BY <1>2, NameRead DEF NamesAll
  <2> HIDE DEF d
  <2>2. Step(d, a) = Use(Tell(d, [e |-> "annotations",
                                  names |-> [i \in 1 .. Len(a.ids) |-> NameOf(d, a.ids[i], a.texts[i])]]),
                         a.size)
    BY <1>1 DEF Step
  <2>3. [i \in 1 .. Len(ids) |-> NameOf(d, ids[i], texts[i])] = SeenAll(ids, texts)
    BY <2>1, Zenon DEF SeenAll
  <2>4. Step(d, a) = Use(Tell(d, e), a.size)
    BY <1>1, <2>2, <2>3 DEF MarksEvent
  <2> HIDE DEF e
  <2>5. Use(Tell(d, e), a.size) = At(ev \o <<e>>, u, Spend(open, a.size))
    BY <1>1, <1>2, ToldThenUsed DEF MayRead, d
  <2>6. Close(At(ev \o <<e>>, u, Spend(open, a.size))) = At(ev \o <<e>>, u, Spend(open, a.size))
    BY <1>1, <1>2, GoesOn
  <2> QED BY <2>4, <2>5, <2>6 DEF d
<1> HIDE DEF e
<1>3. IsStack(<<e>>)
  BY Tuples
<1>4. Reads(t, <<a>>, <<e>>, "pending")
  BY <1>1, <1>2, <1>3, ReadsOne
<1> QED BY <1>4 DEF a, e
-----------------------------------------------------------------------------
ScalarEvent(sizes) == [e |-> "scalar", sizes |-> sizes]

Part(sizes, i) == [k |-> "scalar", size |-> sizes[i], part |-> i, sizes |-> sizes]

\* The first part of a scalar tells of it, the others tell nothing.
LEMMA PartReads ==
  ASSUME NEW t, NEW sizes, NEW i \in Nat \ {0}, sizes[i] \in Nat \ {0}, NEW way
  PROVE  Reads(t, <<Part(sizes, i)>>, IF i > 1 THEN << >> ELSE <<ScalarEvent(sizes)>>, way)
<1> DEFINE a == Part(sizes, i)
           e == ScalarEvent(sizes)
           E == IF i > 1 THEN << >> ELSE <<e>>
<1>1. a.size \in Nat \ {0} /\ a.k = "scalar" /\ a.part = i /\ a.sizes = sizes
  BY DEF Part
<1> HIDE DEF a
<1>2. ASSUME NEW ev, NEW u, NEW open \in Seq(Extents), IsStack(ev), Later(t, u), MayRead(way, open, a.size)
      PROVE  Step(At(ev, u, open), a) = Close(At(ev \o E, u, Spend(open, a.size)))
  <2> DEFINE d == At(ev, u, open)
  <2>1. Step(d, a) = Close(Use(IF a.part > 1 THEN d ELSE Tell(d, [e |-> "scalar", sizes |-> a.sizes]), a.size))
    BY <1>1 DEF Step
  <2>2. Room(open, a.size)
    BY <1>2 DEF MayRead
  <2>3. CASE i > 1
    <3>1. Use(d, a.size) = At(ev, u, Spend(open, a.size))
      BY <1>1, <2>2, UseIs
    <3>2. ev \o E = ev
      BY <1>2, <2>3, ConcatNothing
    <3> HIDE DEF E, d
    <3> QED BY <1>1, <2>1, <2>3, <3>1, <3>2 DEF d
  <2>4. CASE ~(i > 1)
    <3>1. Step(d, a) = Close(Use(Tell(d, e), a.size))
      BY <1>1, <2>1, <2>4 DEF ScalarEvent
    <3> HIDE DEF e
    <3>2. Use(Tell(d, e), a.size) = At(ev \o <<e>>, u, Spend(open, a.size))
      BY <1>1, <1>2, <2>2, ToldThenUsed
    <3> QED BY <2>4, <3>1, <3>2
  <2> QED BY <2>3, <2>4
<1>3. IsStack(E)
  BY Tuples
<1> HIDE DEF E
<1>4. Reads(t, <<a>>, E, way)
  BY <1>1, <1>2, <1>3, ReadsOne
<1> QED BY <1>4 DEF a, E, e

\* The parts of a scalar together.
Parts(sizes, n) == [i \in 1 .. n |-> Part(sizes, i)]

\* The parts up to the n-th.
LEMMA PartsAre ==
  ASSUME NEW sizes, NEW n \in Nat
  PROVE  /\ IsStack(Parts(sizes, n)) /\ Len(Parts(sizes, n)) = n
         /\ \A i \in 1 .. n : Parts(sizes, n)[i] = Part(sizes, i)
<1>1. [i \in 1 .. n |-> Part(sizes, i)] \in Seq({Part(sizes, i) : i \in 1 .. n})
  OBVIOUS
<1>2. IsStack(Parts(sizes, n))
  BY <1>1, Zenon DEF IsStack, Parts
<1>3. Len(Parts(sizes, n)) = n /\ \A i \in 1 .. n : Parts(sizes, n)[i] = Part(sizes, i)
  BY DEF Parts
<1> QED BY <1>2, <1>3

\* All parts together read as the scalar.
LEMMA PartsRead ==
  ASSUME NEW t, NEW sizes, NEW n \in Nat \ {0}, \A i \in 1 .. n : sizes[i] \in Nat \ {0}, NEW way
  PROVE  Reads(t, Parts(sizes, n), <<ScalarEvent(sizes)>>, way)
<1> DEFINE e == ScalarEvent(sizes)
           S == {k \in 0 .. n : k = 0 \/ Reads(t, Parts(sizes, k), <<e>>, way)}
<1>1. 0 \in S
  OBVIOUS
<1>2. ASSUME NEW k \in 1 .. n, k - 1 \in S
      PROVE  k \in S
  <2> DEFINE a   == Part(sizes, k)
             one == <<a>>
  <2>1. IsStack(one) /\ Len(one) = 1 /\ one[1] = a
    BY Tuples
  <2>2. a.size \in Nat \ {0}
    BY DEF Part
  <2>3. SizeOf(one) > 0
    BY <2>2, SizeOfOne
  <2>4. Reads(t, one, IF k > 1 THEN << >> ELSE <<e>>, way)
    <3>1. k \in Nat \ {0} /\ sizes[k] \in Nat \ {0}
      OBVIOUS
    <3> QED BY <3>1, PartReads, Zenon
  <2>5. CASE k = 1
    <3>1. Parts(sizes, 1) = one
      <4> DEFINE q == Parts(sizes, 1)
      <4>1. IsStack(q) /\ Len(q) = 1 /\ q[1] = a
        <5>1. IsStack(q) /\ Len(q) = 1 /\ \A i \in 1 .. 1 : q[i] = Part(sizes, i)
          <6>1. 1 \in Nat
            OBVIOUS
          <6> QED BY <6>1, PartsAre, Zenon
        <5>2. a = Part(sizes, 1)
          BY <2>5
        <5> HIDE DEF q, a
        <5> QED BY <5>1, <5>2
      <4> HIDE DEF q, one, a
      <4>2. \A i \in 1 .. 1 : q[i] = one[i]
        BY <2>1, <4>1
      <4> QED BY <2>1, <4>1, <4>2, SameStacks DEF q
    <3>2. Reads(t, one, <<e>>, way)
      BY <2>4, <2>5
    <3> QED BY <2>5, <3>1, <3>2
  <2>6. CASE k # 1
    <3> DEFINE p == Parts(sizes, k - 1)
    <3>1. Reads(t, p, <<e>>, way)
      BY <1>2, <2>6
    <3>2. Reads(t, one, << >>, way)
      BY <2>4, <2>6
    <3>3. IsStack(p) /\ Len(p) = k - 1 /\ \A i \in 1 .. k - 1 : p[i] = Part(sizes, i)
      BY PartsAre
    <3>4. p \o one = Parts(sizes, k)
      <4> DEFINE q == Parts(sizes, k)
      <4>1. IsStack(q) /\ Len(q) = k /\ \A i \in 1 .. k : q[i] = Part(sizes, i)
        BY PartsAre
      <4> HIDE DEF p, one, q, a
      <4>2. /\ IsStack(p \o one) /\ Len(p \o one) = Len(p) + Len(one)
            /\ \A i \in 1 .. Len(p) + Len(one) : (p \o one)[i] = IF i <= Len(p) THEN p[i] ELSE one[i - Len(p)]
        BY <2>1, <3>3, StackConcat
      <4>3. \A i \in 1 .. k : (p \o one)[i] = q[i]
        <5>1. ASSUME NEW i \in 1 .. k
              PROVE  (p \o one)[i] = q[i]
          <6>1. CASE i = k
            BY <2>1, <3>3, <4>1, <4>2, <6>1 DEF a
          <6>2. CASE i # k
            BY <2>1, <3>3, <4>1, <4>2, <6>2
          <6> QED BY <6>1, <6>2
        <5> QED BY <5>1
      <4>4. Len(p \o one) = k
        BY <2>1, <3>3, <4>2
      <4>5. p \o one = q
        BY <4>1, <4>2, <4>3, <4>4, SameStacks
      <4> QED BY <4>5 DEF q
    <3> HIDE DEF p, one, e
    <3>5. Reads(t, p \o one, <<e>> \o << >>, way)
      BY <2>3, <3>1, <3>2, ReadsConcat
    <3>6. <<e>> \o << >> = <<e>>
      BY Tuples, ConcatNothing
    <3> QED BY <3>4, <3>5, <3>6
  <2> QED BY <2>5, <2>6
<1> HIDE DEF S
<1>3. \A k \in 0 .. n : k \in S
  BY <1>1, <1>2, Induction
<1>4. n \in S
  BY <1>3
<1> QED BY <1>4 DEF S
-----------------------------------------------------------------------------
(***************************************************************************)
(* Containers and wrappers.                                                *)
(***************************************************************************)
\* A table is later than itself.
LEMMA LaterItself ==
  ASSUME NEW t
  PROVE  Later(t, t)
BY DEF Later

\* No extents are a list of extents, with room for everything.
LEMMA NoExtents == << >> \in Seq(Extents) /\ \A n : Spend(<< >>, n) = << >> /\ Room(<< >>, n) /\ Clean(<< >>)
BY DEF Spend, Room, Clean

\* The parts of a walk.
LEMMA EventsOf ==
  ASSUME NEW ev, NEW u, NEW open
  PROVE  At(ev, u, open).events = ev /\ At(ev, u, open).tbl = u /\ At(ev, u, open).open = open /\ At(ev, u, open).ok
BY DEF At

\* At top level nothing is ever over.
LEMMA CloseAtTop ==
  ASSUME NEW ev, IsStack(ev), NEW u
  PROVE  Close(At(ev, u, << >>)) = At(ev, u, << >>)
<1> DEFINE none == << >>
<1>1. none \in Seq(Extents) /\ Clean(none)
  BY NoExtents
<1> HIDE DEF none
<1>2. Close(At(ev, u, none)) = At(ev, u, none)
  BY <1>1, CloseNothing
<1> QED BY <1>2 DEF none

\* No atoms tell nothing.
LEMMA EmptyTells ==
  ASSUME NEW t, NEW E, NEW none, IsStack(none), Len(none) = 0, none \in Seq(Extents),
         Spend(none, SizeOf(none)) = none, MayRead("whole", none, SizeOf(none)),
         \A ev : IsStack(ev) => Close(At(ev, t, none)) = At(ev, t, none),
         Reads(t, none, E, "whole"), none \o E = E
  PROVE  E = none
<1>1. Later(t, t)
  BY LaterItself
<1>2. Walk(At(none, t, none), none) = Close(At(none \o E, t, Spend(none, SizeOf(none))))
  BY <1>1, Zenon DEF Reads, ReadAs
<1>3. Walk(At(none, t, none), none) = At(none, t, none)
  BY WalkNone
<1>4. IsStack(E)
  BY Zenon DEF Reads
<1>5. Close(At(E, t, none)) = At(E, t, none)
  BY <1>4, Zenon
<1>6. At(none, t, none) = At(E, t, none)
  BY <1>2, <1>3, <1>5
<1>7. At(none, t, none).events = none /\ At(E, t, none).events = E
  BY EventsOf
<1> QED BY <1>6, <1>7

\* No atoms read as nothing but no events.
LEMMA ReadsEmpty ==
  ASSUME NEW t, NEW E, Reads(t, << >>, E, "whole")
  PROVE  E = << >>
<1> DEFINE none == << >>
<1>1. /\ none \in Seq(Extents) /\ Spend(none, SizeOf(none)) = none /\ Room(none, SizeOf(none)) /\ Clean(none)
  BY NoExtents
<1>2. IsStack(none) /\ Len(none) = 0
  BY Tuples
<1>3. IsStack(E)
  BY DEF Reads
<1>4. none \o E = E
  BY <1>3, ConcatNothing
<1>5. \A ev : IsStack(ev) => Close(At(ev, t, none)) = At(ev, t, none)
  BY CloseAtTop
<1>6. Reads(t, none, E, "whole")
  OBVIOUS
<1> HIDE DEF none
<1>7. MayRead("whole", none, SizeOf(none))
  BY <1>1 DEF MayRead
<1>8. E = none
  BY <1>1, <1>2, <1>4, <1>5, <1>6, <1>7, EmptyTells
<1> QED BY <1>8 DEF none

HeadOf(code) ==
  IF code = Wrapper THEN << >> ELSE <<[e |-> "begin", c |-> CHOOSE c \in Contexts : CodeOf[c] = code]>>

\* The event of a tag, if it has one.
LEMMA HeadIsList ==
  ASSUME NEW code
  PROVE  IsStack(HeadOf(code))
BY Tuples DEF HeadOf

\* The extents of a reader replaced.
Reopen(d, open) == [d EXCEPT !.open = open]

\* A walk with other extents, when all was well.
LEMMA ReopenIs ==
  ASSUME NEW ev, NEW u, NEW open, NEW s
  PROVE  Reopen(At(ev, u, open), s) = At(ev, u, s)
<1> DEFINE yes == TRUE
           d   == [events |-> ev, tbl |-> u, open |-> open, ok |-> yes]
<1>1. At(ev, u, open) = d /\ At(ev, u, s) = [events |-> ev, tbl |-> u, open |-> s, ok |-> yes]
  BY DEF At
<1> HIDE DEF yes
<1>2. [d EXCEPT !.open = s] = [events |-> ev, tbl |-> u, open |-> s, ok |-> yes]
  OBVIOUS
<1> QED BY <1>1, <1>2 DEF Reopen

\* A tag opens an extent.
LEMMA OpenIs ==
  ASSUME NEW code, NEW len \in Nat, NEW a, a = TagAtom(code, len),
         NEW wrapper, wrapper = (code = Wrapper),
         NEW ev, IsStack(ev), NEW u, NEW open \in Seq(Extents), Room(open, a.size + len)
  PROVE  Open(At(ev, u, open), a)
           = At(ev \o HeadOf(code), u, Append(Spend(open, a.size + len), Extent(wrapper, len)))
<1> DEFINE d  == At(ev, u, open)
           d1 == IF a.code = Wrapper THEN d
                 ELSE Tell(d, [e |-> "begin", c |-> CHOOSE c \in Contexts : CodeOf[c] = a.code])
           d2 == Use(d1, a.size + a.len)
           s  == Spend(open, a.size + len)
           h  == ev \o HeadOf(code)
<1>1. a.code = code /\ a.len = len /\ a.size \in Nat
  BY SomeBytes DEF TagAtom
<1>2. Open(d, a) = Reopen(d2, Append(d2.open, Extent(a.code = Wrapper, a.len)))
  BY DEF Open, Reopen
<1>3. d1 = At(h, u, open)
  <2>1. CASE code = Wrapper
    <3>1. h = ev
      BY <2>1, ConcatNothing DEF HeadOf
    <3> QED BY <1>1, <2>1, <3>1
  <2>2. CASE code # Wrapper
    <3> DEFINE e == [e |-> "begin", c |-> CHOOSE c \in Contexts : CodeOf[c] = code]
    <3>1. HeadOf(code) = <<e>>
      BY <2>2 DEF HeadOf
    <3>2. d1 = Tell(d, e)
      BY <1>1, <2>2
    <3> HIDE DEF e
    <3>3. Tell(d, e) = At(Append(ev, e), u, open)
      BY TellIs
    <3>4. Append(ev, e) = ev \o <<e>>
      BY AppendOne
    <3> QED BY <3>1, <3>2, <3>3, <3>4
  <2> QED BY <2>1, <2>2
<1> HIDE DEF d1, h
<1>4. d2 = At(h, u, s)
  <2>1. a.size + len \in Nat
    BY <1>1
  <2> QED BY <1>1, <1>3, <2>1, UseIs
<1>5. d2.open = s
  BY <1>4, EventsOf
<1> HIDE DEF d2, s, d
<1>6. Open(d, a) = At(h, u, Append(s, Extent(wrapper, len)))
  <2>1. Open(d, a) = Reopen(d2, Append(s, Extent(wrapper, len)))
    BY <1>1, <1>2, <1>5
  <2> QED BY <1>4, <2>1, ReopenIs
<1> QED BY <1>6 DEF d, h, s

\* What is left of the extent on top, and what is left below it.
LEMMA SpendPushed ==
  ASSUME NEW s \in Seq(Extents), NEW wrapper \in BOOLEAN, NEW n \in Nat,
         NEW p, p = Append(s, Extent(wrapper, n))
  PROVE  /\ p \in Seq(Extents) /\ Room(p, n) /\ (n > 0 => Clean(p))
         /\ Spend(p, n) = Append(s, Extent(wrapper, 0))
<1>1. PICK k \in Nat : k = Len(s)
  BY ExtentsAre
<1> DEFINE x == Extent(wrapper, n)
           y == Extent(wrapper, 0)
           q == Append(s, y)
<1>2. x \in Extents /\ x.left = n /\ x.wrapper = wrapper /\ y \in Extents
  BY DEF Extents, Extent
<1>3. y = Extent(x.wrapper, x.left - n)
  BY <1>2
<1> HIDE DEF x, y
<1>4. /\ p \in Seq(Extents) /\ Len(p) = k + 1
      /\ \A i \in 1 .. k : p[i] = s[i]
      /\ p[k + 1] = x
  BY <1>1, <1>2, AppendProperties DEF x
<1>5. /\ q \in Seq(Extents) /\ Len(q) = k + 1
      /\ \A i \in 1 .. k : q[i] = s[i]
      /\ q[k + 1] = y
  BY <1>1, <1>2, AppendProperties
<1> HIDE DEF q
<1>6. p # << >>
  BY <1>4, ExtentsAre
<1>7. Room(p, n) /\ (n > 0 => Clean(p))
  BY <1>2, <1>4 DEF Room, Clean
<1>8. /\ Spend(p, n) \in Seq(Extents) /\ Len(Spend(p, n)) = k + 1
      /\ \A i \in 1 .. k + 1 :
           Spend(p, n)[i] = IF i = k + 1 THEN Extent(p[i].wrapper, p[i].left - n) ELSE p[i]
  <2>1. /\ Spend(p, n) \in Seq(Extents) /\ Len(Spend(p, n)) = Len(p)
        /\ \A i \in 1 .. Len(p) :
             Spend(p, n)[i] = IF i = Len(p) THEN Extent(p[i].wrapper, p[i].left - n) ELSE p[i]
    BY <1>4, <1>7, SpendIs
  <2> QED BY <1>4, <2>1
<1>9. ASSUME NEW i \in 1 .. k + 1
      PROVE  Spend(p, n)[i] = q[i]
  <2>1. CASE i = k + 1
    BY <1>3, <1>4, <1>5, <1>8, <2>1
  <2>2. CASE i # k + 1
    BY <1>4, <1>5, <1>8, <2>2
  <2> QED BY <2>1, <2>2
<1>10. Spend(p, n) = q
  BY <1>5, <1>8, <1>9, SameStacks DEF IsStack
<1> QED BY <1>4, <1>7, <1>10 DEF q, y

\* An extent that is used up ends what it is of.
LEMMA ClosesOne ==
  ASSUME NEW u, NEW s \in Seq(Extents), NEW wrapper \in BOOLEAN
  PROVE  \A e : IsStack(e) =>
           Close(At(e, u, Append(s, Extent(wrapper, 0)))) = Close(At(e \o EndOf(wrapper), u, s))
<1>1. ASSUME NEW e, IsStack(e)
      PROVE  Close(At(e, u, Append(s, Extent(wrapper, 0)))) = Close(At(e \o EndOf(wrapper), u, s))
  BY <1>1, CloseOne
<1> QED BY <1>1, Zenon

\* Around what is complete a container or a wrapper is complete.
LEMMA NodeReads ==
  ASSUME NEW t, NEW A, NEW E, Reads(t, A, E, "whole"), NEW code, NEW a, a = TagAtom(code, SizeOf(A)),
         NEW wrapper \in BOOLEAN, wrapper = (code = Wrapper)
  PROVE  /\ Reads(t, <<a>> \o A, (HeadOf(code) \o E) \o EndOf(wrapper), "whole")
         /\ SizeOf(<<a>> \o A) > 0
<1> DEFINE one == <<a>>
           F   == (HeadOf(code) \o E) \o EndOf(wrapper)
<1>1. PICK n \in Nat : n = SizeOf(A)
  BY SizesAreNaturals DEF Reads, Solid
<1>2. a.size \in Nat \ {0} /\ a.k = "tag"
  BY SomeBytes DEF TagAtom
<1>3. Sized(one) /\ SizeOf(one) = a.size /\ IsStack(one)
  BY <1>2, SizeOfOne, Tuples
<1>4. /\ Solid(one \o A) /\ SizeOf(one \o A) = a.size + n /\ SizeOf(one \o A) > 0
  BY <1>1, <1>2, <1>3, SolidConcat DEF Reads, Solid
<1>5. IsStack(A) /\ IsStack(E) /\ IsStack(HeadOf(code)) /\ IsStack(EndOf(wrapper)) /\ IsStack(F)
  <2>1. IsStack(A) /\ IsStack(E) /\ IsStack(HeadOf(code)) /\ IsStack(EndOf(wrapper))
    BY Tuples, HeadIsList DEF Reads, Solid, Sized, EndOf
  <2> QED BY <2>1, StackConcat
<1>6. \A d : Walk(d, one) = Step(d, a)
  BY WalkOne
<1> HIDE DEF one, F
<1>7. ASSUME NEW ev, NEW u, NEW open \in Seq(Extents), IsStack(ev), Later(t, u),
             MayRead("whole", open, a.size + n)
      PROVE  Walk(At(ev, u, open), one \o A) = Close(At(ev \o F, u, Spend(open, a.size + n)))
  <2> DEFINE s == Spend(open, a.size + n)
             p == Append(s, Extent(wrapper, n))
             q == Append(s, Extent(wrapper, 0))
             h == ev \o HeadOf(code)
  <2>1. Room(open, a.size + n) /\ a.size + n \in Nat
    BY <1>2, <1>7 DEF MayRead
  <2>2. s \in Seq(Extents)
    BY <2>1, SpendIs
  <2>3. Step(At(ev, u, open), a) = Close(At(h, u, p))
    <3>1. Step(At(ev, u, open), a) = Close(Open(At(ev, u, open), a))
      BY <1>2 DEF Step
    <3>2. Open(At(ev, u, open), a) = At(h, u, p)
      BY <1>1, <1>7, <2>1, OpenIs
    <3> QED BY <3>1, <3>2
  <2>4. IsStack(h)
    BY <1>5, <1>7, StackConcat
  <2>5. p \in Seq(Extents) /\ Room(p, n) /\ (n > 0 => Clean(p)) /\ Spend(p, n) = q
    <3> HIDE DEF s
    <3> QED BY <2>2, SpendPushed
  <2>6. Walk(At(ev, u, open), one \o A) = Walk(Step(At(ev, u, open), a), A)
    BY <1>3, <1>5, <1>6, WalkConcat
  <2>7. IsStack(h \o E)
    BY <1>5, <2>4, StackConcat
  <2>8. \A e : IsStack(e) => Close(At(e, u, q)) = Close(At(e \o EndOf(wrapper), u, s))
    <3> HIDE DEF s
    <3> QED BY <2>2, ClosesOne
  <2>9. ev \o F = (h \o E) \o EndOf(wrapper)
    <3>1. Assoc(ev, HeadOf(code), E) /\ Assoc(ev, HeadOf(code) \o E, EndOf(wrapper))
      BY <1>5, <1>7, StackConcat, Associates
    <3> QED BY <3>1, Zenon DEF Assoc, F
  <2> HIDE DEF s, p, q, h
  <2>10. Walk(Step(At(ev, u, open), a), A) = Close(At(h \o E, u, q))
    <3>1. CASE n > 0
      <4>1. Close(At(h, u, p)) = At(h, u, p)
        BY <2>4, <2>5, <3>1, CloseNothing
      <4>2. MayRead("whole", p, SizeOf(A))
        BY <1>1, <2>5, <3>1 DEF MayRead
      <4>3. Walk(At(h, u, p), A) = Close(At(h \o E, u, Spend(p, SizeOf(A))))
        BY <1>7, <2>4, <2>5, <4>2, ReadsIs
      <4> QED BY <1>1, <2>3, <2>5, <4>1, <4>3
    <3>2. CASE n = 0
      <4>1. A = << >>
        BY <1>1, <3>2 DEF Reads, Solid
      <4>2. E = << >>
        BY <4>1, ReadsEmpty
      <4>3. Len(A) = 0 /\ h \o E = h
        BY <2>4, <4>1, <4>2, ConcatNothing
      <4>4. p = q
        BY <3>2 DEF p, q
      <4>5. Walk(Close(At(h, u, p)), A) = Close(At(h, u, p))
        BY <4>3, WalkNone
      <4> QED BY <2>3, <4>3, <4>4, <4>5
    <3> QED BY <3>1, <3>2
  <2> QED BY <2>6, <2>7, <2>8, <2>9, <2>10 DEF s
<1>8. Reads(t, one \o A, F, "whole")
  BY <1>4, <1>5, <1>7, Zenon DEF Reads, ReadAs
<1> QED BY <1>4, <1>8 DEF one, F
-----------------------------------------------------------------------------
(***************************************************************************)
(* What every atom leaves alone.                                           *)
(***************************************************************************)
ReaderFields == {"events", "tbl", "open", "ok"}

IsReader(d) == DOMAIN d = ReaderFields /\ IsStack(d.events) /\ IsStack(d.open)

\* From d to e events were only added, and a fault stays one.
ReadsOn(d, e) == IsReader(e) /\ Leads(d.events, e.events) /\ (e.ok => d.ok)

\* Reading on is reflexive
LEMMA ReadsOnItself ==
  ASSUME NEW d, IsReader(d)
  PROVE  ReadsOn(d, d)
BY LeadsItself DEF IsReader, ReadsOn

\* and transitive.
LEMMA ReadsOnOn ==
  ASSUME NEW d, IsReader(d), NEW e, ReadsOn(d, e), NEW f, ReadsOn(e, f)
  PROVE  ReadsOn(d, f)
BY LeadsOn DEF IsReader, ReadsOn

\* A list with another last member.
LEMMA TopReplaced ==
  ASSUME NEW s, IsStack(s), s # << >>, NEW x
  PROVE  IsStack([s EXCEPT ![Len(s)] = x])
<1>1. PICK S : s \in Seq(S)
  BY DEF IsStack
<1>2. s \in Seq(S \cup {x})
  BY <1>1, SeqMonotonic
<1>3. Len(s) \in 1 .. Len(s)
  BY StackLen
<1>4. [s EXCEPT ![Len(s)] = x] \in Seq(S \cup {x})
  BY <1>2, <1>3, ExceptSeq
<1> QED BY <1>4 DEF IsStack

\* Other extents are no events, and neither is a fault.
LEMMA PutReadsOn ==
  ASSUME NEW d, IsReader(d), NEW s, IsStack(s), NEW q, q => d.ok
  PROVE  ReadsOn(d, Put(d, s, q)) /\ Put(d, s, q).tbl = d.tbl
<1> DEFINE e == Put(d, s, q)
<1>1. DOMAIN e = ReaderFields /\ e.events = d.events /\ e.tbl = d.tbl /\ e.open = s
  BY DEF Put, IsReader, ReaderFields
<1>2. e.ok = q
  BY DEF Put, IsReader, ReaderFields
<1> HIDE DEF e
<1>3. Leads(e.events, e.events)
  BY <1>1, LeadsItself DEF IsReader
<1> QED BY <1>1, <1>2, <1>3 DEF ReadsOn, IsReader, e

\* Bytes that are used up are no events.
LEMMA UseReadsOn ==
  ASSUME NEW d, IsReader(d), NEW size
  PROVE  ReadsOn(d, Use(d, size)) /\ Use(d, size).tbl = d.tbl
<1>1. CASE d.open = << >>
  BY <1>1, ReadsOnItself DEF Use
<1>2. CASE d.open # << >>
  <2> DEFINE k == Len(d.open)
             s == [d.open EXCEPT ![k].left = @ - size]
             x == [d.open[k] EXCEPT !.left = @ - size]
             q == d.ok /\ size <= Top(d.open).left
  <2>1. Use(d, size) = Put(d, s, q)
    BY <1>2 DEF Use, Put
  <2>2. s = [d.open EXCEPT ![k] = x]
    OBVIOUS
  <2>3. IsStack(s)
    <3>1. IsStack(d.open)
      BY DEF IsReader
    <3> HIDE DEF x
    <3> QED BY <1>2, <2>2, <3>1, TopReplaced
  <2>4. q => d.ok
    OBVIOUS
  <2> HIDE DEF s, q
  <2> QED BY <2>1, <2>3, <2>4, PutReadsOn
<1> QED BY <1>1, <1>2

\* An event comes behind the others.
LEMMA TellReadsOn ==
  ASSUME NEW d, IsReader(d), NEW e
  PROVE  ReadsOn(d, Tell(d, e)) /\ Tell(d, e).tbl = d.tbl
<1> DEFINE u == Tell(d, e)
<1>1. DOMAIN u = ReaderFields /\ u.events = Append(d.events, e) /\ u.tbl = d.tbl /\ u.open = d.open
  BY DEF Tell, IsReader, ReaderFields
<1>2. u.ok = d.ok
  BY DEF Tell, IsReader, ReaderFields
<1> HIDE DEF u
<1>3. IsStack(d.events) /\ IsStack(d.open)
  BY DEF IsReader
<1>4. IsStack(Append(d.events, e)) /\ Leads(d.events, Append(d.events, e))
  BY <1>3, StackPushed, LeadsItself
<1> QED BY <1>1, <1>2, <1>3, <1>4 DEF ReadsOn, IsReader, u

\* The extents kept of any list.
LEMMA KeepOfStack ==
  ASSUME NEW open, IsStack(open)
  PROVE  /\ Keep(open) \in 0 .. Len(open)
         /\ Cardinality(Over(open)) \in Nat
         /\ IsStack(SubSeq(open, 1, Keep(open)))
<1>1. Len(open) \in Nat
  BY StackLen
<1>2. Filled(open) \in SUBSET (0 .. Len(open)) /\ Filled(open) # {}
  BY <1>1 DEF Filled
<1>3. Keep(open) \in 0 .. Len(open)
  <2> HIDE DEF Filled
  <2> QED BY <1>1, <1>2, GreatestIs DEF Keep
<1>4. IsFiniteSet(Keep(open) + 1 .. Len(open))
  BY <1>1, <1>3, FS_Interval
<1>5. Over(open) \subseteq Keep(open) + 1 .. Len(open)
  BY DEF Over
<1>6. Cardinality(Over(open)) \in Nat
  BY <1>4, <1>5, FS_Subset, FS_CardinalityType
<1>7. IsStack(SubSeq(open, 1, Keep(open)))
  BY <1>1, <1>3, PrefixLeads
<1> QED BY <1>3, <1>6, <1>7

\* Events may only be added.
LEMMA SetReadsOn ==
  ASSUME NEW d, IsReader(d), NEW s, IsStack(s), NEW ev, IsStack(ev), Leads(d.events, ev)
  PROVE  ReadsOn(d, Set(d, s, ev)) /\ Set(d, s, ev).tbl = d.tbl
<1> DEFINE e == Set(d, s, ev)
<1>1. DOMAIN e = ReaderFields /\ e.events = ev /\ e.tbl = d.tbl /\ e.open = s
  BY DEF Set, IsReader, ReaderFields
<1>2. e.ok = d.ok
  BY DEF Set, IsReader, ReaderFields
<1> HIDE DEF e
<1> QED BY <1>1, <1>2 DEF ReadsOn, IsReader, e

\* The ends of containers come behind the other events.
LEMMA CloseReadsOn ==
  ASSUME NEW d, IsReader(d)
  PROVE  ReadsOn(d, Close(d)) /\ Close(d).tbl = d.tbl
<1> DEFINE s == SubSeq(d.open, 1, Keep(d.open))
           n == Cardinality(Over(d.open))
           ev == d.events \o Ends(n)
<1>1. Close(d) = Set(d, s, ev)
  BY DEF Close, Keep, Filled, Over, Ends, Set
<1>2. IsStack(d.events) /\ IsStack(d.open)
  BY DEF IsReader
<1>3. IsStack(s) /\ n \in Nat
  BY <1>2, KeepOfStack
<1> HIDE DEF s, n
<1>4. IsStack(Ends(n))
  BY <1>3, EndsAre
<1>5. IsStack(ev) /\ Leads(d.events, ev)
  BY <1>2, <1>4, StackConcat DEF Leads
<1> HIDE DEF ev
<1> QED BY <1>1, <1>3, <1>5, SetReadsOn

PlainKinds == {"tag", "field", "symbol", "annotations", "scalar"}

\* Other extents are no events.
LEMMA ReopenReadsOn ==
  ASSUME NEW d, IsReader(d), NEW s, IsStack(s)
  PROVE  ReadsOn(d, Reopen(d, s)) /\ Reopen(d, s).tbl = d.tbl
<1> DEFINE e == Reopen(d, s)
<1>1. DOMAIN e = ReaderFields /\ e.events = d.events /\ e.tbl = d.tbl /\ e.open = s
  BY DEF Reopen, IsReader, ReaderFields
<1>2. e.ok = d.ok
  BY DEF Reopen, IsReader, ReaderFields
<1> HIDE DEF e
<1>3. Leads(e.events, e.events)
  BY <1>1, LeadsItself DEF IsReader
<1> QED BY <1>1, <1>2, <1>3 DEF ReadsOn, IsReader, e

\* The event of a tag comes behind the others.
LEMMA OpenReadsOn ==
  ASSUME NEW d, IsReader(d), NEW a
  PROVE  ReadsOn(d, Open(d, a)) /\ Open(d, a).tbl = d.tbl
<1> DEFINE e  == [e |-> "begin", c |-> CHOOSE c \in Contexts : CodeOf[c] = a.code]
           d1 == IF a.code = Wrapper THEN d ELSE Tell(d, e)
           d2 == Use(d1, a.size + a.len)
           s  == Append(d2.open, Extent(a.code = Wrapper, a.len))
<1>1. Open(d, a) = Reopen(d2, s)
  BY DEF Open, Reopen
<1>2. ReadsOn(d, d1) /\ d1.tbl = d.tbl
  BY ReadsOnItself, TellReadsOn
<1> HIDE DEF d1
<1>3. ReadsOn(d1, d2) /\ d2.tbl = d1.tbl
  BY <1>2, UseReadsOn DEF ReadsOn
<1> HIDE DEF d2
<1>4. IsStack(s)
  BY <1>3, StackPushed DEF ReadsOn, IsReader
<1> HIDE DEF s
<1>5. ReadsOn(d2, Reopen(d2, s)) /\ Reopen(d2, s).tbl = d2.tbl
  BY <1>3, <1>4, ReopenReadsOn DEF ReadsOn
<1> QED BY <1>1, <1>2, <1>3, <1>5, ReadsOnOn DEF ReadsOn

\* A value's atoms leave the table in force.
LEMMA PlainReadsOn ==
  ASSUME NEW d, IsReader(d), NEW a, a.k \in PlainKinds
  PROVE  ReadsOn(d, Step(d, a)) /\ Step(d, a).tbl = d.tbl
<1>1. CASE a.k = "tag"
  <2>1. Step(d, a) = Close(Open(d, a))
    BY <1>1 DEF Step
  <2>2. ReadsOn(d, Open(d, a)) /\ Open(d, a).tbl = d.tbl
    BY OpenReadsOn
  <2>3. ReadsOn(Open(d, a), Close(Open(d, a))) /\ Close(Open(d, a)).tbl = Open(d, a).tbl
    BY <2>2, CloseReadsOn DEF ReadsOn
  <2> QED BY <2>1, <2>2, <2>3, ReadsOnOn
<1>2. ASSUME NEW e, NEW x, x \in {d, Tell(d, e)}
      PROVE  /\ ReadsOn(d, Use(x, a.size)) /\ Use(x, a.size).tbl = d.tbl
             /\ ReadsOn(d, Close(Use(x, a.size))) /\ Close(Use(x, a.size)).tbl = d.tbl
  <2>1. ReadsOn(d, x) /\ x.tbl = d.tbl
    BY <1>2, TellReadsOn, ReadsOnItself
  <2>2. ReadsOn(x, Use(x, a.size)) /\ Use(x, a.size).tbl = x.tbl
    BY <2>1, UseReadsOn DEF ReadsOn
  <2>3. ReadsOn(d, Use(x, a.size))
    BY <2>1, <2>2, ReadsOnOn
  <2>4. /\ ReadsOn(Use(x, a.size), Close(Use(x, a.size)))
        /\ Close(Use(x, a.size)).tbl = Use(x, a.size).tbl
    BY <2>2, CloseReadsOn DEF ReadsOn
  <2> QED BY <2>1, <2>2, <2>3, <2>4, ReadsOnOn
<1>3. CASE a.k = "field"
  <2> DEFINE e == [e |-> "field", name |-> NameOf(d, a.id, a.text)]
  <2>1. Step(d, a) = Use(Tell(d, e), a.size)
    BY <1>3 DEF Step
  <2> HIDE DEF e
  <2> QED BY <1>2, <2>1
<1>4. CASE a.k = "symbol"
  <2> DEFINE e == [e |-> "symbol", name |-> NameOf(d, a.id, a.text)]
  <2>1. Step(d, a) = Close(Use(Tell(d, e), a.size))
    BY <1>4 DEF Step
  <2> HIDE DEF e
  <2> QED BY <1>2, <2>1
<1>5. CASE a.k = "scalar"
  <2> DEFINE e == [e |-> "scalar", sizes |-> a.sizes]
             x == IF a.part > 1 THEN d ELSE Tell(d, e)
  <2>1. Step(d, a) = Close(Use(x, a.size))
    BY <1>5 DEF Step
  <2>2. x \in {d, Tell(d, e)}
    OBVIOUS
  <2> HIDE DEF e, x
  <2> QED BY <1>2, <2>1, <2>2
<1>6. CASE a.k = "annotations"
  <2> DEFINE e == [e |-> "annotations",
                   names |-> [i \in 1 .. Len(a.ids) |-> NameOf(d, a.ids[i], a.texts[i])]]
  <2>1. Step(d, a) = Use(Tell(d, e), a.size)
    BY <1>6 DEF Step
  <2> HIDE DEF e
  <2> QED BY <1>2, <2>1
<1> QED BY <1>1, <1>3, <1>4, <1>5, <1>6 DEF PlainKinds

\* A version marker or a table, or an atom that is torn, ends nothing.
Install(d, tbl, q) == [d EXCEPT !.tbl = tbl, !.ok = q]
Faulty(d)          == [d EXCEPT !.ok = FALSE]

\* A table is no event.
LEMMA InstallReadsOn ==
  ASSUME NEW d, IsReader(d), NEW t, NEW q, q => d.ok
  PROVE  ReadsOn(d, Install(d, t, q))
<1> DEFINE e == Install(d, t, q)
<1>1. DOMAIN e = ReaderFields /\ e.events = d.events /\ e.open = d.open
  BY DEF Install, IsReader, ReaderFields
<1>2. e.ok = q
  BY DEF Install, IsReader, ReaderFields
<1> HIDE DEF e
<1>3. Leads(e.events, e.events)
  BY <1>1, LeadsItself DEF IsReader
<1> QED BY <1>1, <1>2, <1>3 DEF ReadsOn, IsReader, e

\* A fault is no event.
LEMMA FaultyReadsOn ==
  ASSUME NEW d, IsReader(d)
  PROVE  ReadsOn(d, Faulty(d))
<1> DEFINE e == Faulty(d)
<1>1. DOMAIN e = ReaderFields /\ e.events = d.events /\ e.open = d.open
  BY DEF Faulty, IsReader, ReaderFields
<1>2. ~e.ok
  BY DEF Faulty, IsReader, ReaderFields
<1> HIDE DEF e
<1>3. Leads(e.events, e.events)
  BY <1>1, LeadsItself DEF IsReader
<1> QED BY <1>1, <1>2, <1>3 DEF ReadsOn, IsReader, e

\* Whatever the atom, a step only adds events.
LEMMA StepReadsOn ==
  ASSUME NEW d, IsReader(d), NEW a, a.k \in PlainKinds \cup {"bvm", "table", "torn"}
  PROVE  ReadsOn(d, Step(d, a))
<1>1. CASE a.k \in PlainKinds
  BY <1>1, PlainReadsOn
<1>2. CASE a.k = "bvm"
  <2> DEFINE q == d.ok /\ d.open = << >>
  <2>1. Step(d, a) = Install(d, SystemTable, q)
    BY <1>2 DEF Step, Install
  <2>2. q => d.ok
    OBVIOUS
  <2> HIDE DEF q
  <2> QED BY <2>1, <2>2, InstallReadsOn
<1>3. CASE a.k = "table"
  <2> DEFINE q == d.ok /\ d.open = << >>
             t == ReadLocalTable(a.wire, d.tbl, Catalog).tbl
  <2>1. Step(d, a) = Install(d, t, q)
    BY <1>3 DEF Step, Install
  <2>2. q => d.ok
    OBVIOUS
  <2> HIDE DEF q, t
  <2> QED BY <2>1, <2>2, InstallReadsOn
<1>4. CASE a.k = "torn"
  <2>1. Step(d, a) = Faulty(d)
    BY <1>4 DEF Step, Faulty
  <2> QED BY <2>1, FaultyReadsOn
<1> QED BY <1>1, <1>2, <1>3, <1>4

\* So do many of them.
IsAtoms(A) == IsStack(A) /\ \A i \in 1 .. Len(A) : A[i].k \in PlainKinds \cup {"bvm", "table", "torn"}

\* And so does a walk; it keeps its table unless it meets a table or a version marker.
LEMMA WalkReadsOn ==
  ASSUME NEW d, IsReader(d), NEW A, IsAtoms(A)
  PROVE  /\ ReadsOn(d, Walk(d, A))
         /\ (\A i \in 1 .. Len(A) : A[i].k \in PlainKinds) => Walk(d, A).tbl = d.tbl
<1>1. PICK n \in Nat : n = Len(A)
  BY StackLen DEF IsAtoms
<1>2. PICK f : Runs(f, d, A, n) /\ Walk(d, A) = f[n]
  BY <1>1, WalkRuns
<1> DEFINE AllOf == \A i \in 1 .. n : A[i].k \in PlainKinds
           S     == {k \in 0 .. n : ReadsOn(d, f[k]) /\ (AllOf => f[k].tbl = d.tbl)}
<1>3. 0 \in S
  BY <1>2, ReadsOnItself DEF Runs
<1>4. ASSUME NEW k \in 1 .. n, k - 1 \in S
      PROVE  k \in S
  <2>1. f[k] = Step(f[k - 1], A[k])
    BY <1>2 DEF Runs
  <2>2. ReadsOn(d, f[k - 1]) /\ (AllOf => f[k - 1].tbl = d.tbl)
    BY <1>4
  <2> HIDE DEF S
  <2>3. IsReader(f[k - 1]) /\ A[k].k \in PlainKinds \cup {"bvm", "table", "torn"}
    BY <1>1, <2>2 DEF ReadsOn, IsAtoms
  <2>4. ReadsOn(f[k - 1], f[k])
    BY <2>1, <2>3, StepReadsOn
  <2>5. ReadsOn(d, f[k])
    BY <2>2, <2>4, ReadsOnOn
  <2>6. AllOf => A[k].k \in PlainKinds
    OBVIOUS
  <2>7. AllOf => f[k].tbl = d.tbl
    BY <2>1, <2>2, <2>3, <2>6, PlainReadsOn
  <2> QED BY <2>5, <2>7 DEF S
<1> HIDE DEF S
<1>5. n \in S
  BY <1>3, <1>4, Induction
<1> QED BY <1>1, <1>2, <1>5 DEF S
-----------------------------------------------------------------------------
(***************************************************************************)
(* The output, whole and torn.                                             *)
(***************************************************************************)
\* What was written out without a failure.
IsOutput(out) == IsStack(out) /\ \A i \in 1 .. Len(out) : out[i].k \in PlainKinds \cup {"bvm", "table"}

\* Output behind output is output,
LEMMA OutputConcat ==
  ASSUME NEW a, NEW b, IsOutput(a), IsOutput(b)
  PROVE  IsOutput(a \o b)
<1>1. /\ IsStack(a \o b) /\ Len(a \o b) = Len(a) + Len(b)
      /\ \A i \in 1 .. Len(a) + Len(b) : (a \o b)[i] = IF i <= Len(a) THEN a[i] ELSE b[i - Len(a)]
  BY StackConcat DEF IsOutput
<1>2. Len(a) \in Nat /\ Len(b) \in Nat
  BY StackLen DEF IsOutput
<1>3. ASSUME NEW i \in 1 .. Len(a) + Len(b)
      PROVE  (a \o b)[i].k \in PlainKinds \cup {"bvm", "table"}
  <2>1. CASE i <= Len(a)
    BY <1>1, <1>2, <1>3, <2>1 DEF IsOutput
  <2>2. CASE ~(i <= Len(a))
    <3>1. i - Len(a) \in 1 .. Len(b)
      BY <1>2, <1>3, <2>2
    <3> QED BY <1>1, <1>3, <2>2, <3>1 DEF IsOutput
  <2> QED BY <2>1, <2>2
<1> QED BY <1>1, <1>3 DEF IsOutput

\* and the parts of output are output.
LEMMA OutputParts ==
  ASSUME NEW a, NEW b, IsStack(a), IsStack(b), IsOutput(a \o b)
  PROVE  IsOutput(a) /\ IsOutput(b)
<1>1. /\ Len(a \o b) = Len(a) + Len(b)
      /\ \A i \in 1 .. Len(a) + Len(b) : (a \o b)[i] = IF i <= Len(a) THEN a[i] ELSE b[i - Len(a)]
  BY StackConcat
<1>2. Len(a) \in Nat /\ Len(b) \in Nat
  BY StackLen
<1>3. ASSUME NEW i \in 1 .. Len(a)
      PROVE  a[i].k \in PlainKinds \cup {"bvm", "table"}
  <2>1. i \in 1 .. Len(a) + Len(b) /\ i <= Len(a)
    BY <1>2
  <2> QED BY <1>1, <2>1 DEF IsOutput
<1>4. ASSUME NEW i \in 1 .. Len(b)
      PROVE  b[i].k \in PlainKinds \cup {"bvm", "table"}
  <2>1. Len(a) + i \in 1 .. Len(a) + Len(b) /\ ~(Len(a) + i <= Len(a)) /\ Len(a) + i - Len(a) = i
    BY <1>2
  <2> QED BY <1>1, <2>1 DEF IsOutput
<1> QED BY <1>3, <1>4 DEF IsOutput

\* Output is whole, and so it is up to a torn atom.
LEMMA WholeOutput ==
  ASSUME NEW out, IsOutput(out)
  PROVE  Whole(out) = out /\ Whole(Append(out, Torn)) = out
<1>1. PICK n \in Nat : n = Len(out)
  BY StackLen DEF IsOutput
<1>2. \A i \in 1 .. n : out[i].k # "torn"
  BY <1>1 DEF IsOutput, PlainKinds
<1>3. Whole(out) = out
  BY <1>1, <1>2 DEF Whole
<1> DEFINE c == Append(out, Torn)
           torn == {i \in 1 .. Len(c) : c[i].k = "torn"}
<1>4. Len(c) = n + 1 /\ (\A i \in 1 .. n : c[i] = out[i]) /\ c[n + 1] = Torn
  BY <1>1, StackPushed DEF IsOutput
<1> HIDE DEF c
<1>5. torn = {n + 1}
  <2>1. Torn.k = "torn"
    BY DEF Torn
  <2>2. \A i \in 1 .. n + 1 : i \in 1 .. n \/ i = n + 1
    OBVIOUS
  <2> QED BY <1>2, <1>4, <2>1, <2>2
<1> HIDE DEF torn
<1>6. MinOf(torn) = n + 1
  BY <1>5, MinIs
<1>7. Whole(c) = SubSeq(c, 1, n)
  <2>1. Whole(c) = IF torn = {} THEN c ELSE SubSeq(c, 1, MinOf(torn) - 1)
    BY DEF Whole, torn
  <2> QED BY <1>5, <1>6, <2>1
<1>8. SubSeq(c, 1, n) = out
  <2>1. PICK S : out \in Seq(S)
    BY DEF IsStack, IsOutput
  <2>2. \A i \in 1 .. n : c[i] \in S
    BY <1>1, <1>4, <2>1, ElementOfSeq
  <2>3. /\ SubSeq(c, 1, n) \in Seq(S) /\ Len(SubSeq(c, 1, n)) = n
        /\ \A i \in 1 .. n : SubSeq(c, 1, n)[i] = c[i]
    BY <2>2, StackPrefix
  <2> QED BY <1>1, <1>4, <2>1, <2>3, SeqEqual
<1> QED BY <1>3, <1>7, <1>8 DEF c

\* EmitTo writes all of the atoms, or what leads them and a torn one.
BrokenOff(v, u, p) == u.ret = "io" /\ IsOutput(v.out \o p) /\ Whole(u.out) = v.out \o p

\* All of the atoms are out, or the first of them.
LEMMA EmitToIs ==
  ASSUME NEW v, DOMAIN v = Fields, IsOutput(v.out), NEW A, IsOutput(A), NEW u, u = EmitTo(v, A)
  PROVE  \/ u.ret = "nil" /\ u.out = v.out \o A
         \/ \E p, r : IsOutput(p) /\ IsOutput(r) /\ A = p \o r /\ BrokenOff(v, u, p)
<1> DEFINE failing == {i \in 1 .. Len(A) : v.writes + i \in v.fault[1] .. v.fault[2]}
           first == MinOf(failing)
           p     == SubSeq(A, 1, first - 1)
<1>1. CASE failing = {}
  <2>1. u = [v EXCEPT !.out = @ \o A, !.writes = @ + Len(A), !.ret = "nil"]
    BY <1>1 DEF EmitTo
  <2> QED BY <2>1 DEF Fields
<1>2. CASE failing # {}
  <2>1. u = [v EXCEPT !.out = @ \o Append(p, Torn), !.writes = @ + first, !.ret = "io"]
    BY <1>2 DEF EmitTo
  <2>2. u.out = v.out \o Append(p, Torn) /\ u.ret = "io"
    <3> HIDE DEF p, first
    <3> QED BY <2>1 DEF Fields
  <2>3. first \in 1 .. Len(A)
    <3>1. failing \subseteq Nat
      BY StackLen DEF IsOutput
    <3>2. first \in failing
      <4> HIDE DEF failing
      <4> QED BY <1>2, <3>1, MinOfNats
    <3> QED BY <3>2
  <2> HIDE DEF failing, first
  <2>4. first - 1 \in Nat /\ first - 1 <= Len(A)
    BY <2>3, StackLen DEF IsOutput
  <2>5. IsStack(p) /\ Leads(p, A)
    BY <2>4, PrefixLeads DEF IsOutput
  <2> HIDE DEF p
  <2>6. PICK r : IsStack(r) /\ A = p \o r
    BY <2>5 DEF Leads
  <2>7. IsOutput(p) /\ IsOutput(r)
    BY <2>5, <2>6, OutputParts
  <2> DEFINE out == v.out
  <2>8. v.out \o Append(p, Torn) = Append(v.out \o p, Torn)
    <3>1. IsStack(out) /\ IsStack(p)
      BY <2>5 DEF IsOutput
    <3> HIDE DEF out
    <3>2. Append(out \o p, Torn) = out \o Append(p, Torn)
      BY <3>1, AppendLast
    <3> QED BY <3>2 DEF out
  <2>9. IsOutput(v.out \o p)
    BY <2>7, OutputConcat
  <2>10. Whole(u.out) = v.out \o p
    BY <2>2, <2>8, <2>9, WholeOutput
  <2> QED BY <2>2, <2>6, <2>7, <2>9, <2>10 DEF BrokenOff
<1> QED BY <1>1, <1>2

\* A reader reads on where it was.
LEMMA DecodeReads ==
  ASSUME NEW out, IsOutput(out)
  PROVE  /\ IsReader(Decode(out))
         /\ \A A : IsOutput(A) => Decode(out \o A) = Walk(Decode(out), A)
<1>1. IsReader(Start)
  BY Tuples DEF IsReader, Start, ReaderFields
<1>2. IsAtoms(out)
  BY DEF IsAtoms, IsOutput
<1>3. IsReader(Decode(out))
  BY <1>1, <1>2, WalkReadsOn, DecodeIsWalk DEF ReadsOn
<1>4. ASSUME NEW A, IsOutput(A)
      PROVE  Decode(out \o A) = Walk(Decode(out), A)
  BY <1>4, WalkConcat, DecodeIsWalk DEF IsOutput
<1> QED BY <1>3, <1>4

\* A reader of nothing is where it starts.
LEMMA DecodeNothing == IsOutput(<< >>) /\ Decode(<< >>) = Start
<1>1. IsOutput(<< >>)
  BY Tuples DEF IsOutput
<1>2. Len(<< >>) = 0
  OBVIOUS
<1> DEFINE none == << >>
<1>3. Len(none) = 0
  BY <1>2
<1> HIDE DEF none
<1>4. Walk(Start, none) = Start
  BY <1>3, WalkNone
<1> QED BY <1>1, <1>4, DecodeIsWalk DEF none
-----------------------------------------------------------------------------
(***************************************************************************)
(* Tables, written and read back.                                          *)
(***************************************************************************)
SameIDs(t, u) == u.imports = t.imports /\ u.symbols = t.symbols

\* Tables with the same imports and symbols have the same ids.
LEMMA SameIDsMean ==
  ASSUME NEW t, NEW u, SameIDs(t, u)
  PROVE  Later(t, u) /\ MaxID(u) = MaxID(t)
<1>1. MaxImportID(u) = MaxImportID(t)
  BY DEF SameIDs, MaxImportID
<1>2. \A id : FindByID(u, id) = FindByID(t, id)
  BY <1>1 DEF SameIDs, FindByID
<1> QED BY <1>1, <1>2 DEF SameIDs, MaxID, Later

Offered(s) == Importable(s) /\ s \in Catalog

\* The tables of the writer: what they import can be read again.
IsWritable(tbl) ==
  /\ IsTable(tbl) /\ tbl.imports[1] = V1System
  /\ \A i \in 2 .. Len(tbl.imports) : Offered(tbl.imports[i])

\* A table of the catalog is a shared table with a name and a version.
LEMMA OfferedIs ==
  ASSUME NEW s, Offered(s)
  PROVE  IsShared(s) /\ ~PassedOver(s.name) /\ s.version \in Nat \ {0}
<1>1. /\ s = [name |-> s.name, version |-> s.version, symbols |-> s.symbols, maxID |-> s.maxID]
      /\ s.symbols \in Seq(Text) /\ s.maxID \in Nat /\ Len(s.symbols) <= s.maxID
      /\ ~PassedOver(s.name) /\ s.version \in Nat \ {0}
  BY Zenon DEF Offered, Importable, PassedOver
<1>2. DOMAIN [name |-> s.name, version |-> s.version, symbols |-> s.symbols, maxID |-> s.maxID]
        = {"name", "version", "symbols", "maxID"}
  OBVIOUS
<1>3. DOMAIN s = {"name", "version", "symbols", "maxID"}
  BY <1>1, <1>2, Zenon
<1> QED BY <1>1, <1>3 DEF IsShared

\* An import that takes all the ids of the shared table is the table.
LEMMA AdjustSame ==
  ASSUME NEW n, NEW v, NEW y \in Seq(Text), NEW m \in Nat, Len(y) <= m,
         NEW s, s = [name |-> n, version |-> v, symbols |-> y, maxID |-> m]
  PROVE  Adjust(s, m) = s
<1>1. Len(y) \in Nat
  BY LenProperties
<1>2. CASE m > Len(y)
  <2>1. Adjust(s, m) = [s EXCEPT !.maxID = m]
    BY <1>2 DEF Adjust
  <2> QED BY <2>1
<1>3. CASE ~(m > Len(y))
  <2>1. m = Len(y)
    BY <1>1, <1>3
  <2>2. SubSeq(y, 1, m) = y
    <3>1. \A i \in 1 .. m : y[i] \in Text
      BY <2>1, ElementOfSeq
    <3>2. /\ SubSeq(y, 1, m) \in Seq(Text) /\ Len(SubSeq(y, 1, m)) = m
          /\ \A i \in 1 .. m : SubSeq(y, 1, m)[i] = y[i]
      BY <3>1, StackPrefix
    <3> QED BY <2>1, <3>2, SeqEqual
  <2> DEFINE z == SubSeq(y, 1, m)
  <2>3. Adjust(s, m) = [s EXCEPT !.symbols = z, !.maxID = m]
    BY <1>3 DEF Adjust
  <2> DEFINE k == m
  <2>4. z = y /\ k = m
    BY <2>2
  <2> HIDE DEF z, k
  <2> DEFINE x == [s EXCEPT !.symbols = z]
  <2>5. x = [name |-> n, version |-> v, symbols |-> z, maxID |-> m]
    OBVIOUS
  <2>6. [s EXCEPT !.symbols = z, !.maxID = k] = [x EXCEPT !.maxID = k]
    BY Zenon
  <2> HIDE DEF x
  <2>7. [x EXCEPT !.maxID = k] = [name |-> n, version |-> v, symbols |-> z, maxID |-> k]
    BY <2>5
  <2> QED BY <2>3, <2>4, <2>6, <2>7, Zenon
<1> QED BY <1>2, <1>3

DeclOf(s) == [name |-> s.name, version |-> s.version, maxID |-> s.maxID]

\* A declaration is read back as the table it declares: nothing of it is cut off.
LEMMA ImportReadBack ==
  ASSUME NEW s, Offered(s)
  PROVE  ReadImport(DeclOf(s), Catalog) = [err |-> "nil", imps |-> <<s>>]
<1> DEFINE decl    == DeclOf(s)
           version == Version(decl)
           exact   == FindExact(Catalog, decl.name, version)
           found   == IF exact # {} THEN exact ELSE FindLatest(Catalog, decl.name)
           imp     == CHOOSE x \in found : TRUE
           maxID   == IF decl.maxID < 0 THEN imp.maxID ELSE decl.maxID
           refused == decl.maxID < 0 /\ (found = {} \/ imp.version # version)
           r       == ReadImport(decl, Catalog)
<1>1. r = IF PassedOver(decl.name) THEN [err |-> "nil", imps |-> << >>]
          ELSE IF refused THEN [err |-> "nomaxid", imps |-> << >>]
          ELSE IF found = {}
          THEN [err |-> "nil", imps |-> <<BogusSST(decl.name, version, maxID)>>]
          ELSE [err |-> "nil", imps |-> <<Adjust(imp, maxID)>>]
  BY Zenon DEF ReadImport, PassedOver, Version
<1>2. IsShared(s) /\ ~PassedOver(s.name) /\ s.version \in Nat \ {0}
  BY OfferedIs
<1>3. decl.name = s.name /\ decl.version = s.version /\ decl.maxID = s.maxID /\ s.maxID \in Nat
  BY <1>2 DEF DeclOf, IsShared
<1>4. version = s.version
  BY <1>2, <1>3 DEF Version
<1> HIDE DEF decl, version
<1>5. exact = {s}
  <2>1. s \in Catalog /\ \A o \in Catalog : o.name = s.name /\ o.version = s.version => o = s
    BY Zenon DEF Offered, Importable
  <2> QED BY <1>3, <1>4, <2>1 DEF FindExact
<1>6. found = {s}
  <2> HIDE DEF exact
  <2> QED BY <1>5
<1>7. imp = s
  <2> HIDE DEF found
  <2> QED BY <1>6
<1>8. maxID = s.maxID /\ ~refused
  <2> HIDE DEF imp, found
  <2> QED BY <1>3
<1>9. Adjust(s, s.maxID) = s
  <2>1. s = [name |-> s.name, version |-> s.version, symbols |-> s.symbols, maxID |-> s.maxID]
    BY Zenon DEF Offered, Importable
  <2> QED BY <1>2, <2>1, AdjustSame DEF IsShared
<1> HIDE DEF imp, found, maxID, refused, r
<1>10. r = [err |-> "nil", imps |-> <<Adjust(imp, maxID)>>]
  <2>1. ~PassedOver(decl.name) /\ ~refused /\ found # {}
    BY <1>2, <1>3, <1>6, <1>8
  <2> QED BY <1>1, <2>1, Zenon
<1>11. r = [err |-> "nil", imps |-> <<s>>]
  BY <1>7, <1>8, <1>9, <1>10, Zenon
<1> QED BY <1>11, Zenon DEF r, decl

\* The imports are read back in order,
LEMMA ImportsReadBack ==
  ASSUME NEW imports, IsStack(imports), NEW n \in Nat, n = Len(imports),
         \A i \in 1 .. n : Offered(imports[i]),
         NEW decls, Len(decls) = n, \A i \in 1 .. n : decls[i] = DeclOf(imports[i])
  PROVE  ReadImports(decls, Catalog).err = "nil" /\ ReadImports(decls, Catalog).imps = imports
<1>1. PICK f : Reading(f, decls, Catalog, n) /\ ReadImports(decls, Catalog) = f[n]
  BY ReadImportsIs
<1> DEFINE Good(imps, k) == IsStack(imps) /\ Len(imps) = k /\ \A i \in 1 .. k : imps[i] = imports[i]
           S == {k \in 0 .. n : f[k].err = "nil" /\ Good(f[k].imps, k)}
<1>2. 0 \in S
  <2>1. f[0] = NoneRead
    BY <1>1 DEF Reading, ReadUpTo
  <2>2. f[0].imps = << >> /\ f[0].err = "nil"
    BY <2>1 DEF NoneRead
  <2>3. IsStack(<< >>) /\ Len(<< >>) = 0
    BY Tuples
  <2>4. Good(f[0].imps, 0)
    BY <2>2, <2>3
  <2> QED BY <2>2, <2>4
<1>3. ASSUME NEW k \in 1 .. n, k - 1 \in S
      PROVE  k \in S
  <2> DEFINE x == f[k - 1]
             s == imports[k]
             y == x.imps
             one == <<s>>
             both == y \o one
  <2>1. f[k] = ReadUpTo(k, x, decls, Catalog) /\ k # 0
    BY <1>1 DEF Reading
  <2>2. x.err = "nil" /\ Good(y, k - 1)
    BY <1>3
  <2>3. ReadImport(decls[k], Catalog) = [err |-> "nil", imps |-> one]
    BY ImportReadBack
  <2> HIDE DEF x
  <2>4. f[k] = OneMoreRead(x, ReadImport(decls[k], Catalog))
    BY <2>1, <2>2 DEF ReadUpTo
  <2> HIDE DEF one
  <2>5. f[k].err = "nil" /\ f[k].imps = both
    BY <2>3, <2>4 DEF OneMoreRead
  <2>6. IsStack(one) /\ Len(one) = 1 /\ one[1] = s
    BY Tuples DEF one
  <2>7. /\ IsStack(both) /\ Len(both) = k - 1 + 1
        /\ \A i \in 1 .. k - 1 + 1 : both[i] = IF i <= k - 1 THEN y[i] ELSE one[i - (k - 1)]
    <3> HIDE DEF y
    <3>1. /\ IsStack(both) /\ Len(both) = Len(y) + Len(one)
          /\ \A i \in 1 .. Len(y) + Len(one) : both[i] = IF i <= Len(y) THEN y[i] ELSE one[i - Len(y)]
      BY <2>2, <2>6, StackConcat
    <3> QED BY <2>2, <2>6, <3>1
  <2> HIDE DEF both, y
  <2>8. ASSUME NEW i \in 1 .. k
        PROVE  both[i] = imports[i]
    <3>1. CASE i <= k - 1
      BY <2>2, <2>7, <3>1
    <3>2. CASE ~(i <= k - 1)
      <4>1. i = k /\ i - (k - 1) = 1
        BY <3>2
      <4>2. both[i] = one[i - (k - 1)]
        BY <2>7, <3>2
      <4> QED BY <2>6, <4>1, <4>2 DEF s
    <3> QED BY <3>1, <3>2
  <2>9. k - 1 + 1 = k
    OBVIOUS
  <2>10. Good(f[k].imps, k)
    BY <2>5, <2>7, <2>8, <2>9
  <2> HIDE DEF Good
  <2> QED BY <2>5, <2>10
<1> HIDE DEF S
<1>4. n \in S
  <2>1. \A k \in 0 .. n : k \in S
    BY <1>2, <1>3, Induction
  <2> QED BY <2>1
<1>5. f[n].err = "nil" /\ Good(f[n].imps, n)
  BY <1>4 DEF S
<1>6. f[n].imps = imports
  BY <1>5, SameStacks
<1> QED BY <1>1, <1>5, <1>6

\* and so is the table: its ids keep their texts.
LEMMA ReadBack ==
  ASSUME NEW t, IsWritable(t), NEW r, r = ReadLocalTable(WriteTo(t), SystemTable, Catalog).tbl
  PROVE  SameIDs(t, r)
<1>1. IsTable(t) /\ t.imports[1] = V1System
  BY DEF IsWritable
<1>2. PICK m \in Nat \ {0} : m = Len(t.imports)
  BY <1>1, TableLayout
<1>3. IsStack(t.imports)
  BY <1>1 DEF IsTable, AreImports
<1>4. CASE m = 1 /\ t.symbols = << >>
  <2>1. WriteTo(t) = [kind |-> "absent"]
    BY <1>2, <1>4 DEF WriteTo
  <2>2. r = SystemTable
    BY <2>1 DEF ReadLocalTable
  <2>3. SystemTable.symbols = << >> /\ SystemTable.imports = ProcessImports(<< >>)
    BY DEF SystemTable, NewLocalTable
  <2>4. ProcessImports(<< >>) = Full(<< >>)
    BY Zenon DEF ProcessImports, Full
  <2>5. /\ Len(Full(<< >>)) = 1 /\ AreImports(Full(<< >>)) /\ Full(<< >>)[1] = V1System
    <3> DEFINE none == << >>
    <3>1. AreImports(none) /\ Len(none) = 0
      BY FewImports, Tuples
    <3> HIDE DEF none
    <3>2. Len(Full(none)) = 0 + 1 /\ AreImports(Full(none)) /\ Full(none)[1] = V1System
      BY <3>1, FullImports
    <3> QED BY <3>2 DEF none
  <2>6. t.imports = Full(<< >>)
    <3> DEFINE full == Full(<< >>)
    <3>1. Len(full) = 1 /\ IsStack(full) /\ full[1] = V1System
      BY <2>5 DEF AreImports
    <3> HIDE DEF full
    <3>2. Len(t.imports) = 1 /\ \A i \in 1 .. Len(full) : full[i] = t.imports[i]
      BY <1>1, <1>2, <1>4, <3>1
    <3>3. t.imports = full
      BY <1>3, <3>1, <3>2, SameStacks
    <3> QED BY <3>3 DEF full
  <2> QED BY <1>4, <2>2, <2>3, <2>4, <2>6 DEF SameIDs
<1>5. CASE ~(m = 1 /\ t.symbols = << >>)
  <2> DEFINE decls == [i \in 1 .. Len(t.imports) - 1 |->
                         [name    |-> t.imports[i + 1].name,
                          version |-> t.imports[i + 1].version,
                          maxID   |-> t.imports[i + 1].maxID]]
             imports == [i \in 1 .. m - 1 |-> t.imports[i + 1]]
             o == ReadImports(decls, Catalog)
  <2>1. WriteTo(t) = [kind |-> "table", imports |-> decls, symbols |-> t.symbols]
    BY <1>2, <1>5 DEF WriteTo
  <2>2. Len(decls) = m - 1 /\ \A i \in 1 .. m - 1 : decls[i] = DeclOf(t.imports[i + 1])
    BY <1>2 DEF DeclOf
  <2>3. /\ IsStack(imports) /\ Len(imports) = m - 1
        /\ \A i \in 1 .. m - 1 : imports[i] = t.imports[i + 1]
    <3> DEFINE g == [i \in 1 .. m - 1 |-> t.imports[i + 1]]
               tail == [j \in 1 .. m |-> t.imports[j + 1]]
    <3>1. m - 1 \in Nat
      OBVIOUS
    <3>2. IsStack([i \in 1 .. m - 1 |-> tail[i]])
      <4> HIDE DEF tail
      <4> QED BY <3>1, FunctionList
    <3>3. g = [i \in 1 .. m - 1 |-> tail[i]]
      OBVIOUS
    <3>4. Len(g) = m - 1
      BY <3>1
    <3> QED BY <3>2, <3>3, <3>4
  <2>4. \A i \in 1 .. m - 1 : Offered(t.imports[i + 1])
    <3>1. \A i \in 1 .. m - 1 : i + 1 \in 2 .. m
      OBVIOUS
    <3> QED BY <1>2, <3>1 DEF IsWritable
  <2>5. r = IF o.err # "nil" THEN SystemTable ELSE NewLocalTable(o.imps, t.symbols)
    <3> HIDE DEF decls
    <3> DEFINE wire == WriteTo(t)
    <3>1. wire.kind = "table" /\ wire.imports = decls /\ wire.symbols = t.symbols
      BY <2>1
    <3>2. r = ReadLocalTable(wire, SystemTable, Catalog).tbl
      OBVIOUS
    <3> HIDE DEF wire
    <3>3. ReadLocalTable(wire, SystemTable, Catalog)
            = IF o.err # "nil" THEN [err |-> o.err, tbl |-> SystemTable]
              ELSE [err |-> "nil", tbl |-> NewLocalTable(o.imps, t.symbols)]
      BY <3>1 DEF ReadLocalTable
    <3> HIDE DEF o
    <3> QED BY <3>2, <3>3
  <2> HIDE DEF decls, imports
  <2>6. o.err = "nil" /\ o.imps = imports
    <3>1. PICK k \in Nat : k = m - 1
      OBVIOUS
    <3>2. k = Len(imports) /\ \A i \in 1 .. k : Offered(imports[i])
      BY <2>3, <2>4, <3>1
    <3>3. Len(decls) = k /\ \A i \in 1 .. k : decls[i] = DeclOf(imports[i])
      BY <2>2, <2>3, <3>1
    <3> QED BY <2>3, <3>2, <3>3, ImportsReadBack
  <2> HIDE DEF o
  <2>7. r = NewLocalTable(imports, t.symbols)
    BY <2>5, <2>6
  <2>8. AreImports(imports)
    BY <2>3, <2>4, OfferedIs DEF AreImports
  <2>9. r.symbols = t.symbols /\ r.imports = ProcessImports(imports)
    BY <2>7 DEF NewLocalTable
  <2>10. ProcessImports(imports) = Full(imports)
    <3>1. ASSUME imports # << >>
          PROVE  imports[1].name # "$ion"
      <4>1. 1 \in 1 .. m - 1
        BY <2>3, <3>1, StackLen
      <4>2. ~PassedOver(imports[1].name)
        BY <2>3, <2>4, <4>1, OfferedIs
      <4> QED BY <4>2, Zenon DEF PassedOver
    <3> QED BY <3>1, Zenon DEF ProcessImports, Full
  <2>11. /\ Len(Full(imports)) = m - 1 + 1 /\ IsStack(Full(imports)) /\ Full(imports)[1] = V1System
         /\ \A i \in 1 .. m - 1 : Full(imports)[i + 1] = imports[i]
    BY <2>3, <2>8, FullImports DEF AreImports
  <2>12. ASSUME NEW i \in 1 .. m
         PROVE  Full(imports)[i] = t.imports[i]
    <3>1. CASE i = 1
      BY <1>1, <2>11, <3>1
    <3>2. CASE i # 1
      <4>1. i - 1 \in 1 .. m - 1 /\ i - 1 + 1 = i
        BY <3>2
      <4>2. Full(imports)[i - 1 + 1] = imports[i - 1] /\ imports[i - 1] = t.imports[i - 1 + 1]
        BY <2>3, <2>11, <4>1
      <4> QED BY <4>1, <4>2
    <3> QED BY <3>1, <3>2
  <2>13. Full(imports) = t.imports
    <3> DEFINE full == Full(imports)
    <3>1. Len(full) = m /\ IsStack(full) /\ \A i \in 1 .. m : full[i] = t.imports[i]
      BY <2>11, <2>12
    <3> HIDE DEF full
    <3>2. full = t.imports
      BY <1>2, <1>3, <3>1, SameStacks
    <3> QED BY <3>2 DEF full
  <2> QED BY <2>9, <2>10, <2>13 DEF SameIDs
<1> QED BY <1>4, <1>5
-----------------------------------------------------------------------------
(***************************************************************************)
(* How the writer's table grows.                                           *)
(***************************************************************************)
IsTableOf(given, t) == IsWritable(t) /\ (~given => IsBuilder(t))

GrowsTo(t, u) == u = t \/ (Later(t, u) /\ MaxID(u) > MaxID(t))

\* A table that was given stays; a builder may have got new texts.
Grown(given, t, u) == IsTableOf(given, u) /\ GrowsTo(t, u) /\ (given => u = t)

\* A table grows to itself,
LEMMA GrownItself ==
  ASSUME NEW given, NEW t, IsTableOf(given, t)
  PROVE  Grown(given, t, t)
BY DEF Grown, GrowsTo

\* The greatest id is a number.
LEMMA TableMaxID ==
  ASSUME NEW t, IsTable(t)
  PROVE  MaxID(t) \in Nat
<1>1. MaxImportID(t) \in Nat /\ Len(t.symbols) \in Nat /\ MaxID(t) = MaxImportID(t) + Len(t.symbols)
  BY TableLayout
<1> QED BY <1>1

\* The greatest id of the writer's table is a number.
LEMMA MaxIDIsNat ==
  ASSUME NEW given, NEW t, IsTableOf(given, t)
  PROVE  MaxID(t) \in Nat
BY TableMaxID DEF IsTableOf, IsWritable

\* A table that has grown keeps the texts of all its ids; with as many ids it is the same.
LEMMA GrownLater ==
  ASSUME NEW given, NEW t, IsTableOf(given, t), NEW u, Grown(given, t, u)
  PROVE  /\ Later(t, u) /\ IsTableOf(given, u)
         /\ MaxID(t) \in Nat /\ MaxID(u) \in Nat /\ MaxID(t) <= MaxID(u)
         /\ MaxID(u) = MaxID(t) => u = t
BY LaterItself, MaxIDIsNat DEF Grown, GrowsTo

\* Growing is transitive.
LEMMA GrownOn ==
  ASSUME NEW given, NEW t, IsTableOf(given, t), NEW u, Grown(given, t, u), NEW x, Grown(given, u, x)
  PROVE  Grown(given, t, x)
<1>1. MaxID(t) \in Nat /\ MaxID(u) \in Nat /\ MaxID(x) \in Nat
  BY MaxIDIsNat DEF Grown
<1>2. Later(t, u) /\ Later(u, x) => Later(t, x)
  BY LaterOn
<1> QED BY <1>1, <1>2 DEF Grown, GrowsTo

\* Add gives the text an id and takes none away.
LEMMA AddGrown ==
  ASSUME NEW b, IsTableOf(FALSE, b), NEW t \in Text, NEW r, r = Add(b, t)
  PROVE  Grown(FALSE, b, r.tbl) /\ r.id \in Nat /\ FindByID(r.tbl, r.id) = t
<1>1. IsWritable(b) /\ IsBuilder(b) /\ IsTable(b)
  BY DEF IsTableOf, IsWritable
<1>2. IsBuilder(r.tbl) /\ r.id > 0 /\ FindByName(r.tbl, t) = r.id
  BY <1>1, AddGrows
<1>3. IsTable(r.tbl)
  BY <1>2 DEF IsBuilder
<1>4. r.id \in 0 .. MaxID(r.tbl) /\ (r.id > 0 => FindByID(r.tbl, r.id) = t)
  BY <1>2, <1>3, NameToID
<1>5. r.id \in Nat /\ FindByID(r.tbl, r.id) = t
  <2>1. MaxID(r.tbl) \in Nat
    BY <1>3, TableMaxID
  <2> QED BY <1>2, <1>4, <2>1
<1>6. CASE FindByName(b, t) > 0
  <2>1. r.tbl = b
    BY <1>6 DEF Add
  <2> QED BY <1>1, <1>5, <2>1 DEF Grown, GrowsTo, IsTableOf
<1>7. CASE ~(FindByName(b, t) > 0)
  <2> DEFINE u == r.tbl
  <2>1. u.imports = b.imports /\ u.symbols = Append(b.symbols, t)
    <3>1. DOMAIN b = {"imports", "symbols", "index"}
      BY <1>1 DEF IsTable
    <3> QED BY <1>7, <3>1 DEF Add
  <2>2. MaxImportID(u) = MaxImportID(b) /\ MaxImportID(b) \in Nat
    <3>1. MaxImportID(u) = MaxImportID(b)
      BY <2>1 DEF MaxImportID
    <3> QED BY <1>1, <3>1, TableLayout
  <2>3. PICK l \in Nat : l = Len(b.symbols)
    BY <1>1, TableLayout
  <2>4. Len(u.symbols) = l + 1 /\ \A i \in 1 .. l : u.symbols[i] = b.symbols[i]
    <3>1. b.symbols \in Seq(Text)
      BY <1>1 DEF IsTable
    <3> QED BY <2>1, <2>3, <3>1, AppendProperties
  <2>5. MaxID(u) > MaxID(b)
    BY <2>2, <2>3, <2>4 DEF MaxID
  <2>6. IsWritable(u)
    BY <1>1, <1>3, <2>1 DEF IsWritable
  <2> HIDE DEF u
  <2>7. Later(b, u)
    <3> SUFFICES ASSUME NEW id \in Nat, FindByID(b, id) # NoText
                 PROVE  FindByID(u, id) = FindByID(b, id)
      BY DEF Later
    <3> DEFINE M == MaxImportID(b)
    <3>1. CASE id <= M
      BY <2>1, <2>2, <3>1 DEF FindByID
    <3>2. CASE ~(id <= M) /\ id - M <= l
      <4>1. id - M \in 1 .. l /\ ~(id <= 0) /\ id - M <= l + 1
        BY <2>2, <2>3, <3>2
      <4>2. FindByID(b, id) = b.symbols[id - M]
        BY <2>3, <3>2, <4>1 DEF FindByID
      <4>3. FindByID(u, id) = u.symbols[id - M]
        BY <2>2, <2>4, <3>2, <4>1 DEF FindByID
      <4> QED BY <2>4, <4>1, <4>2, <4>3
    <3>3. CASE ~(id <= M) /\ ~(id - M <= l)
      BY <2>3, <3>3 DEF FindByID
    <3> QED BY <3>1, <3>2, <3>3
  <2>8. IsBuilder(u)
    BY <1>2 DEF u
  <2>9. Grown(FALSE, b, u)
    BY <2>5, <2>6, <2>7, <2>8 DEF Grown, GrowsTo, IsTableOf
  <2> QED BY <1>5, <2>9 DEF u
<1> QED BY <1>6, <1>7
-----------------------------------------------------------------------------
(***************************************************************************)
(* What is looked up is found again.                                       *)
(***************************************************************************)
\* What an id stands for, it stands for in every later table.
LEMMA NamesLater ==
  ASSUME NEW t, NEW u, Later(t, u), NEW id, NEW text, Means(t, id, text)
  PROVE  Means(u, id, text)
BY DEF Means, Later

\* In the table that is left, the id stands for the text.
Finds(given, t, r) ==
  /\ Grown(given, t, r.tbl) /\ r.err \in {"nil", "usage"}
  /\ r.err = "nil" => Means(r.tbl, r.id, r.text)

\* An id that was given needs no table, and neither does an error.
LEMMA IDFinds ==
  ASSUME NEW given, NEW t, IsTableOf(given, t), NEW err \in {"nil", "usage"}, NEW id,
         NEW text, text = NoText \/ err = "usage"
  PROVE  Finds(given, t, Resolved(err, id, text, t))
<1>1. Grown(given, t, t)
  BY GrownItself
<1> QED BY <1>1 DEF Finds, Resolved, Means

\* A text that is looked up, and added if need be, has its id in the table,
LEMMA ResolveFromTableFinds ==
  ASSUME NEW v, IsTableOf(v.given, v.tbl), v.given \in BOOLEAN, NEW t \in Text
  PROVE  Finds(v.given, v.tbl, ResolveFromTable(v, t))
<1> DEFINE r == ResolveFromTable(v, t)
<1>1. CASE v.given /\ FindByName(v.tbl, t) = 0
  <2>1. r = Resolved("usage", 0, t, v.tbl)
    BY <1>1 DEF ResolveFromTable
  <2> QED BY <2>1, IDFinds
<1>2. CASE v.given /\ FindByName(v.tbl, t) # 0
  <2> DEFINE id == FindByName(v.tbl, t)
  <2>1. r = Resolved("nil", id, t, v.tbl)
    BY <1>2 DEF ResolveFromTable
  <2>2. IsTable(v.tbl)
    BY DEF IsTableOf, IsWritable
  <2>3. id \in 0 .. MaxID(v.tbl) /\ (id > 0 => FindByID(v.tbl, id) = t) /\ MaxID(v.tbl) \in Nat
    BY <2>2, NameToID, TableMaxID
  <2> HIDE DEF id
  <2>4. id \in Nat /\ FindByID(v.tbl, id) = t
    BY <1>2, <2>3 DEF id
  <2>5. Means(v.tbl, id, t)
    BY <2>4 DEF Means
  <2>6. Grown(v.given, v.tbl, v.tbl)
    BY GrownItself
  <2> QED BY <2>1, <2>5, <2>6 DEF Finds, Resolved
<1>3. CASE ~v.given
  <2> DEFINE a == Add(v.tbl, t)
  <2>1. r = Resolved("nil", a.id, t, a.tbl)
    BY <1>3 DEF ResolveFromTable
  <2>2. Grown(FALSE, v.tbl, a.tbl) /\ a.id \in Nat /\ FindByID(a.tbl, a.id) = t
    <3>1. IsTableOf(FALSE, v.tbl)
      BY <1>3 DEF IsTableOf
    <3> QED BY <3>1, AddGrown
  <2> HIDE DEF a
  <2>3. Means(a.tbl, a.id, t)
    BY <2>2 DEF Means
  <2>4. Grown(v.given, v.tbl, a.tbl)
    BY <1>3, <2>2 DEF Grown, IsTableOf
  <2> QED BY <2>1, <2>3, <2>4 DEF Finds, Resolved
<1> QED BY <1>1, <1>2, <1>3

\* and so has a text that may be an id,
LEMMA ResolveFinds ==
  ASSUME NEW v, IsTableOf(v.given, v.tbl), v.given \in BOOLEAN, NEW t \in Text
  PROVE  Finds(v.given, v.tbl, Resolve(v, t))
<1>1. CASE SymbolIdentifier(t) # SymbolIDUnknown
  <2>1. Resolve(v, t) = Resolved("nil", SymbolIdentifier(t), NoText, v.tbl)
    BY <1>1 DEF Resolve
  <2> QED BY <2>1, IDFinds
<1>2. CASE ~(SymbolIdentifier(t) # SymbolIDUnknown)
  BY <1>2, ResolveFromTableFinds DEF Resolve
<1> QED BY <1>1, <1>2

IsToken(tok) == tok.text \in Text \cup {NoText}

\* the name of a field
LEMMA ResolveNameFinds ==
  ASSUME NEW v, IsTableOf(v.given, v.tbl), v.given \in BOOLEAN, NEW name, IsToken(name)
  PROVE  Finds(v.given, v.tbl, ResolveName(v, name))
<1>1. CASE name.sid >= 0
  <2>1. ResolveName(v, name) = Resolved("nil", name.sid, NoText, v.tbl)
    BY <1>1 DEF ResolveName
  <2> QED BY <2>1, IDFinds
<1>2. CASE ~(name.sid >= 0) /\ name.text # NoText
  <2>1. ResolveName(v, name) = Resolve(v, name.text) /\ name.text \in Text
    BY <1>2 DEF ResolveName, IsToken
  <2> QED BY <2>1, ResolveFinds
<1>3. CASE ~(name.sid >= 0) /\ name.text = NoText
  <2>1. ResolveName(v, name) = Resolved("usage", 0, NoText, v.tbl)
    BY <1>3 DEF ResolveName
  <2> QED BY <2>1, IDFinds
<1> QED BY <1>1, <1>2, <1>3

\* and an annotation.
LEMMA ResolveMarkFinds ==
  ASSUME NEW v, IsTableOf(v.given, v.tbl), v.given \in BOOLEAN, NEW mark, IsToken(mark)
  PROVE  Finds(v.given, v.tbl, ResolveMark(v, mark))
<1>1. CASE mark.text # NoText
  <2>1. ResolveMark(v, mark) = Resolve(v, mark.text) /\ mark.text \in Text
    BY <1>1 DEF ResolveMark, IsToken
  <2> QED BY <2>1, ResolveFinds
<1>2. CASE ~(mark.text # NoText) /\ mark.sid # SymbolIDUnknown
  <2>1. ResolveMark(v, mark) = Resolved("nil", mark.sid, NoText, v.tbl)
    BY <1>2 DEF ResolveMark
  <2> QED BY <2>1, IDFinds
<1>3. CASE ~(mark.text # NoText) /\ ~(mark.sid # SymbolIDUnknown)
  <2>1. ResolveMark(v, mark) = Resolved("usage", 0, NoText, v.tbl)
    BY <1>3 DEF ResolveMark
  <2> QED BY <2>1, IDFinds
<1> QED BY <1>1, <1>2, <1>3
=============================================================================
