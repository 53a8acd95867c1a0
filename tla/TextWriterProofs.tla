-------------------------- MODULE TextWriterProofs --------------------------
(***************************************************************************)
(* Proofs about the text writer: the types of its state, the error it      *)
(* remembers, the line that Finish ends, that its output reads as what was *)
(* written, that it reads as the beginning of that where it failed, and    *)
(* that its lines are indented.                                            *)
(***************************************************************************)
EXTENDS TextMeaning, Lemmas, FiniteSetTheorems

Errs == {"nil", "usage", "io"}

Fields ==
  {"pretty", "quiet", "tbl", "wroteLST", "fault", "writes", "out", "ctx", "err", "ret", "fieldName",
   "annotations", "indent", "needsSeparator", "emptyContainer", "emptyStream"}

\* What every operator of the writer keeps: lists where there are lists, and an error
\* for every one that is stored; and the contexts, counted by the indentation until an
\* error is stored.
Loose(v) ==
  /\ Fields \subseteq DOMAIN v
  /\ v.tbl \in {NewBuilder(<< >>), NewBuilder(Imports)}
  /\ v.ctx \in Seq(Contexts) /\ IsStack(v.out) /\ IsStack(v.annotations)
  /\ v.err \in Errs /\ v.ret \in Errs
  /\ v.ret = "nil" => v.err = "nil"

Fit(v) ==
  /\ Loose(v)
  /\ v.err = "nil" => v.indent = Len(v.ctx)
  /\ v.emptyContainer => v.ctx # << >>

AtLineStart(out) == out = << >> \/ out[Len(out)] = Newline

\* Between the datagrams, the output is at the start of a line.
LineFit(v) == v.err = "nil" /\ v.emptyStream /\ v.ctx = << >> => AtLineStart(v.out)

\* The method wrote a part of a value, or failed; only a lob forgets that it did.
Settled(u) == u.err = "nil" => u.ret = "io" \/ ~u.emptyStream \/ u.ctx # << >>

WriterFit == Fit(w) /\ (kept => LineFit(w))
-----------------------------------------------------------------------------
(***************************************************************************)
(* Lists: what the writer writes, and the calls of its table.              *)
(***************************************************************************)
ListOf(s, S) == IsStack(s) /\ \A i \in 1 .. Len(s) : s[i] \in S

LEMMA ListConcat ==
  ASSUME NEW S, NEW a, NEW b, ListOf(a, S), ListOf(b, S)
  PROVE  ListOf(a \o b, S)
<1>1. IsStack(a) /\ IsStack(b)
  BY DEF ListOf
<1>2. /\ IsStack(a \o b) /\ Len(a \o b) = Len(a) + Len(b)
      /\ \A i \in 1 .. Len(a) + Len(b) :
           (a \o b)[i] = IF i <= Len(a) THEN a[i] ELSE b[i - Len(a)]
  BY <1>1, StackConcat
<1>3. Len(a) \in Nat /\ Len(b) \in Nat
  BY <1>1, StackLen
<1>4. ASSUME NEW i \in 1 .. Len(a \o b)
      PROVE  (a \o b)[i] \in S
  <2>1. CASE i <= Len(a)
    <3>1. i \in 1 .. Len(a) /\ (a \o b)[i] = a[i]
      BY <1>2, <1>3, <2>1
    <3> QED BY <3>1 DEF ListOf
  <2>2. CASE i > Len(a)
    <3>1. i - Len(a) \in 1 .. Len(b) /\ (a \o b)[i] = b[i - Len(a)]
      BY <1>2, <1>3, <2>2
    <3> QED BY <3>1 DEF ListOf
  <2> QED BY <1>3, <2>1, <2>2
<1> QED BY <1>2, <1>4 DEF ListOf

\* flatten takes the sequences together, from the first to the n-th.
Flattening(flatten, seqs, n) ==
  flatten = [i \in 1 .. n |-> IF i = 1 THEN seqs[i] ELSE flatten[i - 1] \o seqs[i]]

LEMMA FlatteningExists ==
  ASSUME NEW seqs, NEW n \in Nat
  PROVE  \E f : Flattening(f, seqs, n)
<1> DEFINE S == {k \in 0 .. n : \E f : Flattening(f, seqs, k)}
<1>1. 0 \in S
  <2>1. Flattening([i \in 1 .. 0 |-> 0], seqs, 0)
    BY DEF Flattening
  <2> QED BY <2>1
<1>2. ASSUME NEW k \in 1 .. n, k - 1 \in S
      PROVE  k \in S
  <2>1. PICK f : Flattening(f, seqs, k - 1)
    BY <1>2
  <2> DEFINE next == IF k = 1 THEN seqs[k] ELSE f[k - 1] \o seqs[k]
             g == [i \in 1 .. k |-> IF i = k THEN next ELSE f[i]]
  <2>2. ASSUME NEW i \in 1 .. k
        PROVE  g[i] = IF i = 1 THEN seqs[i] ELSE g[i - 1] \o seqs[i]
    <3>1. CASE i = k
      <4>1. k # 1 => k - 1 \in 1 .. k /\ k - 1 # k
        OBVIOUS
      <4>2. k # 1 => g[k - 1] = f[k - 1]
        BY <4>1
      <4>3. g[k] = next
        OBVIOUS
      <4> QED BY <3>1, <4>2, <4>3
    <3>2. CASE i # k
      <4>1. i \in 1 .. k - 1 /\ (i # 1 => i - 1 \in 1 .. k /\ i - 1 # k)
        BY <3>2
      <4>2. g[i] = f[i] /\ (i # 1 => g[i - 1] = f[i - 1])
        BY <3>2, <4>1
      <4>3. f[i] = IF i = 1 THEN seqs[i] ELSE f[i - 1] \o seqs[i]
        BY <2>1, <4>1 DEF Flattening
      <4> QED BY <4>2, <4>3
    <3> QED BY <3>1, <3>2
  <2>3. g = [i \in 1 .. k |-> g[i]]
    OBVIOUS
  <2> HIDE DEF g
  <2>4. Flattening(g, seqs, k)
    BY <2>2, <2>3 DEF Flattening
  <2> QED BY <2>4
<1> HIDE DEF S
<1>3. n \in S
  BY <1>1, <1>2, Induction
<1> QED BY <1>3 DEF S

\* What each of the sequences lists, all of them together list.
LEMMA FlatteningLists ==
  ASSUME NEW S, NEW seqs, NEW n \in Nat, \A i \in 1 .. n : ListOf(seqs[i], S),
         NEW f, Flattening(f, seqs, n), n # 0
  PROVE  ListOf(f[n], S)
<1> DEFINE T == {k \in 0 .. n : k # 0 => ListOf(f[k], S)}
<1>1. 0 \in T
  OBVIOUS
<1>2. ASSUME NEW k \in 1 .. n, k - 1 \in T
      PROVE  k \in T
  <2>1. f[k] = IF k = 1 THEN seqs[k] ELSE f[k - 1] \o seqs[k]
    BY DEF Flattening
  <2>2. CASE k = 1
    BY <2>1, <2>2
  <2>3. CASE k # 1
    <3>1. ListOf(f[k - 1], S)
      BY <1>2, <2>3
    <3>2. ListOf(f[k - 1] \o seqs[k], S)
      BY <3>1, ListConcat
    <3>3. f[k] = f[k - 1] \o seqs[k]
      BY <2>1, <2>3
    <3>4. ListOf(f[k], S)
      BY <3>2, <3>3, Zenon
    <3> QED BY <3>4
  <2> QED BY <2>2, <2>3
<1> HIDE DEF T
<1>3. n \in T
  BY <1>1, <1>2, Induction
<1> QED BY <1>3 DEF T

LEMMA FlattenLists ==
  ASSUME NEW S, NEW n \in Nat, NEW s
  PROVE  LET seqs == [i \in 1 .. n |-> s[i]]
         IN  (\A i \in 1 .. n : ListOf(s[i], S)) => ListOf(Lists!FlattenSeq(seqs), S)
<1> DEFINE seqs == [i \in 1 .. n |-> s[i]]
<1> SUFFICES ASSUME \A i \in 1 .. n : ListOf(s[i], S)
             PROVE  ListOf(Lists!FlattenSeq(seqs), S)
  OBVIOUS
<1>1. Len(seqs) = n
  OBVIOUS
<1>2. \A i \in 1 .. n : ListOf(seqs[i], S)
  OBVIOUS
<1>3. n = 0 => seqs = << >>
  OBVIOUS
<1> HIDE DEF seqs
<1>4. CASE n = 0
  <2>1. Lists!FlattenSeq(seqs) = << >>
    BY <1>1, <1>3, <1>4 DEF Lists!FlattenSeq
  <2>2. Len(<< >>) = 0
    OBVIOUS
  <2> QED BY <2>1, <2>2, Tuples DEF ListOf
<1>5. CASE n # 0
  <2> DEFINE f == CHOOSE g : Flattening(g, seqs, n)
  <2>1. Flattening(f, seqs, n)
    BY FlatteningExists
  <2>2. Lists!FlattenSeq(seqs) = f[n]
    BY <1>1, <1>5 DEF Lists!FlattenSeq, Flattening
  <2> HIDE DEF f
  <2> QED BY <1>2, <1>5, <2>1, <2>2, FlatteningLists
<1> QED BY <1>4, <1>5

LEMMA PartsList ==
  ASSUME NEW l, l.calls \in Nat
  PROVE  IsStack(Parts(l))
<1>1. IsStack([i \in 1 .. l.calls |-> Parts(l)[i]])
  BY FunctionList
<1>2. Parts(l) = [i \in 1 .. l.calls |-> Parts(l)[i]]
  BY DEF Parts
<1> QED BY <1>1, <1>2

LEMMA LexemeCalls ==
  ASSUME NEW t, NEW tok
  PROVE  Bare(t).calls \in Nat \ {0} /\ SymbolLexeme(tok).calls \in Nat \ {0}
BY DEF Bare, SymbolLexeme, Lexeme

LEMMA IndentationList ==
  ASSUME NEW v, v.indent \in Nat
  PROVE  IsStack(Indentation(v))
<1> DEFINE n == IF v.pretty THEN v.indent ELSE 0
<1>1. n \in Nat /\ Indentation(v) = [i \in 1 .. n |-> Space("\t")]
  BY DEF Indentation
<1> HIDE DEF n
<1>2. Indentation(v) \in Seq({Space("\t")})
  BY <1>1
<1> QED BY <1>2, Zenon DEF IsStack

LEMMA LayoutList ==
  ASSUME NEW v, v.indent \in Nat
  PROVE  IsStack(Layout(v))
<1>1. IsStack(Separator(v))
  BY Tuples, Zenon DEF Separator
<1>2. IsStack(IF v.emptyContainer /\ v.pretty THEN <<Newline>> ELSE << >>)
  BY Tuples, Zenon
<1> QED BY <1>1, <1>2, IndentationList, StackConcat DEF Layout

LEMMA NamePartsList ==
  ASSUME NEW tok, NEW after
  PROVE  IsStack(Append(Parts(SymbolLexeme(tok)), after))
BY LexemeCalls, PartsList, StackPushed

LEMMA AnnotationPartsList ==
  ASSUME NEW n \in Nat, NEW marks
  PROVE  IsStack(Lists!FlattenSeq([i \in 1 .. n |->
                                     Append(Parts(SymbolLexeme(marks[i])), DoubleColon)]))
<1> DEFINE s == [i \in 1 .. n |-> Append(Parts(SymbolLexeme(marks[i])), DoubleColon)]
           S == {s[i][j] : i \in 1 .. n, j \in Nat}
<1>1. \A i \in 1 .. n : IsStack(s[i])
  BY NamePartsList
<1>2. s = [i \in 1 .. n |-> s[i]]
  OBVIOUS
<1> HIDE DEF s
<1>3. \A i \in 1 .. n : ListOf(s[i], S)
  BY <1>1, StackLen DEF ListOf
<1> HIDE DEF S
<1>4. ListOf(Lists!FlattenSeq([i \in 1 .. n |-> s[i]]), S)
  BY <1>3, FlattenLists
<1>5. IsStack(Lists!FlattenSeq(s))
  BY <1>2, <1>4 DEF ListOf
<1> QED BY <1>5 DEF s
-----------------------------------------------------------------------------
(***************************************************************************)
(* The operators that the methods are made of.                             *)
(***************************************************************************)
\* A set of numbers that is not empty has a least member.
LEMMA LeastNat ==
  ASSUME NEW T \in SUBSET Nat, T # {}
  PROVE  MinOf(T) \in T
<1>1. PICK x \in T : \A y \in T : ~(y < x)
  BY Least
<1>2. \A y \in T : x <= y
  BY <1>1
<1> QED BY <1>1, <1>2 DEF MinOf

LEMMA EmitLoose ==
  ASSUME NEW v, Loose(v), v.err = "nil", NEW atoms, IsStack(atoms)
  PROVE  LET u == EmitTo(v, atoms)
         IN  /\ Loose(u) /\ u.ret \in {"nil", "io"} /\ u.err = v.err /\ u.ctx = v.ctx
             /\ u.emptyStream = v.emptyStream
             /\ u.indent = v.indent /\ u.emptyContainer = v.emptyContainer
             /\ u.tbl = v.tbl
             /\ u.ret = "nil" => u.out = v.out \o atoms
<1> DEFINE failing == {i \in 1 .. Len(atoms) : v.writes + i \in v.fault[1] .. v.fault[2]}
           first == MinOf(failing)
           done  == v.out \o Append(SubSeq(atoms, 1, first - 1), Torn)
           u     == EmitTo(v, atoms)
<1>1. IsStack(v.out \o atoms)
  BY StackConcat DEF Loose
<1>2. failing # {} => IsStack(done)
  <2> SUFFICES ASSUME failing # {} PROVE IsStack(done)
    OBVIOUS
  <2>1. failing \subseteq Nat
    BY StackLen
  <2>2. first \in failing
    <3> HIDE DEF failing
    <3> QED BY <2>1, LeastNat
  <2>3. first - 1 \in Nat /\ \A i \in 1 .. first - 1 : i \in 1 .. Len(atoms)
    <3>1. first \in 1 .. Len(atoms)
      BY <2>2
    <3>2. Len(atoms) \in Nat
      BY StackLen
    <3> HIDE DEF first
    <3> QED BY <3>1, <3>2
  <2> HIDE DEF first
  <2>4. \A i \in 1 .. first - 1 : atoms[i] \in {atoms[j] : j \in 1 .. Len(atoms)}
    BY <2>3
  <2>5. SubSeq(atoms, 1, first - 1) \in Seq({atoms[j] : j \in 1 .. Len(atoms)})
    BY <2>3, <2>4, StackPrefix
  <2>6. IsStack(SubSeq(atoms, 1, first - 1))
    BY <2>5, Zenon DEF IsStack
  <2>7. IsStack(Append(SubSeq(atoms, 1, first - 1), Torn))
    BY <2>6, StackPushed
  <2> QED BY <2>7, StackConcat DEF Loose
<1>3. /\ failing = {} => u = [v EXCEPT !.out = @ \o atoms, !.writes = @ + Len(atoms), !.ret = "nil"]
      /\ failing # {} => u = [v EXCEPT !.out = done, !.writes = @ + first, !.ret = "io"]
  BY DEF EmitTo
<1> HIDE DEF failing, done, first, u
<1>4. CASE failing = {}
  <2>1. u = [v EXCEPT !.out = @ \o atoms, !.writes = @ + Len(atoms), !.ret = "nil"]
    BY <1>3, <1>4
  <2> QED BY <1>1, <2>1 DEF Loose, Fields, Errs, u
<1>5. CASE failing # {}
  <2>1. u = [v EXCEPT !.out = done, !.writes = @ + first, !.ret = "io"] /\ IsStack(done)
    BY <1>2, <1>3, <1>5
  <2> QED BY <2>1 DEF Loose, Fields, Errs, u
<1> QED BY <1>4, <1>5

LEMMA EmitFit ==
  ASSUME NEW v, Fit(v), v.err = "nil", NEW atoms, IsStack(atoms)
  PROVE  LET u == EmitTo(v, atoms)
         IN  /\ Fit(u) /\ u.ret \in {"nil", "io"} /\ u.err = v.err /\ u.ctx = v.ctx
             /\ u.emptyStream = v.emptyStream
             /\ u.ret = "nil" => u.out = v.out \o atoms
BY EmitLoose DEF Fit

LEMMA ReturnFit ==
  ASSUME NEW v, Fit(v), NEW e \in Errs, e = "nil" => v.err = "nil"
  PROVE  LET u == Return(v, e)
         IN  /\ Fit(u) /\ u.ret = e /\ u.err = v.err /\ u.ctx = v.ctx /\ u.out = v.out
             /\ u.emptyStream = v.emptyStream
BY DEF Fit, Loose, Fields, Errs, Return

LEMMA StoreFit ==
  ASSUME NEW v, Fit(v)
  PROVE  LET u == Store(v)
         IN  Fit(u) /\ u.ret = v.ret /\ u.err = v.ret /\ u.ctx = v.ctx
BY DEF Fit, Loose, Fields, Errs, Store

LEMMA ClearFit ==
  ASSUME NEW v, Fit(v)
  PROVE  LET u == Clear(v)
         IN  /\ Fit(u) /\ u.ret = v.ret /\ u.err = v.err /\ u.ctx = v.ctx /\ u.out = v.out
             /\ u.emptyStream = v.emptyStream
BY Tuples DEF Fit, Loose, Fields, Errs, Clear

LEMMA EndValueFit ==
  ASSUME NEW v, Fit(v)
  PROVE  LET u == EndValue(v) IN Fit(u) /\ u.ret = v.ret /\ u.err = v.err /\ ~u.emptyStream
BY DEF Fit, Loose, Fields, Errs, EndValue

\* Nothing is written on a writer whose last step failed.
LEMMA BeginRestFit ==
  ASSUME NEW v, Fit(v), NEW name, NEW marks, IsStack(marks)
  PROVE  Fit(BeginRest(v, name, marks))
<1> DEFINE v1 == LayNext(v)
           v2 == NameNext(v1, name)
           v3 == MarkNext(v2, marks)
<1>1. Fit(v1)
  <2>1. CASE v.ret = "nil"
    <3>1. v.err = "nil"
      BY <2>1 DEF Fit, Loose
    <3>2. IsStack(Layout(v))
      BY <3>1, LayoutList, LenProperties DEF Fit, Loose
    <3>3. Fit(EmitTo(v, Layout(v)))
      BY <3>1, <3>2, EmitFit
    <3> QED BY <2>1, <3>3 DEF LayNext
  <2>2. CASE v.ret # "nil"
    BY <2>2 DEF LayNext
  <2> QED BY <2>1, <2>2
<1> HIDE DEF v1
<1>2. Fit(v2)
  <2> DEFINE x == [v1 EXCEPT !.fieldName = name]
             y == [x EXCEPT !.fieldName = NoName]
  <2>1. CASE v1.ret = "nil"
    <3>1. Fit(x) /\ Fit(y) /\ y.err = "nil"
      BY <1>1, <2>1 DEF Fit, Loose, Fields
    <3> HIDE DEF y
    <3>2. Fit(Return(y, "usage")) /\ \A a : IsStack(a) => Fit(EmitTo(y, a))
      BY <3>1, ReturnFit, EmitFit DEF Errs
    <3>3. Fit(WriteFieldName(x))
      BY <3>2, NamePartsList DEF WriteFieldName, y
    <3> HIDE DEF x
    <3> QED BY <1>1, <3>3 DEF NameNext, x
  <2>2. CASE v1.ret # "nil"
    BY <1>1, <2>2 DEF NameNext
  <2> QED BY <2>1, <2>2
<1> HIDE DEF v2
<1>3. Fit(v3)
  <2>1. CASE v2.ret = "nil"
    <3>1. v2.err = "nil"
      BY <1>2, <2>1 DEF Fit, Loose
    <3>2. ASSUME NEW a, IsStack(a)
          PROVE  Fit(EmitTo(v2, a)) /\ Fit(Return(EmitTo(v2, a), "usage"))
      <4>1. Fit(EmitTo(v2, a))
        BY <1>2, <3>1, <3>2, EmitFit
      <4>2. Fit(Return(EmitTo(v2, a), "usage"))
        BY <4>1, ReturnFit DEF Errs
      <4> QED BY <4>1, <4>2
    <3>3. Fit(WriteAnnotations(v2, marks))
      <4> DEFINE invalid == {i \in 1 .. Len(marks) : ~Valid(marks[i])}
                 n       == IF invalid = {} THEN Len(marks) ELSE MinOf(invalid) - 1
                 atoms   == Lists!FlattenSeq([i \in 1 .. n |->
                                     Append(Parts(SymbolLexeme(marks[i])), DoubleColon)])
      <4>1. n \in Nat
        <5>1. Len(marks) \in Nat
          BY StackLen
        <5>2. invalid # {} => MinOf(invalid) \in invalid
          BY <5>1, LeastNat
        <5> QED BY <5>1, <5>2
      <4>2. WriteAnnotations(v2, marks) \in {EmitTo(v2, atoms), Return(EmitTo(v2, atoms), "usage")}
        BY DEF WriteAnnotations
      <4> HIDE DEF n
      <4>3. IsStack(atoms)
        BY <4>1, AnnotationPartsList
      <4> HIDE DEF atoms
      <4> QED BY <3>2, <4>2, <4>3
    <3> QED BY <2>1, <3>3 DEF MarkNext
  <2>2. CASE v2.ret # "nil"
    BY <1>2, <2>2 DEF MarkNext
  <2> QED BY <2>1, <2>2
<1> QED BY <1>3 DEF BeginRest, v1, v2, v3

LEMMA PutLexemeFit ==
  ASSUME NEW v, Fit(v), NEW l, l.calls \in Nat
  PROVE  Fit(PutLexeme(v, l)) /\ Settled(PutLexeme(v, l))
<1> DEFINE v1 == EmitTo(v, Parts(l))
           u  == PutLexeme(v, l)
<1>1. CASE v.ret # "nil"
  <2>1. u = Store(v)
    BY <1>1 DEF PutLexeme
  <2> QED BY <1>1, <2>1, StoreFit DEF Settled
<1>2. CASE v.ret = "nil"
  <2>1. v.err = "nil"
    BY <1>2 DEF Fit, Loose
  <2>2. Fit(v1) /\ v1.ret \in {"nil", "io"}
    BY <2>1, PartsList, EmitFit
  <2>3. u = EndValue(v1) \/ (v1.ret # "nil" /\ u \in {v1, Store(v1)})
    BY <1>2 DEF PutLexeme
  <2> HIDE DEF v1, u
  <2>4. CASE u = EndValue(v1)
    BY <2>2, <2>4, EndValueFit DEF Settled, u
  <2>5. CASE v1.ret # "nil" /\ u \in {v1, Store(v1)}
    BY <2>2, <2>5, StoreFit DEF Settled, u
  <2> QED BY <2>3, <2>4, <2>5
<1> QED BY <1>1, <1>2

LEMMA EnterFit ==
  ASSUME NEW v, Fit(v), NEW c \in Contexts
  PROVE  Fit(Enter(v, c)) /\ Settled(Enter(v, c))
<1> DEFINE v1 == [v EXCEPT !.ctx = Append(@, c), !.indent = @ + 1,
                           !.needsSeparator = FALSE, !.emptyContainer = TRUE]
           v2 == EmitTo(v1, <<Opening(c)>>)
           u  == Enter(v, c)
<1>1. CASE v.ret # "nil"
  <2>1. u = Store(v)
    BY <1>1 DEF Enter
  <2> QED BY <1>1, <2>1, StoreFit DEF Settled
<1>2. CASE v.ret = "nil"
  <2>1. v.err = "nil" /\ v.ctx \in Seq(Contexts) /\ v.indent = Len(v.ctx)
    BY <1>2 DEF Fit, Loose
  <2>2. /\ Append(v.ctx, c) \in Seq(Contexts) /\ Len(Append(v.ctx, c)) = Len(v.ctx) + 1
        /\ Append(v.ctx, c) # << >>
    <3>1. Append(v.ctx, c) \in Seq(Contexts) /\ Len(Append(v.ctx, c)) = Len(v.ctx) + 1
      BY <2>1, AppendProperties
    <3>2. Len(v.ctx) \in Nat
      BY <2>1, LenProperties
    <3> QED BY <3>1, <3>2, EmptySeq
  <2>3. Fit(v1) /\ v1.err = "nil" /\ v1.ctx # << >>
    BY <2>1, <2>2 DEF Fit, Loose, Fields
  <2>4. u = Store(v2)
    BY <1>2 DEF Enter
  <2> HIDE DEF v1, u
  <2>5. Fit(v2) /\ v2.ctx = v1.ctx
    BY <2>3, Tuples, EmitFit
  <2> HIDE DEF v2
  <2>6. Fit(Store(v2)) /\ Store(v2).ctx = v2.ctx
    BY <2>5, StoreFit
  <2> QED BY <2>3, <2>4, <2>5, <2>6 DEF Settled, u
<1> QED BY <1>1, <1>2

LEMMA EndFit ==
  ASSUME NEW v, Fit(v), NEW c
  PROVE  LET u == End(v, c)
         IN  Fit(u) /\ Settled(u) /\ (v.err # "nil" => u = Return(v, v.err))
<1> DEFINE u == End(v, c)
<1>1. CASE v.err # "nil"
  <2>1. v.err \in Errs
    BY DEF Fit, Loose
  <2>2. Fit(Return(v, v.err)) /\ Return(v, v.err).err = v.err
    BY <1>1, <2>1, ReturnFit
  <2> QED BY <1>1, <2>2 DEF End, Settled
<1>2. CASE v.err = "nil" /\ (v.ctx = << >> \/ Top(v.ctx) # c)
  <2>1. u = Store(Return(v, "usage"))
    BY <1>2 DEF End
  <2>2. Fit(Return(v, "usage")) /\ Return(v, "usage").ret = "usage"
    BY ReturnFit DEF Errs
  <2>3. Fit(Store(Return(v, "usage"))) /\ Store(Return(v, "usage")).err = "usage"
    BY <2>2, StoreFit
  <2> QED BY <1>2, <2>1, <2>3 DEF Settled
<1>3. CASE v.err = "nil" /\ ~(v.ctx = << >> \/ Top(v.ctx) # c)
  <2> DEFINE v0 == [v EXCEPT !.indent = @ - 1]
             v1 == Leave(v0, c)
             v2 == Clear(v1)
             v3 == [v2 EXCEPT !.ctx = Pop(@)]
  <2>1. u = IF v1.ret # "nil" THEN Store(v1) ELSE EndValue(v3)
    BY <1>3 DEF End
  <2>2. /\ Loose(v) /\ v.ctx \in Seq(Contexts) /\ v.indent = Len(v.ctx) /\ v.err = "nil"
        /\ v.ctx # << >>
    BY <1>3 DEF Fit, Loose
  <2>3. Pop(v.ctx) \in Seq(Contexts) /\ Len(Pop(v.ctx)) = Len(v.ctx) - 1 /\ Len(Pop(v.ctx)) \in Nat
    BY <2>2 DEF Pop
  <2>4. /\ Loose(v0) /\ v0.ctx = v.ctx /\ v0.err = "nil" /\ v0.indent = Len(Pop(v.ctx))
        /\ v0.emptyContainer = v.emptyContainer
    BY <2>2, <2>3 DEF Loose, Fields
  <2> HIDE DEF v0, u
  <2>5. /\ Loose(v1) /\ v1.ctx = v0.ctx /\ v1.err = v0.err /\ v1.indent = v0.indent
        /\ v1.ret \in {"nil", "io"}
        /\ v1.emptyContainer = v0.emptyContainer
    <3>1. IsStack(EndLayout(v0))
      BY <2>3, <2>4, Tuples, IndentationList, StackConcat DEF EndLayout
    <3>2. IsStack(Append(EndLayout(v0), Closing(c)))
      BY <3>1, StackPushed
    <3> QED BY <2>4, <3>2, EmitLoose DEF Leave
  <2> HIDE DEF v1
  <2>6. CASE v1.ret # "nil"
    <3>1. u = Store(v1)
      BY <2>1, <2>6
    <3>2. Fit(Store(v1)) /\ Store(v1).err = "io"
      BY <1>3, <2>2, <2>4, <2>5, <2>6 DEF Store, Fit, Loose, Fields, Errs
    <3> QED BY <1>3, <3>1, <3>2 DEF Settled, u
  <2>7. CASE v1.ret = "nil"
    <3>1. u = EndValue(v3)
      BY <2>1, <2>7
    <3>2. /\ Fields \subseteq DOMAIN v3 /\ v3.tbl = v1.tbl /\ v3.ctx = Pop(v.ctx) /\ v3.out = v1.out
          /\ v3.annotations = << >> /\ v3.err = "nil" /\ v3.ret = "nil" /\ v3.indent = Len(Pop(v.ctx))
      BY <2>4, <2>5, <2>7 DEF Clear, Fields, Loose
    <3> HIDE DEF v3
    <3>3. Fit(EndValue(v3)) /\ ~EndValue(v3).emptyStream
      BY <2>3, <2>5, <3>2, Tuples DEF EndValue, Fit, Loose, Fields, Errs
    <3> QED BY <1>3, <3>1, <3>3 DEF Settled, u
  <2> QED BY <2>6, <2>7
<1> QED BY <1>1, <1>2, <1>3
-----------------------------------------------------------------------------
(***************************************************************************)
(* The local symbol table, which the writer writes through its own         *)
(* methods.                                                                *)
(***************************************************************************)
\* A call begins a container, and writes a lexeme of so many parts.
Proper(call) ==
  /\ call.e = "begin" => call.c \in Contexts
  /\ call.e = "scalar" => call.lexeme.calls \in Nat \ {0}

ProperCalls(calls) == IsStack(calls) /\ \A i \in 1 .. Len(calls) : Proper(calls[i])

\* The tables of the writer are lists of imports.
LEMMA BuilderImports ==
  ASSUME NEW tbl \in {NewBuilder(<< >>), NewBuilder(Imports)}
  PROVE  Len(tbl.imports) \in Nat /\ Len(tbl.imports) > 0
<1>1. IsStack(<< >>) /\ IsStack(Imports) /\ IsStack(<<V1System>>)
  BY Tuples, ImportsAssumption, Zenon DEF IsStack
<1>2. PICK imports \in {<< >>, Imports} : tbl = NewBuilder(imports)
  OBVIOUS
<1>3. IsStack(imports)
  BY <1>1
<1>4. IsStack(<<V1System>> \o imports)
  BY <1>1, <1>3, StackConcat
<1>5. IsStack(ProcessImports(imports))
  BY <1>3, <1>4 DEF ProcessImports
<1>6. tbl.imports = ProcessImports(imports)
  BY <1>2 DEF NewBuilder, NewLocalTable
<1>7. ProcessImports(imports) # << >>
  <2>1. Len(<<V1System>>) = 1
    OBVIOUS
  <2>2. Len(<<V1System>> \o imports) = 1 + Len(imports) /\ Len(imports) \in Nat
    BY <1>1, <1>3, <2>1, StackConcat, StackLen
  <2>3. <<V1System>> \o imports # << >>
    BY <1>4, <2>2, StackLen
  <2> QED BY <2>3 DEF ProcessImports
<1> QED BY <1>5, <1>6, <1>7, StackLen

LEMMA TableCallsProper ==
  ASSUME NEW tbl \in {NewBuilder(<< >>), NewBuilder(Imports)}
  PROVE  ProperCalls(TableCalls(tbl))
<1> DEFINE wire  == WriteTo(tbl)
           head  == <<Marked("$ion_symbol_table"), Begun("struct"), Named("imports"), Begun("list")>>
           lists == [i \in 1 .. Len(wire.imports) |-> ImportCalls(wire.imports[i])]
           tail  == <<Ended("list"), Ended("struct")>>
<1>1. CASE wire.kind = "absent"
  <2>1. TableCalls(tbl) = << >>
    BY <1>1 DEF TableCalls
  <2>2. Len(<< >>) = 0
    OBVIOUS
  <2> QED BY <2>1, <2>2, Tuples DEF ProperCalls
<1>2. CASE wire.kind # "absent"
  <2> DEFINE n == Len(tbl.imports) - 1
             S == {head[j] : j \in 1 .. 4} \cup {tail[j] : j \in 1 .. 2}
                    \cup {ImportCalls(wire.imports[i])[j] : i \in 1 .. n, j \in 1 .. 8}
  <2>1. Len(tbl.imports) \in Nat /\ Len(tbl.imports) > 0
    BY BuilderImports
  <2>2. wire.imports = [i \in 1 .. n |-> [name    |-> tbl.imports[i + 1].name,
                                          version |-> tbl.imports[i + 1].version,
                                          maxID   |-> tbl.imports[i + 1].maxID]]
    BY <1>2 DEF WriteTo
  <2>3. n \in Nat
    BY <2>1
  <2> HIDE DEF n
  <2>4. Len(wire.imports) = n
    BY <2>2, <2>3
  <2>5. TableCalls(tbl) = head \o Lists!FlattenSeq(lists) \o tail
    BY <1>2 DEF TableCalls
  <2> HIDE DEF wire
  <2>6. \A imp : Len(ImportCalls(imp)) = 8 /\ IsStack(ImportCalls(imp))
    <3>1. \A imp : Len(ImportCalls(imp)) = 8
      BY DEF ImportCalls
    <3>2. \A imp : IsStack(ImportCalls(imp))
      BY Tuples, Zenon DEF ImportCalls
    <3> QED BY <3>1, <3>2
  <2>7. \A call \in S : Proper(call)
    <3>1. \A imp : \A j \in 1 .. 8 : Proper(ImportCalls(imp)[j])
      BY DEF ImportCalls, Proper, Begun, Named, Scalar, Ended, Contexts, Lexeme, String, Raw
    <3>2. \A j \in 1 .. 4 : Proper(head[j])
      BY DEF Proper, Begun, Named, Marked, Contexts
    <3>3. \A j \in 1 .. 2 : Proper(tail[j])
      BY DEF Proper, Ended
    <3> HIDE DEF head, tail
    <3> QED BY <3>1, <3>2, <3>3
  <2>8. ListOf(head, S)
    <3>1. IsStack(head)
      BY Tuples, Zenon
    <3>2. Len(head) = 4
      OBVIOUS
    <3> HIDE DEF head, tail
    <3> QED BY <3>1, <3>2 DEF ListOf
  <2>9. ListOf(tail, S)
    <3>1. IsStack(tail)
      BY Tuples, Zenon
    <3>2. Len(tail) = 2
      OBVIOUS
    <3> HIDE DEF head, tail
    <3> QED BY <3>1, <3>2 DEF ListOf
  <2>10. \A i \in 1 .. n : ListOf(lists[i], S)
    <3> HIDE DEF head, tail
    <3>1. ASSUME NEW i \in 1 .. n
          PROVE  ListOf(ImportCalls(wire.imports[i]), S)
      <4>1. \A j \in 1 .. 8 : ImportCalls(wire.imports[i])[j] \in S
        OBVIOUS
      <4> HIDE DEF S
      <4> QED BY <2>6, <4>1 DEF ListOf
    <3>2. \A i \in 1 .. n : lists[i] = ImportCalls(wire.imports[i])
      BY <2>4
    <3> HIDE DEF S, lists
    <3> QED BY <3>1, <3>2
  <2>11. lists = [i \in 1 .. n |-> lists[i]]
    BY <2>4
  <2> HIDE DEF S, lists, head, tail
  <2>12. ListOf(Lists!FlattenSeq([i \in 1 .. n |-> lists[i]]), S)
    BY <2>3, <2>10, FlattenLists
  <2>13. ListOf(Lists!FlattenSeq(lists), S)
    BY <2>11, <2>12
  <2>14. ListOf(TableCalls(tbl), S)
    BY <2>5, <2>8, <2>9, <2>13, ListConcat
  <2> QED BY <2>7, <2>14 DEF ListOf, ProperCalls
<1> QED BY <1>1, <1>2

\* Run(v, calls) is what is left of the calls done one after the other.
Running(run, v, calls, n) ==
  run = [i \in 0 .. n |-> IF i = 0 THEN v ELSE DoNext(run[i - 1], calls[i])]

LEMMA RunningExists ==
  ASSUME NEW v, NEW calls, NEW n \in Nat
  PROVE  \E f : Running(f, v, calls, n)
<1> DEFINE S == {k \in 0 .. n : \E f : Running(f, v, calls, k)}
<1>1. 0 \in S
  <2>1. Running([i \in 0 .. 0 |-> v], v, calls, 0)
    BY DEF Running
  <2> QED BY <2>1
<1>2. ASSUME NEW k \in 1 .. n, k - 1 \in S
      PROVE  k \in S
  <2>1. PICK f : Running(f, v, calls, k - 1)
    BY <1>2
  <2> DEFINE g == [i \in 0 .. k |-> IF i = k THEN DoNext(f[k - 1], calls[k]) ELSE f[i]]
  <2>2. ASSUME NEW i \in 0 .. k
        PROVE  g[i] = IF i = 0 THEN v ELSE DoNext(g[i - 1], calls[i])
    <3>1. CASE i = k
      <4>1. g[i] = DoNext(f[k - 1], calls[k]) /\ g[i - 1] = f[k - 1]
        BY <3>1
      <4> QED BY <3>1, <4>1
    <3>2. CASE i = 0
      BY <2>1, <3>2 DEF Running
    <3>3. CASE i # k /\ i # 0
      <4>1. i \in 0 .. k - 1 /\ i - 1 \in 0 .. k /\ i - 1 # k
        BY <3>3
      <4>2. g[i] = f[i] /\ g[i - 1] = f[i - 1]
        BY <3>3, <4>1
      <4>3. f[i] = IF i = 0 THEN v ELSE DoNext(f[i - 1], calls[i])
        BY <2>1, <4>1 DEF Running
      <4> QED BY <4>2, <4>3
    <3> QED BY <3>1, <3>2, <3>3
  <2>3. g = [i \in 0 .. k |-> g[i]]
    OBVIOUS
  <2> HIDE DEF g
  <2>4. Running(g, v, calls, k)
    BY <2>2, <2>3 DEF Running
  <2> QED BY <2>4
<1> HIDE DEF S
<1>3. n \in S
  BY <1>1, <1>2, Induction
<1> QED BY <1>3 DEF S

LEMMA FieldNameFit ==
  ASSUME NEW v, Fit(v), NEW name
  PROVE  LET u == FieldName(v, name)
         IN  Fit(u) /\ (LineFit(v) => LineFit(u)) /\ (v.err # "nil" => u = Return(v, v.err))
<1> DEFINE u == FieldName(v, name)
<1>1. CASE v.err # "nil"
  <2>1. v.err \in Errs
    BY DEF Fit, Loose
  <2>2. Fit(Return(v, v.err)) /\ Return(v, v.err).err = v.err
    BY <1>1, <2>1, ReturnFit
  <2> QED BY <1>1, <2>2 DEF FieldName, LineFit
<1>2. CASE v.err = "nil" /\ ~InStruct(v)
  <2>1. u = Store(Return(v, "usage"))
    BY <1>2 DEF FieldName
  <2>2. Fit(Return(v, "usage")) /\ Return(v, "usage").ret = "usage"
    BY ReturnFit DEF Errs
  <2>3. Fit(Store(Return(v, "usage"))) /\ Store(Return(v, "usage")).err = "usage"
    BY <2>2, StoreFit
  <2> QED BY <1>2, <2>1, <2>3 DEF LineFit
<1>3. CASE v.err = "nil" /\ InStruct(v)
  BY <1>3 DEF FieldName, LineFit, Fit, Loose, Fields, Errs
<1> QED BY <1>1, <1>2, <1>3

LEMMA AnnotationsFit ==
  ASSUME NEW v, Fit(v), NEW marks, IsStack(marks)
  PROVE  LET u == Annotations(v, marks)
         IN  Fit(u) /\ (LineFit(v) => LineFit(u)) /\ (v.err # "nil" => u = Return(v, v.err))
<1> DEFINE u == Annotations(v, marks)
<1>1. CASE v.err # "nil"
  <2>1. v.err \in Errs
    BY DEF Fit, Loose
  <2>2. Fit(Return(v, v.err)) /\ Return(v, v.err).err = v.err
    BY <1>1, <2>1, ReturnFit
  <2> QED BY <1>1, <2>2 DEF Annotations, LineFit
<1>2. CASE v.err = "nil"
  <2>1. IsStack(v.annotations \o marks)
    BY StackConcat DEF Fit, Loose
  <2> QED BY <1>2, <2>1 DEF Annotations, LineFit, Fit, Loose, Fields, Errs
<1> QED BY <1>1, <1>2

\* A call of the table's.
LEMMA DoNextFit ==
  ASSUME NEW v, Fit(v), NEW call, Proper(call)
  PROVE  Fit(DoNext(v, call))
<1>1. CASE v.ret # "nil"
  BY <1>1 DEF DoNext
<1>2. CASE v.ret = "nil"
  <2>1. Fit(BeginNext(v))
    BY ClearFit, BeginRestFit DEF BeginNext, Fit, Loose
  <2>2. Fit(Do(v, call))
    <3>1. CASE call.e = "annotation"
      BY <3>1, Tuples, AnnotationsFit DEF Do
    <3>2. CASE call.e = "field"
      BY <3>2, FieldNameFit DEF Do
    <3>3. CASE call.e = "begin"
      BY <2>1, <3>3, EnterFit DEF Do, Proper
    <3>4. CASE call.e = "scalar"
      BY <2>1, <3>4, PutLexemeFit DEF Do, Proper
    <3>5. CASE call.e \notin {"annotation", "field", "begin", "scalar"}
      BY <3>5, EndFit DEF Do
    <3> QED BY <3>1, <3>2, <3>3, <3>4, <3>5
  <2> QED BY <1>2, <2>2 DEF DoNext
<1> QED BY <1>1, <1>2

LEMMA RunCallsFit ==
  ASSUME NEW v, Fit(v), NEW calls, ProperCalls(calls)
  PROVE  Fit(RunCalls(v, calls))
<1>1. PICK n \in Nat : n = Len(calls)
  BY StackLen DEF ProperCalls
<1> DEFINE f == CHOOSE run : Running(run, v, calls, n)
<1>2. Running(f, v, calls, n)
  BY RunningExists
<1>3. RunCalls(v, calls) = f[n]
  BY <1>1 DEF RunCalls, Running
<1> HIDE DEF f
<1> DEFINE S == {k \in 0 .. n : Fit(f[k])}
<1>4. 0 \in S
  BY <1>2 DEF Running
<1>5. ASSUME NEW k \in 1 .. n, k - 1 \in S
      PROVE  k \in S
  <2>1. f[k] = DoNext(f[k - 1], calls[k])
    BY <1>2 DEF Running
  <2>2. Proper(calls[k])
    BY <1>1 DEF ProperCalls
  <2>3. Fit(DoNext(f[k - 1], calls[k]))
    BY <1>5, <2>2, DoNextFit
  <2> QED BY <2>1, <2>3
<1> HIDE DEF S
<1>6. n \in S
  BY <1>4, <1>5, Induction
<1> QED BY <1>3, <1>6 DEF S

LEMMA BeginValueFit ==
  ASSUME NEW v, Fit(v), v.err = "nil"
  PROVE  Fit(BeginValue(v))
<1> DEFINE v1 == Return(Clear(v), "nil")
           v2 == [v1 EXCEPT !.wroteLST = TRUE]
           v3 == WriteTable(v1)
<1>1. Fit(Clear(v)) /\ Clear(v).err = "nil"
  BY ClearFit
<1>2. Fit(v1)
  BY <1>1, ReturnFit DEF Errs
<1> HIDE DEF v1
<1>3. Fit(v2)
  BY <1>2 DEF Fit, Loose, Fields
<1>4. ProperCalls(TableCalls(v1.tbl))
  BY <1>2, TableCallsProper DEF Fit, Loose
<1> HIDE DEF v2
<1>5. Fit(v3)
  BY <1>2, <1>3, <1>4, RunCallsFit DEF WriteTable, v2
<1> HIDE DEF v3
<1>6. Fit(BeginRest(v3, v.fieldName, v.annotations))
  BY <1>5, BeginRestFit DEF Fit, Loose
<1> QED BY <1>6 DEF BeginValue, v1, v3
-----------------------------------------------------------------------------
(***************************************************************************)
(* The methods.                                                            *)
(***************************************************************************)
\* A method keeps the writer fit; on one that remembers an error it does nothing but
\* return it.
Method(v, u) ==
  /\ Fit(u)
  /\ v.err # "nil" => u = Return(v, v.err)
  /\ v.err = "nil" => Settled(u)

LEMMA RememberedMethod ==
  ASSUME NEW v, Fit(v), v.err # "nil"
  PROVE  Method(v, Return(v, v.err))
<1>1. v.err \in Errs
  BY DEF Fit, Loose
<1> QED BY <1>1, ReturnFit DEF Method

LEMMA WriteLexemeMethod ==
  ASSUME NEW v, Fit(v), NEW l, l.calls \in Nat
  PROVE  Method(v, WriteLexeme(v, l))
<1>1. CASE v.err # "nil"
  BY <1>1, RememberedMethod DEF WriteLexeme
<1>2. CASE v.err = "nil"
  BY <1>2, BeginValueFit, PutLexemeFit DEF WriteLexeme, Method
<1> QED BY <1>1, <1>2

LEMMA WriteSymbolMethod ==
  ASSUME NEW v, Fit(v), NEW tok
  PROVE  Method(v, WriteSymbol(v, tok))
<1>1. CASE v.err # "nil"
  BY <1>1, RememberedMethod DEF WriteSymbol
<1>2. CASE v.err = "nil"
  <2> DEFINE v1 == BeginValue(v)
             v2 == IF v1.ret = "nil" THEN Return(v1, "usage") ELSE v1
  <2>1. WriteSymbol(v, tok) = IF Valid(tok) THEN PutLexeme(v1, SymbolLexeme(tok)) ELSE Store(v2)
    BY <1>2 DEF WriteSymbol
  <2>2. Fit(v1)
    BY <1>2, BeginValueFit
  <2> HIDE DEF v1
  <2>3. Fit(Return(v1, "usage")) /\ Return(v1, "usage").ret = "usage"
    BY <2>2, ReturnFit DEF Errs
  <2>4. Fit(v2) /\ v2.ret # "nil"
    BY <2>2, <2>3
  <2> HIDE DEF v2
  <2>5. Fit(Store(v2)) /\ Store(v2).err # "nil"
    BY <2>4, StoreFit
  <2> QED BY <1>2, <2>1, <2>2, <2>5, LexemeCalls, PutLexemeFit DEF Method, Settled
<1> QED BY <1>1, <1>2

LEMMA BeginMethod ==
  ASSUME NEW v, Fit(v), NEW c \in Contexts
  PROVE  Method(v, Begin(v, c))
<1>1. CASE v.err # "nil"
  BY <1>1, RememberedMethod DEF Begin
<1>2. CASE v.err = "nil"
  BY <1>2, BeginValueFit, EnterFit DEF Begin, Method
<1> QED BY <1>1, <1>2

LEMMA EndMethod ==
  ASSUME NEW v, Fit(v), NEW c
  PROVE  Method(v, End(v, c))
BY EndFit DEF Method

\* Finish that returns no error leaves the output at the start of a line, if it is not
\* quiet.
LEMMA FinishFit ==
  ASSUME NEW v, Fit(v)
  PROVE  LET u == Finish(v)
         IN  /\ Fit(u)
             /\ v.err # "nil" => u = Return(v, v.err)
             /\ LineFit(v) => LineFit(u)
             /\ LineFit(v) /\ u.ret = "nil" /\ ~v.quiet => AtLineStart(u.out)
<1> DEFINE u == Finish(v)
<1>1. CASE v.err # "nil"
  <2>1. u = Return(v, v.err)
    BY <1>1 DEF Finish
  <2>2. v.err \in Errs
    BY DEF Fit, Loose
  <2>3. Fit(Return(v, v.err)) /\ Return(v, v.err).err = v.err /\ Return(v, v.err).ret = v.err
    BY <1>1, <2>2, ReturnFit
  <2> QED BY <1>1, <2>1, <2>3 DEF LineFit
<1>2. CASE v.err = "nil" /\ v.ctx # << >>
  <2>1. u = Return(v, "usage")
    BY <1>2 DEF Finish
  <2>2. /\ Fit(Return(v, "usage")) /\ Return(v, "usage").ctx = v.ctx
        /\ Return(v, "usage").ret = "usage"
    BY ReturnFit DEF Errs
  <2> QED BY <1>2, <2>1, <2>2 DEF LineFit
<1>3. CASE v.err = "nil" /\ v.ctx = << >> /\ (v.emptyStream \/ v.quiet)
  <2> DEFINE v1 == Return(v, "nil")
  <2>1. u = Clear(v1)
    BY <1>3 DEF Finish
  <2>2. /\ Fit(v1) /\ v1.ctx = v.ctx /\ v1.err = v.err /\ v1.out = v.out
        /\ v1.emptyStream = v.emptyStream
    BY <1>3, ReturnFit DEF Errs
  <2> HIDE DEF v1, u
  <2>3. Fit(u) /\ u.ctx = v.ctx /\ u.err = v.err /\ u.out = v.out /\ u.emptyStream = v.emptyStream
    BY <2>1, <2>2, ClearFit
  <2> QED BY <1>3, <2>3 DEF LineFit, u
<1>4. CASE v.err = "nil" /\ v.ctx = << >> /\ ~v.emptyStream /\ ~v.quiet
  <2> DEFINE v1 == EmitTo(v, <<Newline>>)
             v2 == Clear(v1)
             v3 == [v2 EXCEPT !.needsSeparator = FALSE, !.emptyStream = TRUE]
  <2>1. u = IF v1.ret # "nil" THEN Store(v1) ELSE v3
    BY <1>4 DEF Finish
  <2>2. /\ Fit(v1) /\ v1.ctx = v.ctx /\ v1.err = v.err
        /\ v1.ret = "nil" => v1.out = v.out \o <<Newline>>
    BY <1>4, Tuples, EmitFit
  <2> HIDE DEF v1, u
  <2>3. CASE v1.ret # "nil"
    BY <1>4, <2>1, <2>2, <2>3, StoreFit DEF LineFit, u
  <2>4. CASE v1.ret = "nil"
    <3>1. Fit(v2) /\ v2.out = v1.out
      BY <2>2, ClearFit
    <3> HIDE DEF v2
    <3>2. Fit(v3) /\ v3.out = v2.out
      BY <3>1 DEF Fit, Loose, Fields
    <3>3. u = v3
      BY <2>1, <2>4
    <3> HIDE DEF v3
    <3>4. AtLineStart(v.out \o <<Newline>>)
      <4>1. IsStack(v.out) /\ IsStack(<<Newline>>)
        BY Tuples DEF Fit, Loose
      <4>2. Len(<<Newline>>) = 1 /\ <<Newline>>[1] = Newline
        OBVIOUS
      <4>3. /\ Len(v.out \o <<Newline>>) = Len(v.out) + 1
            /\ \A i \in 1 .. Len(v.out) + 1 :
                 (v.out \o <<Newline>>)[i] = IF i <= Len(v.out) THEN v.out[i]
                                            ELSE <<Newline>>[i - Len(v.out)]
        BY <4>1, <4>2, StackConcat
      <4>4. Len(v.out) \in Nat
        BY <4>1, StackLen
      <4> QED BY <4>2, <4>3, <4>4 DEF AtLineStart
    <3> QED BY <1>4, <2>2, <2>4, <3>1, <3>2, <3>3, <3>4 DEF LineFit, u
  <2> QED BY <2>3, <2>4
<1> QED BY <1>1, <1>2, <1>3, <1>4
-----------------------------------------------------------------------------
(***************************************************************************)
(* The writer and its caller.                                              *)
(***************************************************************************)
LEMMA InitFit == Init => WriterFit
<1> SUFFICES ASSUME Init
             PROVE  WriterFit
  OBVIOUS
<1>1. PICK opts \in Options, imports \in {<< >>, Imports}, fault \in Faults :
        w = NewTextWriter(opts.pretty, opts.quiet, NewBuilder(imports), fault)
  BY DEF Init
<1>2. << >> \in Seq(Contexts) /\ Len(<< >>) = 0
  OBVIOUS
<1>3. Fit(w)
  BY <1>1, <1>2, Tuples DEF NewTextWriter, Fit, Loose, Fields, Errs
<1>4. LineFit(w)
  BY <1>1 DEF NewTextWriter, LineFit, AtLineStart
<1> QED BY <1>3, <1>4 DEF WriterFit

\* What the proofs need of a call.
Called(v, u) ==
  /\ Fit(u)
  /\ v.err # "nil" => u = Return(v, v.err)

\* Whoever settles, or keeps the line, keeps the invariant.
LEMMA MethodCalled ==
  ASSUME WriterFit, NEW u, NEW events, Call(u, events),
         Method(w, u) \/ (Called(w, u) /\ (LineFit(w) => LineFit(u)))
  PROVE  WriterFit' /\ (w.err # "nil" => w'.ret = w.err)
<1>1. w' = u /\ (kept' => kept /\ (u.ret = "io" => u.err = "io"))
  BY DEF Call
<1>2. Called(w, u)
  BY DEF Method, Called
<1>3. kept' => LineFit(u)
  <2>1. CASE Method(w, u)
    <3>1. CASE w.err = "nil"
      BY <1>1, <2>1, <3>1 DEF Method, Settled, LineFit
    <3>2. CASE w.err # "nil"
      BY <2>1, <3>2 DEF Method, Return, LineFit, WriterFit, Fit, Loose, Fields
    <3> QED BY <3>1, <3>2
  <2>2. CASE LineFit(w) => LineFit(u)
    BY <1>1, <2>2 DEF WriterFit
  <2> QED BY <2>1, <2>2
<1>4. Fit(w)' /\ LineFit(w)' = LineFit(u)
  BY <1>1, <1>2 DEF Called, Fit, Loose, LineFit, AtLineStart
<1>5. WriterFit'
  BY <1>3, <1>4 DEF WriterFit
<1>6. w.err # "nil" => w'.ret = w.err
  BY <1>1, <1>2 DEF Called, Return, WriterFit, Fit, Loose, Fields
<1> QED BY <1>5, <1>6

LEMMA NextFit ==
  ASSUME WriterFit, Next
  PROVE  WriterFit' /\ (w.err # "nil" => w'.ret = w.err)
<1>1. Fit(w)
  BY DEF WriterFit
<1>2. CASE CallFieldName
  BY <1>1, <1>2, FieldNameFit, MethodCalled DEF CallFieldName, Called
<1>3. CASE CallAnnotations
  BY <1>1, <1>3, Tuples, AnnotationsFit, MethodCalled DEF CallAnnotations, Called
<1>4. CASE CallScalar
  BY <1>1, <1>4, ScalarsAssumption, WriteLexemeMethod, MethodCalled DEF CallScalar
<1>5. CASE CallSymbol
  BY <1>1, <1>5, WriteSymbolMethod, MethodCalled DEF CallSymbol
<1>6. CASE CallSymbolFromString
  BY <1>1, <1>6, LexemeCalls, WriteLexemeMethod, MethodCalled
     DEF CallSymbolFromString, WriteSymbolFromString
<1>7. CASE CallBegin
  BY <1>1, <1>7, KindsAssumption, BeginMethod, MethodCalled DEF CallBegin
<1>8. CASE CallEnd
  BY <1>1, <1>8, EndMethod, MethodCalled DEF CallEnd
<1>9. CASE CallFinish
  BY <1>1, <1>9, FinishFit, MethodCalled DEF CallFinish, Called
<1> QED BY <1>2, <1>3, <1>4, <1>5, <1>6, <1>7, <1>8, <1>9 DEF Next

LEMMA WriterFitStep == WriterFit /\ [Next]_vars => WriterFit'
<1>1. CASE Next
  BY <1>1, NextFit
<1>2. CASE UNCHANGED vars
  BY <1>2 DEF vars, WriterFit, Fit, Loose, LineFit, AtLineStart
<1> QED BY <1>1, <1>2

\* The contexts are containers, the indentation counts them until an error is stored,
\* and only an open container can be empty.
THEOREM TextWriterTypes == Spec => []TypeOK
<1>1. WriterFit => TypeOK
  BY DEF WriterFit, Fit, Loose, TypeOK, Errs
<1> QED BY <1>1, InitFit, WriterFitStep, PTL DEF Spec

\* Whatever method is called, and whatever failed or was refused, in a value or in the
\* table in front of it: an error that is stored is the result of every call after it
\* (writer.go:56, textwriter.go:125-300).
THEOREM TextWriterRemembersErrors == Spec => RemembersErrors
<1>1. WriterFit /\ [Next]_vars => [w.err # "nil" => w'.ret = w.err]_vars
  BY NextFit
<1> QED BY <1>1, InitFit, WriterFitStep, PTL DEF Spec, RemembersErrors

\* A datagram that Finish ends is followed by a new line, if any of it was written
\* (textwriter.go:270).
THEOREM FinishedLineEnds == Spec => FinishEndsLine
<1> DEFINE Ends == CallFinish /\ kept /\ w'.ret = "nil" /\ ~w.quiet =>
                     w'.out = << >> \/ w'.out[Len(w'.out)] = Newline
<1>1. WriterFit /\ [Next]_vars => [Ends]_vars
  <2>1. WriterFit => Ends
    BY FinishFit DEF WriterFit, CallFinish, Call, AtLineStart
  <2> QED BY <2>1
<1> QED BY <1>1, InitFit, WriterFitStep, PTL DEF Spec, FinishEndsLine
-----------------------------------------------------------------------------
(***************************************************************************)
(* The output read on from what was read before.                           *)
(***************************************************************************)

LEMMA ConcatThrice ==
  ASSUME NEW a, NEW b, NEW c, NEW d, IsStack(a), IsStack(b), IsStack(c), IsStack(d)
  PROVE  Assoc(a, b, c) /\ Assoc(a, b \o c, d)
BY StackConcat, Associates, Zenon

\* What is read of the atoms by one who has read d before.
ReadOn(d, atoms) ==
  LET walk[i \in 0 .. Len(atoms)] == IF i = 0 THEN d ELSE StepNext(walk[i - 1], atoms[i])
  IN  walk[Len(atoms)]

Walking(walk, d, atoms, n) ==
  walk = [i \in 0 .. n |-> IF i = 0 THEN d ELSE StepNext(walk[i - 1], atoms[i])]

LEMMA WalkingExists ==
  ASSUME NEW d, NEW atoms, NEW n \in Nat
  PROVE  \E f : Walking(f, d, atoms, n)
<1> DEFINE S == {k \in 0 .. n : \E f : Walking(f, d, atoms, k)}
<1>1. 0 \in S
  <2>1. Walking([i \in 0 .. 0 |-> d], d, atoms, 0)
    BY DEF Walking
  <2> QED BY <2>1
<1>2. ASSUME NEW k \in 1 .. n, k - 1 \in S
      PROVE  k \in S
  <2>1. PICK f : Walking(f, d, atoms, k - 1)
    BY <1>2
  <2> DEFINE g == [i \in 0 .. k |-> IF i = k THEN StepNext(f[k - 1], atoms[k]) ELSE f[i]]
  <2>2. ASSUME NEW i \in 0 .. k
        PROVE  g[i] = IF i = 0 THEN d ELSE StepNext(g[i - 1], atoms[i])
    <3>1. CASE i = k
      <4>1. g[i] = StepNext(f[k - 1], atoms[k]) /\ g[i - 1] = f[k - 1]
        BY <3>1
      <4> QED BY <3>1, <4>1
    <3>2. CASE i = 0
      BY <2>1, <3>2 DEF Walking
    <3>3. CASE i # k /\ i # 0
      <4>1. i \in 0 .. k - 1 /\ i - 1 \in 0 .. k /\ i - 1 # k
        BY <3>3
      <4>2. g[i] = f[i] /\ g[i - 1] = f[i - 1]
        BY <3>3, <4>1
      <4>3. f[i] = IF i = 0 THEN d ELSE StepNext(f[i - 1], atoms[i])
        BY <2>1, <4>1 DEF Walking
      <4> QED BY <3>3, <4>2, <4>3
    <3> QED BY <3>1, <3>2, <3>3
  <2>3. g = [i \in 0 .. k |-> g[i]]
    OBVIOUS
  <2> HIDE DEF g
  <2>4. Walking(g, d, atoms, k)
    BY <2>2, <2>3 DEF Walking
  <2> QED BY <2>4
<1> HIDE DEF S
<1>3. n \in S
  BY <1>1, <1>2, Induction
<1> QED BY <1>3 DEF S

\* f goes from d on, over the first n atoms.
Walks(f, d, atoms, n) == f[0] = d /\ \A i \in 1 .. n : f[i] = StepNext(f[i - 1], atoms[i])

LEMMA ReadOnWalks ==
  ASSUME NEW d, NEW atoms, NEW n \in Nat, n = Len(atoms)
  PROVE  \E f : Walks(f, d, atoms, n) /\ ReadOn(d, atoms) = f[n]
<1> DEFINE f == CHOOSE g : Walking(g, d, atoms, n)
<1>1. Walking(f, d, atoms, n)
  BY WalkingExists
<1>2. ReadOn(d, atoms) = f[n]
  BY DEF ReadOn, Walking
<1> HIDE DEF f
<1>3. f[0] = d
  BY <1>1 DEF Walking
<1>4. \A i \in 1 .. n : f[i] = StepNext(f[i - 1], atoms[i])
  BY <1>1 DEF Walking
<1> QED BY <1>2, <1>3, <1>4 DEF Walks

\* Two walks that are level once, and stay so at each step, are level after m steps.
Level(f, g, k, m) ==
  g[0] = f[k] /\ \A i \in 1 .. m : g[i - 1] = f[k + i - 1] => g[i] = f[k + i]

LEMMA WalksMeet ==
  ASSUME NEW f, NEW g, NEW k \in Nat, NEW m \in Nat, Level(f, g, k, m)
  PROVE  g[m] = f[k + m]
<1> DEFINE S == {i \in 0 .. m : g[i] = f[k + i]}
<1>1. 0 \in S
  BY DEF Level
<1>2. ASSUME NEW i \in 1 .. m, i - 1 \in S
      PROVE  i \in S
  <2>1. g[i - 1] = f[k + i - 1]
    BY <1>2
  <2> QED BY <2>1 DEF Level
<1> HIDE DEF S
<1>3. m \in S
  BY <1>1, <1>2, Induction
<1> QED BY <1>3 DEF S

LEMMA ReadOnOne ==
  ASSUME NEW d, NEW a
  PROVE  ReadOn(d, <<a>>) = StepNext(d, a) /\ ReadOn(d, << >>) = d
<1>1. ReadOn(d, << >>) = d
  <2>1. Len(<< >>) = 0
    OBVIOUS
  <2>2. PICK f : Walks(f, d, << >>, 0) /\ ReadOn(d, << >>) = f[0]
    BY <2>1, ReadOnWalks
  <2> QED BY <2>2 DEF Walks
<1>2. ReadOn(d, <<a>>) = StepNext(d, a)
  <2>1. Len(<<a>>) = 1 /\ <<a>>[1] = a
    OBVIOUS
  <2>2. PICK f : Walks(f, d, <<a>>, 1) /\ ReadOn(d, <<a>>) = f[1]
    <3> DEFINE s == <<a>>
    <3>1. 1 \in Nat /\ 1 = Len(s)
      BY <2>1
    <3> HIDE DEF s
    <3>2. \E f : Walks(f, d, s, 1) /\ ReadOn(d, s) = f[1]
      BY <3>1, ReadOnWalks
    <3> QED BY <3>2 DEF s
  <2>3. f[1] = StepNext(f[0], <<a>>[1]) /\ f[0] = d
    BY <2>2 DEF Walks
  <2> QED BY <2>1, <2>2, <2>3
<1> QED BY <1>1, <1>2

LEMMA ReadOnConcat ==
  ASSUME NEW d, NEW a, NEW b, IsStack(a), IsStack(b)
  PROVE  ReadOn(d, a \o b) = ReadOn(ReadOn(d, a), b)
<1>1. PICK n \in Nat, m \in Nat : n = Len(a) /\ m = Len(b)
  BY StackLen
<1> DEFINE c == a \o b
           e == ReadOn(d, a)
<1>2. PICK p \in Nat : p = n + m
  OBVIOUS
<1>3. Len(c) = p /\ \A i \in 1 .. p : c[i] = IF i <= n THEN a[i] ELSE b[i - n]
  BY <1>1, <1>2, StackConcat
<1> HIDE DEF c, e
<1>4. PICK f : Walks(f, d, c, p) /\ ReadOn(d, c) = f[p]
  BY <1>3, ReadOnWalks
<1>5. PICK g : Walks(g, d, a, n) /\ e = g[n]
  BY <1>1, ReadOnWalks DEF e
<1>6. PICK h : Walks(h, e, b, m) /\ ReadOn(e, b) = h[m]
  BY <1>1, ReadOnWalks
<1>7. g[n] = f[n]
  <2>1. g[0] = f[0] /\ 0 \in Nat /\ f[0 + n] = f[n]
    BY <1>4, <1>5 DEF Walks
  <2>2. ASSUME NEW i \in 1 .. n, g[i - 1] = f[0 + i - 1]
        PROVE  g[i] = f[0 + i]
    <3>1. i \in 1 .. p /\ 0 + i - 1 = i - 1 /\ 0 + i = i /\ c[i] = a[i]
      BY <1>2, <1>3
    <3>2. f[i] = StepNext(f[i - 1], c[i]) /\ g[i] = StepNext(g[i - 1], a[i])
      BY <1>4, <1>5, <3>1 DEF Walks
    <3> QED BY <2>2, <3>1, <3>2
  <2>3. Level(f, g, 0, n)
    BY <2>1, <2>2 DEF Level
  <2>4. \A k \in Nat : Level(f, g, k, n) => g[n] = f[k + n]
    BY WalksMeet
  <2> QED BY <2>1, <2>3, <2>4
<1>8. h[m] = f[n + m]
  <2>1. h[0] = f[n]
    BY <1>5, <1>6, <1>7 DEF Walks
  <2>2. ASSUME NEW i \in 1 .. m, h[i - 1] = f[n + i - 1]
        PROVE  h[i] = f[n + i]
    <3>1. n + i \in 1 .. p /\ ~(n + i <= n) /\ n + i - n = i
      BY <1>2
    <3>2. c[n + i] = b[i]
      BY <1>3, <3>1
    <3>3. f[n + i] = StepNext(f[n + i - 1], c[n + i]) /\ h[i] = StepNext(h[i - 1], b[i])
      BY <1>4, <1>6, <3>1 DEF Walks
    <3> QED BY <2>2, <3>2, <3>3
  <2>3. \A i \in 1 .. m : h[i - 1] = f[n + i - 1] => h[i] = f[n + i]
    BY <2>2
  <2>4. Level(f, h, n, m)
    BY <2>1, <2>3 DEF Level
  <2> QED BY <2>4, WalksMeet
<1> QED BY <1>2, <1>4, <1>6, <1>8 DEF c, e

LEMMA ReadOnAppend ==
  ASSUME NEW d, NEW s, NEW a, IsStack(s)
  PROVE  ReadOn(d, Append(s, a)) = StepNext(ReadOn(d, s), a)
<1>1. Append(s, a) = s \o <<a>> /\ IsStack(<<a>>)
  BY AppendOne, Tuples
<1> QED BY <1>1, ReadOnConcat, ReadOnOne

LEMMA ReadIsReadOn ==
  ASSUME NEW out
  PROVE  Read(out) = ReadOn(Start, out)
BY DEF Read, ReadOn
-----------------------------------------------------------------------------
(***************************************************************************)
(* What the parts of a value do to the reader.                             *)
(***************************************************************************)
\* A reader in the middle of no lexeme.
Reader(E, open, at, name) ==
  [events |-> E, open |-> open, at |-> at, inside |-> Nothing, name |-> name, ok |-> TRUE]

Inner(ctx) == IF ctx = << >> THEN "top" ELSE Top(ctx)

IsName(l) ==
  l.lex \in {"bare", "quoted"} /\ l.calls \in Nat \ {0} /\ (l.lex = "bare" => l.val \notin NotBare)

IsScalar(l) == l.lex = "scalar" /\ l.calls \in Nat \ {0}

\* A symbol without text has an id that can be written.
Known(tok) ==
  tok.text = NoText /\ tok.sid # SymbolIDUnknown =>
    \E t \in DOMAIN SidText : SidText[t] = tok.sid

LEMMA NamesAreSomething ==
  ASSUME NEW l
  PROVE  NameOf(l) # Nothing
<1>1. \A x : [id |-> x] # << >> /\ [text |-> x] # << >>
  <2>1. DOMAIN << >> = {}
    OBVIOUS
  <2>2. \A x : DOMAIN [id |-> x] # {} /\ DOMAIN [text |-> x] # {}
    OBVIOUS
  <2> QED BY <2>1, <2>2, Zenon
<1> QED BY <1>1 DEF NameOf, Nothing

LEMMA BareIsName ==
  ASSUME NEW t
  PROVE  IsName(Bare(t)) /\ NameOf(Bare(t)) = MeantString(t)
BY NotBareAssumption DEF IsName, Bare, Lexeme, NameOf, MeantString, SymbolIdentifier

LEMMA SymbolIsName ==
  ASSUME NEW tok
  PROVE  /\ IsName(SymbolLexeme(tok))
         /\ Known(tok) /\ Valid(tok) => NameOf(SymbolLexeme(tok)) = Meant(tok)
<1>1. CASE tok.text = NoText
  <2>1. SymbolLexeme(tok) = Bare(SidName(tok.sid))
    BY <1>1 DEF SymbolLexeme
  <2>2. ASSUME Known(tok), Valid(tok)
        PROVE  MeantString(SidName(tok.sid)) = Meant(tok)
    <3>1. \E t \in DOMAIN SidText : SidText[t] = tok.sid
      BY <1>1, <2>2 DEF Known, Valid
    <3>2. SidName(tok.sid) \in DOMAIN SidText /\ SidText[SidName(tok.sid)] = tok.sid
      BY <3>1 DEF SidName
    <3>3. tok.sid # SymbolIDUnknown
      BY <1>1, <2>2 DEF Valid
    <3> QED BY <1>1, <3>2, <3>3 DEF MeantString, SymbolIdentifier, Meant
  <2> QED BY <2>1, <2>2, BareIsName
<1>2. CASE tok.text # NoText /\ SymbolIdentifier(tok.text) # SymbolIDUnknown
  BY <1>2 DEF SymbolLexeme, IsName, Lexeme, NameOf, Meant
<1>3. CASE tok.text # NoText /\ SymbolIdentifier(tok.text) = SymbolIDUnknown
  <2>1. SymbolLexeme(tok) = Bare(tok.text) /\ MeantString(tok.text) = Meant(tok)
    BY <1>3 DEF SymbolLexeme, MeantString, Meant
  <2> QED BY <2>1, BareIsName
<1> QED BY <1>1, <1>2, <1>3

\* Part by part, a lexeme is read to its end.
LEMMA LexemeRead ==
  ASSUME NEW E, NEW open, NEW at, NEW name, NEW l, l.calls \in Nat \ {0}
  PROVE  ReadOn(Reader(E, open, at, name), Parts(l)) = Completed(Reader(E, open, at, name), l)
<1> DEFINE d == Reader(E, open, at, name)
           yes == TRUE
           Within(x) == [events |-> E, open |-> open, at |-> at, inside |-> x,
                         name |-> name, ok |-> yes]
           Last(k) == IF k = 0 THEN Nothing ELSE <<l, k>>
           atom(k) == [k |-> "part", of |-> l, part |-> k]
<1>1. PICK n \in Nat : n = l.calls /\ n # 0
  OBVIOUS
<1>2. Len(Parts(l)) = n /\ \A k \in 1 .. n : Parts(l)[k] = atom(k)
  BY <1>1 DEF Parts
<1>3. PICK f : Walks(f, d, Parts(l), n) /\ ReadOn(d, Parts(l)) = f[n]
  BY <1>2, ReadOnWalks
<1>4. /\ d = Within(Last(0))
      /\ \A x : Within(x).ok /\ Within(x).inside = x
      /\ \A x, y : [Within(x) EXCEPT !.inside = y] = Within(y)
      /\ \A x : Check(Within(x), TRUE) = Within(x)
  <2>1. d = Within(Last(0))
    BY DEF Reader
  <2>2. \A x : Within(x).ok /\ Within(x).inside = x
    OBVIOUS
  <2>3. \A x, y : [Within(x) EXCEPT !.inside = y] = Within(y)
    <3> HIDE DEF yes
    <3> QED OBVIOUS
  <2>4. \A x : Check(Within(x), TRUE) = Within(x)
    BY DEF Check
  <2> HIDE DEF Within, d, Last
  <2> QED BY <2>1, <2>2, <2>3, <2>4
<1>5. ASSUME NEW k \in 1 .. n
      PROVE  StepNext(Within(Last(k - 1)), atom(k)) =
               IF k < n THEN Within(Last(k)) ELSE Completed(d, l)
  <2> DEFINE x  == Last(k - 1)
             d1 == Check(Within(x), Within(x).inside = IF k = 1 THEN Nothing ELSE <<l, k - 1>>)
  <2>1. x = IF k = 1 THEN Nothing ELSE <<l, k - 1>>
    OBVIOUS
  <2>2. Last(0) = Nothing /\ Last(k) = <<l, k>>
    OBVIOUS
  <2>3. atom(k).k = "part" /\ atom(k).of = l /\ atom(k).part = k
    OBVIOUS
  <2> HIDE DEF Within, d, atom, Last
  <2>4. StepNext(Within(x), atom(k)) = ReadPart(Within(x), atom(k))
    BY <1>4, <2>3 DEF StepNext, Step
  <2>5. ReadPart(Within(x), atom(k)) = IF k < n THEN [d1 EXCEPT !.inside = <<l, k>>]
                                       ELSE Completed([d1 EXCEPT !.inside = Nothing], l)
    BY <1>1, <2>3 DEF ReadPart
  <2>6. d1 = Within(x)
    BY <1>4, <2>1
  <2> QED BY <1>4, <2>2, <2>4, <2>5, <2>6
<1> HIDE DEF d, atom, Within, Last
<1> DEFINE S == {k \in 0 .. n : k < n => f[k] = Within(Last(k))}
<1>6. 0 \in S
  BY <1>3, <1>4 DEF Walks
<1>7. ASSUME NEW k \in 1 .. n, k - 1 \in S
      PROVE  k \in S
  <2>1. f[k] = StepNext(f[k - 1], Parts(l)[k])
    BY <1>3 DEF Walks
  <2>2. f[k - 1] = Within(Last(k - 1))
    BY <1>7
  <2> QED BY <1>2, <1>5, <2>1, <2>2
<1> HIDE DEF S
<1>8. \A k \in 0 .. n : k \in S
  BY <1>6, <1>7, Induction
<1>9. f[n - 1] = Within(Last(n - 1))
  <2>1. n - 1 \in 0 .. n /\ n - 1 < n
    BY <1>1
  <2> QED BY <1>8, <2>1 DEF S
<1>10. f[n] = StepNext(Within(Last(n - 1)), atom(n))
  <2>1. n \in 1 .. n
    BY <1>1
  <2> QED BY <1>2, <1>3, <1>9, <2>1 DEF Walks
<1>11. f[n] = Completed(d, l)
  BY <1>1, <1>5, <1>10
<1> QED BY <1>3, <1>11 DEF d

\* The changes of a reader, and a check that goes well.
Moved(d, x)    == [d EXCEPT !.at = x]
Renamed(d, n)  == [d EXCEPT !.name = n]
Reopened(d, o) == [d EXCEPT !.open = o]

LEMMA ReaderChanges ==
  ASSUME NEW E, NEW open, NEW at, NEW name
  PROVE  LET d == Reader(E, open, at, name)
         IN  /\ \A e : Tell(d, e) = Reader(Append(E, e), open, at, name)
             /\ \A x : Moved(d, x) = Reader(E, open, x, name)
             /\ \A n : Renamed(d, n) = Reader(E, open, at, n)
             /\ \A o : Reopened(d, o) = Reader(E, o, at, name)
<1> DEFINE yes == TRUE
           R(e, o, x, n) == [events |-> e, open |-> o, at |-> x, inside |-> Nothing,
                             name |-> n, ok |-> yes]
           d == R(E, open, at, name)
<1>1. \A e, o, x, n : Reader(e, o, x, n) = R(e, o, x, n)
  BY DEF Reader
<1> HIDE DEF yes
<1>2. \A e : Tell(d, e) = R(Append(E, e), open, at, name)
  BY DEF Tell
<1>3. /\ \A x : Moved(d, x) = R(E, open, x, name)
      /\ \A n : Renamed(d, n) = R(E, open, at, n)
      /\ \A o : Reopened(d, o) = R(E, o, at, name)
  BY DEF Moved, Renamed, Reopened
<1> HIDE DEF R
<1> QED BY <1>1, <1>2, <1>3

LEMMA ReaderChecked ==
  ASSUME NEW E, NEW open, NEW at, NEW name, NEW ok, ok
  PROVE  Check(Reader(E, open, at, name), ok) = Reader(E, open, at, name)
BY DEF Reader, Check

LEMMA ScalarRead ==
  ASSUME NEW E, NEW open, NEW at \in {"value", "must"}, NEW l, IsScalar(l)
  PROVE  ReadOn(Reader(E, open, at, Nothing), Parts(l)) =
           Reader(Append(E, Scalar(l)), open, "after", Nothing)
<1>1. Completed(Reader(E, open, at, Nothing), l) = Reader(Append(E, Scalar(l)), open, "after", Nothing)
  BY DEF Completed, IsScalar, Ready, Check, Tell, Reader
<1> QED BY <1>1, LexemeRead DEF IsScalar

LEMMA NameRead ==
  ASSUME NEW E, NEW open, NEW at, at # "after", NEW l, IsName(l)
  PROVE  ReadOn(Reader(E, open, at, Nothing), Parts(l)) = Reader(E, open, at, NameOf(l))
<1>1. Completed(Reader(E, open, at, Nothing), l) = Reader(E, open, at, NameOf(l))
  BY DEF Completed, IsName, Check, Reader
<1> QED BY <1>1, LexemeRead DEF IsName

\* A reader that has all of the values in front, but may not yet know that the last
\* name is one.
Stands(d, E, open, at) ==
  d.ok /\ d.inside = Nothing /\ Decided(d) = Reader(E, open, at, Nothing)

LEMMA ReaderStands ==
  ASSUME NEW E, NEW open, NEW at
  PROVE  Stands(Reader(E, open, at, Nothing), E, open, at)
BY DEF Stands, Reader, Decided

LEMMA SymbolStands ==
  ASSUME NEW E, NEW open, NEW at \in {"value", "must"}, NEW l
  PROVE  Stands(Reader(E, open, at, NameOf(l)), Append(E, [e |-> "symbol", name |-> NameOf(l)]),
                open, "after")
BY NamesAreSomething DEF Stands, Reader, Decided, Check, Tell

LEMMA FieldRead ==
  ASSUME NEW E, NEW open, NEW tok, Known(tok), Valid(tok)
  PROVE  ReadOn(Reader(E, open, "field", Nothing), Append(Parts(SymbolLexeme(tok)), Colon)) =
           Reader(Append(E, [e |-> "field", name |-> Meant(tok)]), open, "must", Nothing)
<1> DEFINE l == SymbolLexeme(tok)
           d == Reader(E, open, "field", NameOf(l))
<1>1. IsName(l) /\ NameOf(l) = Meant(tok)
  BY SymbolIsName
<1>2. ReadOn(Reader(E, open, "field", Nothing), Append(Parts(l), Colon)) = StepNext(d, Colon)
  BY <1>1, NameRead, NamePartsList, ReadOnAppend, PartsList, LexemeCalls
<1>3. StepNext(d, Colon) = ReadColon(d)
  BY DEF StepNext, Step, Colon, Reader
<1>4. ReadColon(d) = Reader(Append(E, [e |-> "field", name |-> NameOf(l)]), open, "must", Nothing)
  <2> DEFINE told == Tell(d, [e |-> "field", name |-> d.name])
             ok   == d.name # Nothing /\ d.at = "field"
  <2>1. d.name = NameOf(l) /\ ok = TRUE
    BY NamesAreSomething DEF Reader
  <2>2. ReadColon(d) = Moved(Renamed(Check(told, ok), Nothing), "must")
    BY DEF ReadColon, Moved, Renamed
  <2>3. told = Reader(Append(E, [e |-> "field", name |-> NameOf(l)]), open, "field", NameOf(l))
    BY <2>1, ReaderChanges
  <2> HIDE DEF told, ok, l
  <2>4. Check(told, ok) = told
    BY <2>1, <2>3, ReaderChecked
  <2> QED BY <2>2, <2>3, <2>4, ReaderChanges
<1> QED BY <1>1, <1>2, <1>3, <1>4

LEMMA MarkRead ==
  ASSUME NEW E, NEW open, NEW at \in {"value", "must"}, NEW tok, Known(tok), Valid(tok)
  PROVE  ReadOn(Reader(E, open, at, Nothing), Append(Parts(SymbolLexeme(tok)), DoubleColon)) =
           Reader(Append(E, [e |-> "annotation", name |-> Meant(tok)]), open, "must", Nothing)
<1> DEFINE l == SymbolLexeme(tok)
           d == Reader(E, open, at, NameOf(l))
<1>1. IsName(l) /\ NameOf(l) = Meant(tok)
  BY SymbolIsName
<1>2. ReadOn(Reader(E, open, at, Nothing), Append(Parts(l), DoubleColon)) = StepNext(d, DoubleColon)
  BY <1>1, NameRead, ReadOnAppend, PartsList, LexemeCalls
<1>3. StepNext(d, DoubleColon) = ReadDoubleColon(d)
  BY DEF StepNext, Step, DoubleColon, Reader
<1>4. ReadDoubleColon(d) =
        Reader(Append(E, [e |-> "annotation", name |-> NameOf(l)]), open, "must", Nothing)
  <2> DEFINE told == Tell(d, [e |-> "annotation", name |-> d.name])
             ok   == d.name # Nothing /\ d.at # "field"
  <2>1. d.name = NameOf(l) /\ ok = TRUE
    BY NamesAreSomething DEF Reader
  <2>2. ReadDoubleColon(d) = Moved(Renamed(Check(told, ok), Nothing), "must")
    BY DEF ReadDoubleColon, Moved, Renamed
  <2>3. told = Reader(Append(E, [e |-> "annotation", name |-> NameOf(l)]), open, at, NameOf(l))
    BY <2>1, ReaderChanges
  <2> HIDE DEF told, ok, l
  <2>4. Check(told, ok) = told
    BY <2>1, <2>3, ReaderChecked
  <2> QED BY <2>2, <2>3, <2>4, ReaderChanges
<1> QED BY <1>1, <1>2, <1>3, <1>4

\* What may come behind white space.
Spaced(open, at) == IF Inner(open) \in {"top", "sexp"} /\ at = "after" THEN "value" ELSE at

LEMMA SpaceStep ==
  ASSUME NEW d, NEW E, NEW open, NEW at, Stands(d, E, open, at), NEW ch
  PROVE  StepNext(d, Space(ch)) = Reader(E, open, Spaced(open, at), Nothing)
<1>1. StepNext(d, Space(ch)) = ReadSpace(Reader(E, open, at, Nothing))
  BY DEF StepNext, Step, Space, Stands
<1>2. Innermost(Reader(E, open, at, Nothing)) = Inner(open)
  BY DEF Innermost, Inner, Reader
<1>3. ReadSpace(Reader(E, open, at, Nothing)) = Reader(E, open, Spaced(open, at), Nothing)
  BY <1>2 DEF ReadSpace, Reader, Spaced
<1> QED BY <1>1, <1>3

LEMMA CommaStep ==
  ASSUME NEW d, NEW E, NEW open, Stands(d, E, open, "after"), Inner(open) \in {"list", "struct"},
         NEW ch
  PROVE  StepNext(d, Comma(ch)) = Reader(E, open, FirstIn(Inner(open)), Nothing)
<1>1. StepNext(d, Comma(ch)) = ReadComma(Reader(E, open, "after", Nothing))
  BY DEF StepNext, Step, Comma, Stands
<1>2. Innermost(Reader(E, open, "after", Nothing)) = Inner(open)
  BY DEF Innermost, Inner, Reader
<1>3. ReadComma(Reader(E, open, "after", Nothing)) = Reader(E, open, FirstIn(Inner(open)), Nothing)
  <2> DEFINE r  == Reader(E, open, "after", Nothing)
             ok == r.at = "after" /\ Innermost(r) \in {"list", "struct"}
  <2>1. ok = TRUE
    BY <1>2 DEF Reader
  <2>2. ReadComma(r) = Moved(Check(r, ok), FirstIn(Inner(open)))
    BY <1>2 DEF ReadComma, Moved
  <2> HIDE DEF ok
  <2>3. Check(r, ok) = r
    BY <2>1, ReaderChecked
  <2> QED BY <2>2, <2>3, ReaderChanges
<1> QED BY <1>1, <1>3

LEMMA ClosingStep ==
  ASSUME NEW d, NEW E, NEW open, NEW at, at # "must", Stands(d, E, open, at), NEW c, Inner(open) = c
  PROVE  StepNext(d, Closing(c)) = Reader(Append(E, Ended(c)), Pop(open), "after", Nothing)
<1>1. StepNext(d, Closing(c)) = ReadClosing(Reader(E, open, at, Nothing), c)
  BY DEF StepNext, Step, Closing, Stands
<1>2. Innermost(Reader(E, open, at, Nothing)) = Inner(open)
  BY DEF Innermost, Inner, Reader
<1>3. ReadClosing(Reader(E, open, at, Nothing), c) =
        Reader(Append(E, Ended(c)), Pop(open), "after", Nothing)
  BY <1>2 DEF ReadClosing, Tell, Reader
<1> QED BY <1>1, <1>3

LEMMA OpeningStep ==
  ASSUME NEW E, NEW open, NEW at \in {"value", "must"}, NEW c
  PROVE  StepNext(Reader(E, open, at, Nothing), Opening(c)) =
           Reader(Append(E, Begun(c)), Append(open, c), FirstIn(c), Nothing)
<1> DEFINE d == Reader(E, open, at, Nothing)
<1>1. StepNext(d, Opening(c)) = ReadOpening(d, c)
  BY DEF StepNext, Step, Opening, Reader
<1>2. ReadOpening(d, c) = Reader(Append(E, Begun(c)), Append(open, c), FirstIn(c), Nothing)
  <2> DEFINE told == Tell(d, Begun(c))
             ok   == Ready(d)
  <2>1. ok = TRUE /\ d.open = open
    BY DEF Ready, Reader
  <2>2. told = Reader(Append(E, Begun(c)), open, at, Nothing) /\ told.open = open
    BY <2>1, ReaderChanges DEF Reader
  <2> HIDE DEF told, ok
  <2>3. Check(told, ok) = told
    BY <2>1, <2>2, ReaderChecked
  <2>4. ReadOpening(d, c) = [Check(told, ok) EXCEPT !.open = Append(@, c), !.at = FirstIn(c)]
    BY DEF ReadOpening, told, ok
  <2>5. ReadOpening(d, c) = Moved(Reopened(told, Append(open, c)), FirstIn(c))
    <3>1. ReadOpening(d, c) = [told EXCEPT !.open = Append(@, c), !.at = FirstIn(c)]
      BY <2>3, <2>4, Zenon
    <3> DEFINE next == FirstIn(c)
    <3> HIDE DEF next
    <3>2. [told EXCEPT !.open = Append(@, c), !.at = next]
            = Moved(Reopened(told, Append(open, c)), next)
      BY <2>2 DEF Moved, Reopened
    <3> QED BY <3>1, <3>2, Zenon DEF next
  <2> QED BY <2>2, <2>5, ReaderChanges
<1> QED BY <1>1, <1>2

\* White space after white space.
LEMMA SpacesRead ==
  ASSUME NEW E, NEW open, NEW at, Spaced(open, at) = at,
         NEW s, NEW n \in Nat, Len(s) = n, \A i \in 1 .. n : s[i] = Space("\t")
  PROVE  ReadOn(Reader(E, open, at, Nothing), s) = Reader(E, open, at, Nothing)
<1> DEFINE d == Reader(E, open, at, Nothing)
<1>1. PICK f : Walks(f, d, s, n) /\ ReadOn(d, s) = f[n]
  BY ReadOnWalks
<1> DEFINE S == {i \in 0 .. n : f[i] = d}
<1>2. 0 \in S
  BY <1>1 DEF Walks
<1>3. ASSUME NEW i \in 1 .. n, i - 1 \in S
      PROVE  i \in S
  <2>1. f[i] = StepNext(d, Space("\t"))
    BY <1>1, <1>3 DEF Walks
  <2>2. StepNext(d, Space("\t")) = d
    BY ReaderStands, SpaceStep
  <2> QED BY <2>1, <2>2
<1> HIDE DEF S
<1>4. n \in S
  BY <1>2, <1>3, Induction
<1> QED BY <1>1, <1>4 DEF S
-----------------------------------------------------------------------------
(***************************************************************************)
(* What the operators of the writer have written, when they succeed.       *)
(***************************************************************************)
\* The output of the writer is the text of E, in the contexts of the writer.
Place(v) == IF v.needsSeparator THEN "after" ELSE FirstIn(Inner(v.ctx))

ReadsAs(d, v, E) ==
  Stands(d, E, v.ctx, Place(v)) /\ (~v.needsSeparator => d.name = Nothing)

Reading(v, E) == ReadsAs(Read(v.out), v, E)

LEMMA InnerContext ==
  ASSUME NEW ctx \in Seq(Contexts)
  PROVE  /\ Inner(ctx) \in {"top"} \cup Contexts
         /\ ctx = << >> <=> Inner(ctx) = "top"
         /\ Spaced(ctx, FirstIn(Inner(ctx))) = FirstIn(Inner(ctx))
         /\ FirstIn(Inner(ctx)) \in {"field", "value"}
<1>1. ctx # << >> => Top(ctx) \in Contexts
  <2> SUFFICES ASSUME ctx # << >> PROVE ctx[Len(ctx)] \in Contexts
    BY DEF Top
  <2>1. Len(ctx) \in 1 .. Len(ctx)
    BY LenProperties, EmptySeq
  <2> QED BY <2>1, ElementOfSeq
<1>2. "top" \notin Contexts
  BY DEF Contexts
<1> QED BY <1>1, <1>2 DEF Inner, FirstIn, Spaced

LEMMA StoodAs ==
  ASSUME NEW d, NEW E, NEW open, NEW at, Stands(d, E, open, at), d.name = Nothing
  PROVE  d = Reader(E, open, at, Nothing)
BY DEF Stands, Decided

LEMMA IndentationRead ==
  ASSUME NEW v, v.indent \in Nat, NEW E, NEW open, NEW at, Spaced(open, at) = at
  PROVE  ReadOn(Reader(E, open, at, Nothing), Indentation(v)) = Reader(E, open, at, Nothing)
<1> DEFINE n == IF v.pretty THEN v.indent ELSE 0
<1>1. n \in Nat /\ Indentation(v) = [i \in 1 .. n |-> Space("\t")]
  BY DEF Indentation
<1> HIDE DEF n
<1>2. Len(Indentation(v)) = n /\ \A i \in 1 .. n : Indentation(v)[i] = Space("\t")
  BY <1>1
<1> QED BY <1>1, <1>2, SpacesRead

LEMMA LayoutRead ==
  ASSUME NEW v, v.indent \in Nat, v.ctx \in Seq(Contexts), v.emptyContainer => v.ctx # << >>,
         NEW d, NEW E, ReadsAs(d, v, E)
  PROVE  ReadOn(d, Layout(v)) = Reader(E, v.ctx, FirstIn(Inner(v.ctx)), Nothing)
<1> DEFINE r == Reader(E, v.ctx, FirstIn(Inner(v.ctx)), Nothing)
           gap == IF v.emptyContainer /\ v.pretty THEN <<Newline>> ELSE << >>
<1>1. ReadOn(d, Separator(v)) = r
  <2>1. CASE ~v.needsSeparator
    <3>1. Separator(v) = << >>
      BY <2>1 DEF Separator
    <3>2. d = r
      BY <2>1, StoodAs DEF ReadsAs, Place
    <3> QED BY <3>1, <3>2, ReadOnOne
  <2>2. CASE v.needsSeparator
    <3>1. Stands(d, E, v.ctx, "after")
      BY <2>2 DEF ReadsAs, Place
    <3>2. CASE Inner(v.ctx) \in {"top", "sexp"}
      <4>1. PICK ch : Separator(v) = <<Space(ch)>>
        BY <2>2, <3>2, InnerContext DEF Separator, Inner, Newline
      <4>2. StepNext(d, Space(ch)) = Reader(E, v.ctx, Spaced(v.ctx, "after"), Nothing)
        BY <3>1, SpaceStep
      <4>3. Spaced(v.ctx, "after") = FirstIn(Inner(v.ctx))
        BY <3>2 DEF Spaced, FirstIn
      <4> QED BY <4>1, <4>2, <4>3, ReadOnOne
    <3>3. CASE Inner(v.ctx) \in {"list", "struct"}
      <4>1. PICK ch : Separator(v) = <<Comma(ch)>>
        BY <2>2, <3>3, InnerContext DEF Separator, Inner
      <4>2. StepNext(d, Comma(ch)) = r
        BY <3>1, <3>3, CommaStep
      <4> QED BY <4>1, <4>2, ReadOnOne
    <3> QED BY <3>2, <3>3, InnerContext DEF Contexts
  <2> QED BY <2>1, <2>2
<1>2. Spaced(v.ctx, FirstIn(Inner(v.ctx))) = FirstIn(Inner(v.ctx))
  BY InnerContext
<1>3. ReadOn(r, gap) = r
  <2>1. StepNext(r, Newline) = r
    BY <1>2, ReaderStands, SpaceStep DEF Newline
  <2> HIDE DEF r
  <2>2. ReadOn(r, <<Newline>>) = r /\ ReadOn(r, << >>) = r
    BY <2>1, ReadOnOne
  <2> QED BY <2>2
<1>4. ReadOn(r, Indentation(v)) = r
  BY <1>2, IndentationRead
<1>5. IsStack(Separator(v)) /\ IsStack(gap) /\ IsStack(Indentation(v))
  BY Tuples, IndentationList, Zenon DEF Separator
<1>6. Layout(v) = Separator(v) \o gap \o Indentation(v)
  BY DEF Layout
<1> HIDE DEF r, gap
<1>7. IsStack(Separator(v) \o gap)
  BY <1>5, StackConcat
<1>8. ReadOn(d, Separator(v) \o gap) = r
  BY <1>1, <1>3, <1>5, ReadOnConcat
<1>9. ReadOn(d, Layout(v)) = r
  BY <1>4, <1>5, <1>6, <1>7, <1>8, ReadOnConcat
<1> QED BY <1>9 DEF r

\* The bracket of the innermost container, on a line of its own or not.
LEMMA LeaveRead ==
  ASSUME NEW v, v.indent \in Nat, v.ctx \in Seq(Contexts), v.ctx # << >>,
         NEW d, NEW E, ReadsAs(d, v, E), NEW c, Top(v.ctx) = c
  PROVE  ReadOn(d, Append(EndLayout(v), Closing(c))) =
           Reader(Append(E, Ended(c)), Pop(v.ctx), "after", Nothing)
<1> DEFINE at  == Place(v)
           at1 == Spaced(v.ctx, at)
           r   == Reader(E, v.ctx, at1, Nothing)
           end == Reader(Append(E, Ended(c)), Pop(v.ctx), "after", Nothing)
<1>1. Inner(v.ctx) = c /\ at # "must" /\ at1 # "must" /\ Spaced(v.ctx, at1) = at1
  BY InnerContext DEF Inner, Place, Spaced
<1>2. Stands(d, E, v.ctx, at)
  BY DEF ReadsAs
<1>3. StepNext(d, Closing(c)) = end
  BY <1>1, <1>2, ClosingStep
<1>4. StepNext(r, Closing(c)) = end
  BY <1>1, ReaderStands, ClosingStep
<1>5. StepNext(d, Newline) = r
  BY <1>2, SpaceStep DEF Newline
<1>6. ReadOn(r, Indentation(v)) = r
  BY <1>1, IndentationRead
<1> HIDE DEF r, end
<1>7. CASE ~v.emptyContainer /\ v.pretty
  <2>1. EndLayout(v) = <<Newline>> \o Indentation(v)
    BY <1>7 DEF EndLayout
  <2>2. IsStack(<<Newline>>) /\ IsStack(Indentation(v))
    BY Tuples, IndentationList
  <2>3. ReadOn(d, EndLayout(v)) = r
    BY <1>5, <1>6, <2>1, <2>2, ReadOnOne, ReadOnConcat
  <2>4. IsStack(EndLayout(v))
    BY <2>1, <2>2, StackConcat
  <2> QED BY <1>4, <2>3, <2>4, ReadOnAppend DEF end
<1>8. CASE ~(~v.emptyContainer /\ v.pretty)
  <2>1. EndLayout(v) = << >>
    BY <1>8 DEF EndLayout
  <2> QED BY <1>3, <2>1, Tuples, ReadOnOne, ReadOnAppend DEF end
<1> QED BY <1>7, <1>8
-----------------------------------------------------------------------------
\* What a Write call does not change.
Alike(u, v) ==
  /\ u.tbl = v.tbl /\ u.wroteLST = v.wroteLST /\ u.ctx = v.ctx /\ u.err = v.err
  /\ u.fieldName = v.fieldName /\ u.annotations = v.annotations
  /\ u.indent = v.indent
  /\ u.needsSeparator = v.needsSeparator /\ u.emptyContainer = v.emptyContainer

LEMMA EmitRead ==
  ASSUME NEW v, Loose(v), v.err = "nil", NEW atoms, IsStack(atoms), EmitTo(v, atoms).ret = "nil"
  PROVE  LET u == EmitTo(v, atoms)
         IN  Alike(u, v) /\ Read(u.out) = ReadOn(Read(v.out), atoms)
<1> DEFINE u == EmitTo(v, atoms)
<1>1. Alike(u, v)
  <2>1. PICK out, writes, ret : u = [v EXCEPT !.out = out, !.writes = writes, !.ret = ret]
    BY DEF EmitTo
  <2> HIDE DEF u
  <2> QED BY <2>1 DEF Alike, Loose, Fields
<1>2. u.out = v.out \o atoms
  BY EmitLoose
<1>3. IsStack(v.out)
  BY DEF Loose
<1> HIDE DEF u
<1>4. Read(u.out) = ReadOn(Read(v.out), atoms)
  BY <1>2, <1>3, ReadIsReadOn, ReadOnConcat
<1> QED BY <1>1, <1>4 DEF u

NamedBy(name) == [e |-> "field", name |-> Meant(name)]
MarkedBy(mark) == [e |-> "annotation", name |-> Meant(mark)]

AllMarks(marks) == [i \in 1 .. Len(marks) |-> MarkedBy(marks[i])]

\* The events of what stands in front of a value.
InFront(v, name, marks) == (IF InStruct(v) THEN <<NamedBy(name)>> ELSE << >>) \o AllMarks(marks)

KnownMarks(marks) == IsStack(marks) /\ \A i \in 1 .. Len(marks) : Known(marks[i])

\* What writeAnnotations writes of the first n.
MarkAtoms(marks, n) ==
  Lists!FlattenSeq([i \in 1 .. n |-> Append(Parts(SymbolLexeme(marks[i])), DoubleColon)])

LEMMA MarksRead ==
  ASSUME NEW E, IsStack(E), NEW open, NEW at \in {"value", "must"},
         NEW marks, KnownMarks(marks), \A i \in 1 .. Len(marks) : Valid(marks[i])
  PROVE  \E x \in {"value", "must"} :
           ReadOn(Reader(E, open, at, Nothing), MarkAtoms(marks, Len(marks)))
             = Reader(E \o AllMarks(marks), open, x, Nothing)
<1> DEFINE r == Reader(E, open, at, Nothing)
           part(i) == Append(Parts(SymbolLexeme(marks[i])), DoubleColon)
           seqs == [i \in 1 .. Len(marks) |-> part(i)]
           told(k) == [i \in 1 .. k |-> MarkedBy(marks[i])]
<1>1. PICK n \in Nat : n = Len(marks)
  BY StackLen DEF KnownMarks
<1>2. Len(seqs) = n /\ (n = 0 => seqs = << >>) /\ \A i \in 1 .. n : seqs[i] = part(i)
  BY <1>1
<1>3. \A i \in 1 .. n : IsStack(part(i))
  BY NamePartsList
<1>4. ASSUME NEW i \in 1 .. n, NEW D, NEW x \in {"value", "must"}
      PROVE  ReadOn(Reader(D, open, x, Nothing), part(i)) =
               Reader(Append(D, MarkedBy(marks[i])), open, "must", Nothing)
  BY <1>1, MarkRead DEF KnownMarks, MarkedBy
<1>5. told(0) = << >>
  OBVIOUS
<1>6. \A k \in Nat : IsStack(told(k))
  BY FunctionList
<1>7. ASSUME NEW k \in 1 .. n
      PROVE  Append(E \o told(k - 1), MarkedBy(marks[k])) = E \o told(k)
  <2>1. Append(told(k - 1), MarkedBy(marks[k])) = told(k)
    OBVIOUS
  <2>2. IsStack(told(k - 1))
    BY <1>6
  <2> HIDE DEF told
  <2>3. Append(E \o told(k - 1), MarkedBy(marks[k])) = E \o Append(told(k - 1), MarkedBy(marks[k]))
    BY <2>2, AppendLast
  <2> QED BY <2>1, <2>3
<1>8. AllMarks(marks) = told(n)
  BY <1>1 DEF AllMarks
<1> HIDE DEF part, seqs, told
<1>9. CASE n = 0
  <2>1. Lists!FlattenSeq(seqs) = << >>
    BY <1>2, <1>9 DEF Lists!FlattenSeq
  <2>2. E \o told(n) = E
    BY <1>5, <1>9, ConcatNothing
  <2>3. ReadOn(r, Lists!FlattenSeq(seqs)) = Reader(E \o AllMarks(marks), open, at, Nothing)
    BY <1>8, <2>1, <2>2, ReadOnOne
  <2> QED BY <2>3 DEF MarkAtoms, seqs, part
<1>10. CASE n # 0
  <2> DEFINE f == CHOOSE g : Flattening(g, seqs, n)
  <2>1. Flattening(f, seqs, n)
    BY FlatteningExists
  <2>2. Lists!FlattenSeq(seqs) = f[n]
    BY <1>2, <1>10 DEF Lists!FlattenSeq, Flattening
  <2> HIDE DEF f
  <2> DEFINE S == {k \in 0 .. n : k # 0 => /\ IsStack(f[k])
                                           /\ ReadOn(r, f[k]) = Reader(E \o told(k), open, "must", Nothing)}
  <2>3. 0 \in S
    OBVIOUS
  <2>4. ASSUME NEW k \in 1 .. n, k - 1 \in S
        PROVE  k \in S
    <3>1. f[k] = IF k = 1 THEN part(k) ELSE f[k - 1] \o part(k)
      BY <1>2, <2>1 DEF Flattening
    <3>2. IsStack(part(k)) /\ Append(E \o told(k - 1), MarkedBy(marks[k])) = E \o told(k)
      BY <1>3, <1>7
    <3>3. CASE k = 1
      <4>1. E \o told(k - 1) = E
        <5>1. k - 1 = 0
          BY <3>3
        <5>2. E \o told(0) = E
          BY <1>5, ConcatNothing
        <5> QED BY <5>1, <5>2
      <4>2. ReadOn(r, part(k)) = Reader(E \o told(k), open, "must", Nothing)
        BY <1>4, <3>2, <4>1
      <4> QED BY <3>1, <3>2, <3>3, <4>2
    <3>4. CASE k # 1
      <4>1. IsStack(f[k - 1]) /\ ReadOn(r, f[k - 1]) = Reader(E \o told(k - 1), open, "must", Nothing)
        BY <2>4, <3>4
      <4>2. ReadOn(r, f[k - 1] \o part(k)) = Reader(E \o told(k), open, "must", Nothing)
        <5>1. ReadOn(r, f[k - 1] \o part(k)) = ReadOn(ReadOn(r, f[k - 1]), part(k))
          BY <3>2, <4>1, ReadOnConcat
        <5> QED BY <1>4, <3>2, <4>1, <5>1
      <4>3. IsStack(f[k - 1] \o part(k))
        BY <3>2, <4>1, StackConcat
      <4>4. f[k] = f[k - 1] \o part(k)
        BY <3>1, <3>4
      <4>5. IsStack(f[k]) /\ ReadOn(r, f[k]) = Reader(E \o told(k), open, "must", Nothing)
        BY <4>2, <4>3, <4>4, Zenon
      <4> QED BY <4>5
    <3> QED BY <3>3, <3>4
  <2> HIDE DEF S
  <2>5. n \in S
    BY <2>3, <2>4, Induction
  <2>6. ReadOn(r, Lists!FlattenSeq(seqs)) = Reader(E \o AllMarks(marks), open, "must", Nothing)
    BY <1>8, <1>10, <2>2, <2>5 DEF S
  <2> QED BY <2>6 DEF MarkAtoms, seqs, part
<1> QED BY <1>9, <1>10

\* The layout, the field name and the annotations in front of a value.
LEMMA BeginRestRead ==
  ASSUME NEW v, Fit(v), v.fieldName = NoName, NEW E, IsStack(E), Reading(v, E),
         NEW name, name = NoName \/ Known(name), NEW marks, KnownMarks(marks),
         BeginRest(v, name, marks).ret = "nil"
  PROVE  LET u == BeginRest(v, name, marks)
         IN  /\ Alike(u, v) /\ u.err = "nil" /\ v.ret = "nil"
             /\ \E at \in {"value", "must"} :
                  Read(u.out) = Reader(E \o InFront(v, name, marks), v.ctx, at, Nothing)
<1> DEFINE v1 == LayNext(v)
           v2 == NameNext(v1, name)
           v3 == MarkNext(v2, marks)
           E2 == E \o (IF InStruct(v) THEN <<NamedBy(name)>> ELSE << >>)
<1>1. BeginRest(v, name, marks) = v3
  BY DEF BeginRest
<1>2. /\ v1.ret # "nil" => v2 = v1
      /\ v2.ret # "nil" => v3 = v2
      /\ v.ret # "nil" => v1 = v
  BY DEF LayNext, NameNext, MarkNext
<1> HIDE DEF v3
<1>3. v3.ret = "nil"
  BY <1>1
<1> HIDE DEF v2
<1>4. v2.ret = "nil"
  BY <1>2, <1>3
<1> HIDE DEF v1
<1>5. v1.ret = "nil"
  BY <1>2, <1>4
<1>6. v.ret = "nil" /\ v.err = "nil" /\ Loose(v) /\ v.indent = Len(v.ctx) /\ v.ctx \in Seq(Contexts)
  BY <1>2, <1>5 DEF Fit, Loose
<1>7. /\ Alike(v1, v) /\ Loose(v1) /\ v1.err = "nil"
      /\ Read(v1.out) = Reader(E, v.ctx, FirstIn(Inner(v.ctx)), Nothing)
  <2>1. v1 = EmitTo(v, Layout(v))
    BY <1>6 DEF v1, LayNext
  <2>2. v.indent \in Nat
    BY <1>6, LenProperties
  <2>3. IsStack(Layout(v))
    BY <2>2, LayoutList
  <2>4. Loose(v1) /\ v1.err = "nil"
    BY <1>6, <2>1, <2>3, EmitLoose
  <2>5. Alike(v1, v) /\ Read(v1.out) = ReadOn(Read(v.out), Layout(v))
    BY <1>5, <1>6, <2>1, <2>3, EmitRead
  <2>6. ReadOn(Read(v.out), Layout(v)) = Reader(E, v.ctx, FirstIn(Inner(v.ctx)), Nothing)
    BY <1>6, <2>2, LayoutRead DEF Reading, Fit
  <2> QED BY <2>4, <2>5, <2>6
<1>8. /\ Alike(v2, v) /\ Loose(v2) /\ v2.err = "nil"
      /\ \E at \in {"value", "must"} : Read(v2.out) = Reader(E2, v.ctx, at, Nothing)
  <2>1. InStruct(v1) = InStruct(v)
    BY <1>7 DEF Alike, InStruct
  <2>2. CASE ~InStruct(v)
    <3>1. v2 = v1
      BY <2>1, <2>2 DEF v2, NameNext
    <3>2. E2 = E
      BY <2>2, ConcatNothing
    <3>3. FirstIn(Inner(v.ctx)) = "value"
      BY <2>2 DEF InStruct, Inner, FirstIn
    <3> QED BY <1>7, <3>1, <3>2, <3>3
  <2>3. CASE InStruct(v)
    <3> DEFINE x == [v1 EXCEPT !.fieldName = name]
               y == [x EXCEPT !.fieldName = NoName]
               atoms == Append(Parts(SymbolLexeme(name)), Colon)
    <3>1. v2 = WriteFieldName(x)
      BY <1>5, <2>1, <2>3 DEF v2, NameNext
    <3>2. x.fieldName = name
      BY <1>7 DEF Loose, Fields
    <3>3. Alike(y, v) /\ y.out = v1.out /\ Loose(y) /\ y.err = "nil"
      BY <1>7 DEF Alike, Loose, Fields
    <3>4. WriteFieldName(x) = IF name = NoName \/ ~Valid(name) THEN Return(y, "usage")
                              ELSE EmitTo(y, atoms)
      BY <3>2 DEF WriteFieldName
    <3> HIDE DEF x, y
    <3>5. Return(y, "usage").ret = "usage"
      BY <3>3 DEF Return, Loose, Fields
    <3>6. name # NoName /\ Valid(name) /\ v2 = EmitTo(y, atoms)
      BY <1>4, <3>1, <3>4, <3>5
    <3>7. IsStack(atoms)
      BY NamePartsList
    <3>8. Alike(v2, y) /\ Read(v2.out) = ReadOn(Read(y.out), atoms) /\ Loose(v2)
      BY <1>4, <3>3, <3>6, <3>7, EmitRead, EmitLoose
    <3>9. FirstIn(Inner(v.ctx)) = "field"
      BY <2>3 DEF InStruct, Inner, FirstIn
    <3>10. ReadOn(Read(y.out), atoms) = Reader(Append(E, NamedBy(name)), v.ctx, "must", Nothing)
      BY <1>7, <3>3, <3>6, <3>9, FieldRead DEF NamedBy
    <3>11. E2 = Append(E, NamedBy(name))
      BY <2>3, AppendOne
    <3>12. Alike(v2, v) /\ v2.err = "nil"
      BY <3>3, <3>8 DEF Alike
    <3> QED BY <3>8, <3>10, <3>11, <3>12
  <2> QED BY <2>2, <2>3
<1>9. \A i \in 1 .. Len(marks) : Valid(marks[i])
  <2> DEFINE invalid == {i \in 1 .. Len(marks) : ~Valid(marks[i])}
             n       == IF invalid = {} THEN Len(marks) ELSE MinOf(invalid) - 1
             v4      == EmitTo(v2, Lists!FlattenSeq([i \in 1 .. n |->
                                      Append(Parts(SymbolLexeme(marks[i])), DoubleColon)]))
  <2>1. v3 = IF v4.ret = "nil" /\ invalid # {} THEN Return(v4, "usage") ELSE v4
    BY <1>4 DEF v3, MarkNext, WriteAnnotations
  <2>2. Fields \subseteq DOMAIN v4
    BY <1>8 DEF EmitTo, Loose
  <2> HIDE DEF v4, invalid
  <2>3. Return(v4, "usage").ret = "usage"
    BY <2>2 DEF Return, Fields
  <2>4. invalid = {}
    BY <1>3, <2>1, <2>3
  <2> QED BY <2>4 DEF invalid
<1>10. /\ Alike(v3, v) /\ v3.err = "nil"
       /\ \E at \in {"value", "must"} :
            Read(v3.out) = Reader(E2 \o AllMarks(marks), v.ctx, at, Nothing)
  <2> DEFINE atoms == Lists!FlattenSeq([i \in 1 .. Len(marks) |->
                                          Append(Parts(SymbolLexeme(marks[i])), DoubleColon)])
  <2>1. v3 = EmitTo(v2, atoms)
    <3>1. {i \in 1 .. Len(marks) : ~Valid(marks[i])} = {}
      BY <1>9
    <3> QED BY <1>4, <3>1 DEF v3, MarkNext, WriteAnnotations
  <2>2. IsStack(atoms)
    BY AnnotationPartsList, StackLen DEF KnownMarks
  <2>3. Alike(v3, v2) /\ Read(v3.out) = ReadOn(Read(v2.out), atoms)
    BY <1>3, <1>8, <2>1, <2>2, EmitRead
  <2>4. IsStack(E2)
    BY Tuples, StackConcat
  <2> HIDE DEF E2
  <2>5. PICK at \in {"value", "must"} : Read(v2.out) = Reader(E2, v.ctx, at, Nothing)
    BY <1>8
  <2>6. \E x \in {"value", "must"} :
          ReadOn(Reader(E2, v.ctx, at, Nothing), atoms) =
            Reader(E2 \o AllMarks(marks), v.ctx, x, Nothing)
    BY <1>9, <2>4, MarksRead DEF MarkAtoms
  <2>7. Alike(v3, v) /\ v3.err = "nil"
    BY <1>8, <2>3 DEF Alike
  <2> QED BY <2>3, <2>5, <2>6, <2>7
<1>11. E2 \o AllMarks(marks) = E \o InFront(v, name, marks)
  <2> DEFINE front == IF InStruct(v) THEN <<NamedBy(name)>> ELSE << >>
  <2>1. IsStack(front)
    BY Tuples
  <2>2. IsStack(AllMarks(marks))
    BY StackLen, FunctionList DEF AllMarks, KnownMarks
  <2>3. E2 = E \o front /\ InFront(v, name, marks) = front \o AllMarks(marks)
    BY DEF InFront
  <2> HIDE DEF front, E2
  <2>4. (E \o front) \o AllMarks(marks) = E \o (front \o AllMarks(marks))
    BY <2>1, <2>2, ConcatTwice
  <2> QED BY <2>3, <2>4, Zenon
<1> QED BY <1>1, <1>6, <1>10, <1>11

\* A writer that has written E, and has nothing set aside for the next value.
Plain(v, E) ==
  /\ Fit(v) /\ v.err = "nil" /\ IsStack(E) /\ Reading(v, E)
  /\ v.fieldName = NoName /\ v.annotations = << >>

\* What is in front of a value has been written.
Fronted(v, E, at) ==
  /\ Fit(v) /\ v.err = "nil" /\ IsStack(E) /\ at \in {"value", "must"}
  /\ Read(v.out) = Reader(E, v.ctx, at, Nothing)
  /\ v.fieldName = NoName /\ v.annotations = << >>

SameTable(u, v) == u.tbl = v.tbl /\ u.wroteLST = v.wroteLST

LEMMA PutLexemeRead ==
  ASSUME NEW v, NEW E, NEW at, Fronted(v, E, at), NEW l, l.calls \in Nat, PutLexeme(v, l).ret = "nil",
         NEW E1, IsStack(E1), Stands(ReadOn(Reader(E, v.ctx, at, Nothing), Parts(l)), E1, v.ctx, "after")
  PROVE  LET u == PutLexeme(v, l)
         IN  Plain(u, E1) /\ u.ctx = v.ctx /\ SameTable(u, v)
<1> DEFINE v1 == EmitTo(v, Parts(l))
           u  == PutLexeme(v, l)
<1>1. v.err = "nil" /\ Loose(v) /\ Fit(v)
  BY DEF Fronted, Fit
<1>2. v.ret = "nil"
  <2>1. v.ret # "nil" => u = Store(v)
    BY DEF PutLexeme
  <2>2. Store(v).ret = v.ret
    BY <1>1, StoreFit
  <2> QED BY <2>1, <2>2
<1>3. IsStack(Parts(l))
  BY PartsList
<1>4. Fit(v1)
  BY <1>1, <1>3, EmitFit
<1>5. u = EndValue(v1) \/ (v1.ret # "nil" /\ u \in {v1, Store(v1)})
  BY <1>2 DEF PutLexeme
<1> HIDE DEF v1, u
<1>6. v1.ret = "nil" /\ u = EndValue(v1)
  <2>1. Store(v1).ret = v1.ret /\ EndValue(v1).ret = v1.ret
    BY <1>4, StoreFit, EndValueFit
  <2>2. u.ret = "nil"
    BY DEF u
  <2> QED BY <1>5, <2>1, <2>2
<1>7. Alike(v1, v) /\ Stands(Read(v1.out), E1, v.ctx, "after")
  BY <1>1, <1>3, <1>6, EmitRead DEF v1, Fronted
<1>8. /\ Fit(u) /\ u.err = v1.err /\ u.out = v1.out /\ u.ctx = v1.ctx /\ u.needsSeparator
      /\ u.fieldName = v1.fieldName /\ u.annotations = v1.annotations
      /\ u.tbl = v1.tbl /\ u.wroteLST = v1.wroteLST
  <2>1. Fit(u)
    BY <1>4, <1>6, EndValueFit
  <2> QED BY <1>4, <1>6, <2>1 DEF EndValue, Fit, Loose, Fields
<1>9. Reading(u, E1)
  BY <1>7, <1>8 DEF Reading, ReadsAs, Place, Alike
<1> QED BY <1>1, <1>7, <1>8, <1>9 DEF Plain, SameTable, Alike, Fronted, u

LEMMA PutScalarRead ==
  ASSUME NEW v, NEW E, NEW at, Fronted(v, E, at), NEW l, IsScalar(l), PutLexeme(v, l).ret = "nil"
  PROVE  LET u == PutLexeme(v, l)
         IN  Plain(u, Append(E, Scalar(l))) /\ u.ctx = v.ctx /\ SameTable(u, v)
<1>1. IsStack(Append(E, Scalar(l))) /\ at \in {"value", "must"}
  BY StackPushed DEF Fronted
<1>2. Stands(ReadOn(Reader(E, v.ctx, at, Nothing), Parts(l)), Append(E, Scalar(l)), v.ctx, "after")
  BY <1>1, ScalarRead, ReaderStands
<1> QED BY <1>1, <1>2, PutLexemeRead DEF IsScalar

LEMMA PutNameRead ==
  ASSUME NEW v, NEW E, NEW at, Fronted(v, E, at), NEW l, IsName(l), PutLexeme(v, l).ret = "nil"
  PROVE  LET u == PutLexeme(v, l)
         IN  /\ Plain(u, Append(E, [e |-> "symbol", name |-> NameOf(l)]))
             /\ u.ctx = v.ctx /\ SameTable(u, v)
<1> DEFINE E1 == Append(E, [e |-> "symbol", name |-> NameOf(l)])
<1>1. IsStack(E1) /\ at \in {"value", "must"}
  BY StackPushed DEF Fronted
<1>2. Stands(ReadOn(Reader(E, v.ctx, at, Nothing), Parts(l)), E1, v.ctx, "after")
  BY <1>1, NameRead, SymbolStands
<1> HIDE DEF E1
<1>3. LET u == PutLexeme(v, l) IN Plain(u, E1) /\ u.ctx = v.ctx /\ SameTable(u, v)
  BY <1>1, <1>2, PutLexemeRead DEF IsName
<1> QED BY <1>3 DEF E1

LEMMA EnterRead ==
  ASSUME NEW v, NEW E, NEW at, Fronted(v, E, at), NEW c \in Contexts, Enter(v, c).ret = "nil"
  PROVE  LET u == Enter(v, c)
         IN  Plain(u, Append(E, Begun(c))) /\ u.ctx = Append(v.ctx, c) /\ SameTable(u, v)
<1> DEFINE v1 == [v EXCEPT !.ctx = Append(@, c), !.indent = @ + 1,
                           !.needsSeparator = FALSE, !.emptyContainer = TRUE]
           v2 == EmitTo(v1, <<Opening(c)>>)
           u  == Enter(v, c)
           E1 == Append(E, Begun(c))
<1>1. v.err = "nil" /\ Loose(v) /\ Fit(v)
  BY DEF Fronted, Fit
<1>2. Fit(u)
  BY <1>1, EnterFit
<1>3. v.ret = "nil"
  <2>1. v.ret # "nil" => u = Store(v)
    BY DEF Enter
  <2>2. Store(v).ret = v.ret
    BY <1>1, StoreFit
  <2> QED BY <2>1, <2>2
<1>4. u = Store(v2)
  BY <1>3 DEF Enter
<1>5. v.ctx \in Seq(Contexts) /\ Append(v.ctx, c) \in Seq(Contexts)
  BY <1>1, AppendProperties DEF Loose
<1>6. /\ Loose(v1) /\ v1.err = "nil" /\ v1.out = v.out /\ v1.ctx = Append(v.ctx, c)
      /\ ~v1.needsSeparator /\ v1.fieldName = v.fieldName /\ v1.annotations = v.annotations
      /\ SameTable(v1, v)
  BY <1>1, <1>5 DEF Loose, Fields, SameTable
<1> HIDE DEF v1, u
<1>7. IsStack(<<Opening(c)>>)
  BY Tuples
<1>8. Loose(v2)
  BY <1>6, <1>7, EmitLoose
<1> HIDE DEF v2
<1>9. v2.ret = "nil" /\ u.out = v2.out /\ Alike(u, v2)
  <2>1. u.ret = "nil"
    BY DEF u
  <2>2. v2.ret = "nil" /\ v2.err = "nil"
    BY <1>4, <1>8, <2>1 DEF Store, Loose, Fields
  <2> QED BY <1>4, <1>8, <2>2 DEF Store, Loose, Fields, Alike
<1>10. Alike(v2, v1) /\ Read(v2.out) = ReadOn(Read(v1.out), <<Opening(c)>>)
  BY <1>6, <1>7, <1>9, EmitRead DEF v2
<1>11. Read(u.out) = Reader(E1, Append(v.ctx, c), FirstIn(c), Nothing)
  BY <1>6, <1>9, <1>10, ReadOnOne, OpeningStep DEF Fronted
<1>12. Inner(Append(v.ctx, c)) = c
  BY <1>5 DEF Inner, Top
<1>13. Stands(Read(u.out), E1, Append(v.ctx, c), FirstIn(c)) /\ Read(u.out).name = Nothing
  <2>1. Stands(Read(u.out), E1, Append(v.ctx, c), FirstIn(c))
    BY <1>11, ReaderStands
  <2>2. \A D, o, x : Reader(D, o, x, Nothing).name = Nothing
    BY DEF Reader
  <2> HIDE DEF E1
  <2>3. Read(u.out).name = Nothing
    BY <1>11, <2>2
  <2> QED BY <2>1, <2>3
<1>14. /\ u.ctx = Append(v.ctx, c) /\ ~u.needsSeparator /\ u.err = "nil" /\ SameTable(u, v)
       /\ u.fieldName = NoName /\ u.annotations = << >>
  BY <1>6, <1>9, <1>10 DEF Alike, SameTable, Fronted
<1>15. Reading(u, E1) /\ IsStack(E1)
  BY <1>12, <1>13, <1>14, StackPushed DEF Reading, ReadsAs, Place, Fronted
<1> QED BY <1>2, <1>14, <1>15 DEF Plain, u

\* Whatever was set aside is forgotten at the end of a container.
LEMMA EndRead ==
  ASSUME NEW v, Fit(v), NEW E, IsStack(E), Reading(v, E), NEW c, End(v, c).ret = "nil"
  PROVE  LET u == End(v, c)
         IN  /\ Plain(u, Append(E, Ended(c))) /\ SameTable(u, v)
             /\ v.ctx # << >> /\ u.ctx = Pop(v.ctx)
<1> DEFINE v0 == [v EXCEPT !.indent = @ - 1]
           v1 == Leave(v0, c)
           v2 == Clear(v1)
           v3 == [v2 EXCEPT !.ctx = Pop(@)]
           u  == End(v, c)
           E1 == Append(E, Ended(c))
<1>1. Loose(v) /\ v.ctx \in Seq(Contexts) /\ (v.err = "nil" => v.indent = Len(v.ctx))
  BY DEF Fit, Loose
<1>2. Fit(u)
  BY EndFit
<1>3. v.err = "nil"
  <2>1. v.err # "nil" => u = Return(v, v.err)
    BY DEF End
  <2> QED BY <1>1, <2>1 DEF Return, Loose, Fields
<1>4. v.ctx # << >> /\ Top(v.ctx) = c
  <2>1. ~(v.ctx # << >> /\ Top(v.ctx) = c) => u = Store(Return(v, "usage"))
    BY <1>3 DEF End
  <2> QED BY <1>1, <2>1 DEF Return, Store, Loose, Fields
<1>5. u = IF v1.ret # "nil" THEN Store(v1) ELSE EndValue(v3)
  BY <1>3, <1>4 DEF End
<1>6. Len(v.ctx) \in Nat /\ Len(v.ctx) > 0
  BY <1>1, <1>4, LenProperties, EmptySeq
<1>7. /\ Loose(v0) /\ v0.err = "nil" /\ v0.ctx = v.ctx /\ v0.out = v.out /\ v0.indent \in Nat
      /\ v0.needsSeparator = v.needsSeparator /\ SameTable(v0, v)
  BY <1>1, <1>3, <1>6 DEF Loose, Fields, SameTable
<1> HIDE DEF v0, u
<1> DEFINE atoms == Append(EndLayout(v0), Closing(c))
<1>8. IsStack(atoms)
  <2>1. IsStack(EndLayout(v0))
    BY <1>7, Tuples, IndentationList, StackConcat DEF EndLayout
  <2> QED BY <2>1, StackPushed
<1>9. v1 = EmitTo(v0, atoms)
  BY DEF Leave
<1>10. Loose(v1)
  BY <1>7, <1>8, <1>9, EmitLoose
<1> HIDE DEF v1, atoms
<1>11. v1.ret = "nil" /\ u = EndValue(v3)
  <2>1. u.ret = "nil"
    BY DEF u
  <2> QED BY <1>5, <1>10, <2>1 DEF Store, Loose, Fields
<1>12. Alike(v1, v0) /\ Read(v1.out) = ReadOn(Read(v0.out), atoms)
  BY <1>7, <1>8, <1>9, <1>11, EmitRead
<1>13. ReadsAs(Read(v0.out), v0, E)
  BY <1>7 DEF Reading, ReadsAs, Place
<1>14. Read(v1.out) = Reader(E1, Pop(v.ctx), "after", Nothing)
  BY <1>1, <1>4, <1>7, <1>12, <1>13, LeaveRead DEF atoms
<1>15. /\ u.ctx = Pop(v.ctx) /\ u.out = v1.out /\ u.needsSeparator /\ u.err = "nil"
       /\ u.fieldName = NoName /\ u.annotations = << >> /\ SameTable(u, v)
  BY <1>7, <1>10, <1>11, <1>12 DEF EndValue, Clear, Loose, Fields, Alike, SameTable
<1>16. Reading(u, E1) /\ IsStack(E1)
  BY <1>14, <1>15, StackPushed, ReaderStands DEF Reading, ReadsAs, Place
<1> QED BY <1>2, <1>4, <1>15, <1>16 DEF Plain, u
-----------------------------------------------------------------------------
(***************************************************************************)
(* What the table in front of the first value has written.                 *)
(***************************************************************************)
\* A writer that has written E, and has a name and annotations set aside.
Waiting(v, E) ==
  /\ Fit(v) /\ v.err = "nil" /\ IsStack(E) /\ Reading(v, E)
  /\ v.fieldName = NoName \/ Known(v.fieldName)
  /\ KnownMarks(v.annotations)

Pending(v) == InFront(v, v.fieldName, v.annotations)

LEMMA NothingInFront ==
  ASSUME NEW v, ~InStruct(v), NEW name
  PROVE  InFront(v, name, << >>) = << >>
<1>1. AllMarks(<< >>) = << >>
  BY DEF AllMarks
<1>2. IsStack(<< >>)
  BY Tuples
<1>3. << >> \o << >> = << >>
  BY <1>2, ConcatNothing
<1> QED BY <1>1, <1>3 DEF InFront

LEMMA PendingList ==
  ASSUME NEW v, NEW E, Waiting(v, E)
  PROVE  IsStack(Pending(v))
<1> DEFINE front == IF InStruct(v) THEN <<NamedBy(v.fieldName)>> ELSE << >>
<1>1. IsStack(front)
  BY Tuples
<1>2. IsStack(AllMarks(v.annotations))
  BY StackLen, FunctionList DEF AllMarks, KnownMarks, Waiting
<1> QED BY <1>1, <1>2, StackConcat DEF Pending, InFront

\* The writer without what was set aside, and with no error.
LEMMA ClearedPlain ==
  ASSUME NEW v, Fit(v), v.err = "nil", NEW E, IsStack(E), Reading(v, E)
  PROVE  /\ Plain(Clear(v), E) /\ Clear(v).ctx = v.ctx /\ SameTable(Clear(v), v)
         /\ v.fieldName = NoName /\ v.annotations = << >> => Plain(Return(v, "nil"), E)
         /\ Return(v, "nil").ctx = v.ctx /\ SameTable(Return(v, "nil"), v)
<1>1. /\ Fit(Clear(v)) /\ Clear(v).err = "nil" /\ Clear(v).ctx = v.ctx /\ Clear(v).out = v.out
      /\ Fit(Return(v, "nil")) /\ Return(v, "nil").err = "nil"
      /\ Return(v, "nil").ctx = v.ctx /\ Return(v, "nil").out = v.out
  BY ClearFit, ReturnFit DEF Errs
<1>2. /\ Clear(v).fieldName = NoName /\ Clear(v).annotations = << >>
      /\ Clear(v).needsSeparator = v.needsSeparator /\ SameTable(Clear(v), v)
  BY DEF Clear, Fit, Loose, Fields, SameTable
<1>3. /\ Return(v, "nil").needsSeparator = v.needsSeparator /\ SameTable(Return(v, "nil"), v)
      /\ Return(v, "nil").fieldName = v.fieldName /\ Return(v, "nil").annotations = v.annotations
  BY DEF Return, Fit, Loose, Fields, SameTable
<1>4. Reading(Clear(v), E)
  BY <1>1, <1>2 DEF Reading, ReadsAs, Place
<1>5. Reading(Return(v, "nil"), E)
  BY <1>1, <1>3 DEF Reading, ReadsAs, Place
<1> QED BY <1>1, <1>2, <1>3, <1>4, <1>5 DEF Plain

LEMMA BeginRestFronted ==
  ASSUME NEW v, NEW E, Plain(v, E), NEW name, name = NoName \/ Known(name),
         NEW marks, KnownMarks(marks), BeginRest(v, name, marks).ret = "nil"
  PROVE  LET u == BeginRest(v, name, marks)
         IN  /\ \E at : Fronted(u, E \o InFront(v, name, marks), at)
             /\ u.ctx = v.ctx /\ SameTable(u, v)
<1> DEFINE u == BeginRest(v, name, marks)
           front == IF InStruct(v) THEN <<NamedBy(name)>> ELSE << >>
<1>1. Fit(u)
  BY BeginRestFit DEF Plain, KnownMarks
<1>2. /\ Alike(u, v) /\ u.err = "nil"
      /\ \E at \in {"value", "must"} :
           Read(u.out) = Reader(E \o InFront(v, name, marks), v.ctx, at, Nothing)
  BY BeginRestRead DEF Plain
<1>3. IsStack(front) /\ IsStack(AllMarks(marks))
  <2>1. IsStack(AllMarks(marks))
    BY StackLen, FunctionList DEF AllMarks, KnownMarks
  <2> QED BY <2>1, Tuples
<1>4. IsStack(E \o InFront(v, name, marks))
  BY <1>3, StackConcat DEF InFront, Plain
<1> HIDE DEF u
<1> QED BY <1>1, <1>2, <1>4 DEF u, Fronted, Alike, SameTable, Plain

LEMMA BeginNextFronted ==
  ASSUME NEW v, NEW E, Waiting(v, E), BeginNext(v).ret = "nil"
  PROVE  LET u == BeginNext(v)
         IN  /\ \E at : Fronted(u, E \o Pending(v), at)
             /\ u.ctx = v.ctx /\ SameTable(u, v)
<1>1. Plain(Clear(v), E) /\ Clear(v).ctx = v.ctx /\ SameTable(Clear(v), v)
  BY ClearedPlain DEF Waiting
<1>2. InFront(Clear(v), v.fieldName, v.annotations) = Pending(v)
  BY <1>1 DEF InFront, InStruct, Pending
<1> QED BY <1>1, <1>2, BeginRestFronted DEF BeginNext, Waiting, SameTable

\* The calls of the table's, one by one.
LEMMA DoNextSucceeds ==
  ASSUME NEW v, NEW call, DoNext(v, call).ret = "nil"
  PROVE  v.ret = "nil" /\ DoNext(v, call) = Do(v, call)
BY DEF DoNext

LEMMA DoIs ==
  ASSUME NEW v
  PROVE  /\ \A t : Do(v, Named(t)) = FieldName(v, Token(t, SymbolIDUnknown))
         /\ \A c : Do(v, Begun(c)) = Enter(BeginNext(v), c) /\ Do(v, Ended(c)) = End(v, c)
         /\ \A l : Do(v, Scalar(l)) = PutLexeme(BeginNext(v), l)
<1>1. ASSUME NEW t
      PROVE  Do(v, Named(t)) = FieldName(v, Token(t, SymbolIDUnknown))
  <2> DEFINE call == Named(t)
  <2>1. call.e = "field" /\ call.name.text = t
    BY DEF Named
  <2> HIDE DEF call
  <2>2. Do(v, call) = FieldName(v, Token(t, SymbolIDUnknown))
    BY <2>1 DEF Do
  <2> QED BY <2>2 DEF call
<1>2. ASSUME NEW c
      PROVE  Do(v, Begun(c)) = Enter(BeginNext(v), c)
  <2> DEFINE call == Begun(c)
  <2>1. call.e = "begin" /\ call.c = c
    BY DEF Begun
  <2> HIDE DEF call
  <2>2. Do(v, call) = Enter(BeginNext(v), c)
    BY <2>1 DEF Do
  <2> QED BY <2>2 DEF call
<1>3. ASSUME NEW c
      PROVE  Do(v, Ended(c)) = End(v, c)
  <2> DEFINE call == Ended(c)
  <2>1. call.e = "end" /\ call.c = c
    BY DEF Ended
  <2> HIDE DEF call
  <2>2. Do(v, call) = End(v, c)
    BY <2>1 DEF Do
  <2> QED BY <2>2 DEF call
<1>4. ASSUME NEW l
      PROVE  Do(v, Scalar(l)) = PutLexeme(BeginNext(v), l)
  <2> DEFINE call == Scalar(l)
  <2>1. call.e = "scalar" /\ call.lexeme = l
    BY DEF Scalar
  <2> HIDE DEF call
  <2>2. Do(v, call) = PutLexeme(BeginNext(v), l)
    BY <2>1 DEF Do
  <2> QED BY <2>2 DEF call
<1> QED BY <1>1, <1>2, <1>3, <1>4

LEMMA NamedRead ==
  ASSUME NEW v, NEW E, Plain(v, E), NEW t, t # NoText, DoNext(v, Named(t)).ret = "nil"
  PROVE  LET u == DoNext(v, Named(t))
         IN  Waiting(u, E) /\ Pending(u) = <<Named(t)>> /\ u.ctx = v.ctx /\ SameTable(u, v)
<1> DEFINE tok == Token(t, SymbolIDUnknown)
           u   == DoNext(v, Named(t))
<1>1. u = FieldName(v, tok)
  BY DoNextSucceeds, DoIs
<1> HIDE DEF u
<1>2. u.ret = "nil"
  BY DEF u
<1>3. v.err = "nil" /\ Fields \subseteq DOMAIN v /\ Fit(v)
  BY DEF Plain, Fit, Loose
<1>4. Fit(u)
  BY <1>1, <1>3, FieldNameFit
<1>5. InStruct(v)
  <2>1. ~InStruct(v) => u = Store(Return(v, "usage"))
    BY <1>1, <1>3 DEF FieldName
  <2> QED BY <1>2, <1>3, <2>1 DEF Store, Return, Fields
<1>6. /\ u.fieldName = tok /\ u.annotations = << >> /\ u.ctx = v.ctx /\ u.out = v.out
      /\ u.err = "nil" /\ u.needsSeparator = v.needsSeparator /\ SameTable(u, v)
  BY <1>1, <1>3, <1>5 DEF FieldName, Fields, SameTable, Plain
<1>7. Known(tok) /\ KnownMarks(<< >>)
  BY Tuples DEF Known, KnownMarks, Token
<1>8. Waiting(u, E)
  BY <1>4, <1>6, <1>7 DEF Waiting, Plain, Reading, ReadsAs, Place
<1>9. Pending(u) = <<Named(t)>>
  <2>1. AllMarks(<< >>) = << >>
    BY DEF AllMarks
  <2>2. NamedBy(tok) = Named(t)
    BY DEF NamedBy, Named, Meant, Token
  <2>3. Pending(u) = <<Named(t)>> \o << >>
    BY <1>5, <1>6, <2>1, <2>2 DEF Pending, InFront, InStruct
  <2> QED BY <2>3, Tuples, ConcatNothing
<1> QED BY <1>6, <1>8, <1>9 DEF u

LEMMA MarkedRead ==
  ASSUME NEW v, NEW E, Plain(v, E), ~InStruct(v), NEW t, t # NoText, DoNext(v, Marked(t)).ret = "nil"
  PROVE  LET u == DoNext(v, Marked(t))
         IN  Waiting(u, E) /\ Pending(u) = <<Marked(t)>> /\ u.ctx = v.ctx /\ SameTable(u, v)
<1> DEFINE tok == Token(t, SymbolIDUnknown)
           u   == DoNext(v, Marked(t))
<1>1. u = Annotations(v, <<tok>>)
  BY DoNextSucceeds DEF Do, Marked
<1> HIDE DEF u
<1>2. v.err = "nil" /\ Fields \subseteq DOMAIN v /\ Fit(v)
  BY DEF Plain, Fit, Loose
<1>3. Fit(u)
  BY <1>1, <1>2, Tuples, AnnotationsFit
<1>4. << >> \o <<tok>> = <<tok>>
  BY Tuples, ConcatNothing
<1>5. /\ u.fieldName = NoName /\ u.annotations = <<tok>> /\ u.ctx = v.ctx /\ u.out = v.out
      /\ u.err = "nil" /\ u.needsSeparator = v.needsSeparator /\ SameTable(u, v)
  BY <1>1, <1>2, <1>4 DEF Annotations, Fields, SameTable, Plain
<1>6. Known(tok)
  BY DEF Known, Token
<1>7. KnownMarks(<<tok>>)
  BY <1>6, Tuples DEF KnownMarks
<1>8. Waiting(u, E)
  BY <1>3, <1>5, <1>7 DEF Waiting, Plain, Reading, ReadsAs, Place
<1>9. Pending(u) = <<Marked(t)>>
  <2>1. AllMarks(<<tok>>) = <<MarkedBy(tok)>>
    BY DEF AllMarks
  <2>2. MarkedBy(tok) = Marked(t)
    BY DEF MarkedBy, Marked, Meant, Token
  <2>3. Pending(u) = << >> \o <<Marked(t)>>
    BY <1>5, <2>1, <2>2 DEF Pending, InFront, InStruct
  <2> QED BY <2>3, Tuples, ConcatNothing
<1> QED BY <1>5, <1>8, <1>9 DEF u

LEMMA ScalarCallRead ==
  ASSUME NEW v, NEW E, Waiting(v, E), NEW l, IsScalar(l), DoNext(v, Scalar(l)).ret = "nil"
  PROVE  LET u == DoNext(v, Scalar(l))
         IN  /\ Plain(u, Append(E \o Pending(v), Scalar(l)))
             /\ u.ctx = v.ctx /\ SameTable(u, v)
<1> DEFINE v1 == BeginNext(v)
           u  == DoNext(v, Scalar(l))
<1>1. u = PutLexeme(v1, l)
  BY DoNextSucceeds, DoIs
<1>2. v1.ret = "nil"
  <2>1. Fit(v1)
    BY ClearFit, BeginRestFit DEF BeginNext, Waiting, Fit, Loose
  <2>2. v1.ret # "nil" => u = Store(v1)
    BY <1>1 DEF PutLexeme
  <2> HIDE DEF v1
  <2> QED BY <2>1, <2>2, StoreFit
<1> HIDE DEF u
<1>3. PICK at : Fronted(v1, E \o Pending(v), at)
  BY <1>2, BeginNextFronted
<1>4. v1.ctx = v.ctx /\ SameTable(v1, v)
  BY <1>2, BeginNextFronted
<1> HIDE DEF v1
<1>5. Plain(u, Append(E \o Pending(v), Scalar(l))) /\ u.ctx = v1.ctx /\ SameTable(u, v1)
  BY <1>1, <1>3, PutScalarRead DEF u
<1> QED BY <1>4, <1>5 DEF SameTable, u

LEMMA BegunCallRead ==
  ASSUME NEW v, NEW E, Waiting(v, E), NEW c \in Contexts, DoNext(v, Begun(c)).ret = "nil"
  PROVE  LET u == DoNext(v, Begun(c))
         IN  /\ Plain(u, Append(E \o Pending(v), Begun(c)))
             /\ u.ctx = Append(v.ctx, c) /\ SameTable(u, v)
<1> DEFINE v1 == BeginNext(v)
           u  == DoNext(v, Begun(c))
<1>1. u = Enter(v1, c)
  BY DoNextSucceeds, DoIs
<1>2. v1.ret = "nil"
  <2>1. Fit(v1)
    BY ClearFit, BeginRestFit DEF BeginNext, Waiting, Fit, Loose
  <2>2. v1.ret # "nil" => u = Store(v1)
    BY <1>1 DEF Enter
  <2> HIDE DEF v1
  <2> QED BY <2>1, <2>2, StoreFit
<1> HIDE DEF u
<1>3. PICK at : Fronted(v1, E \o Pending(v), at)
  BY <1>2, BeginNextFronted
<1>4. v1.ctx = v.ctx /\ SameTable(v1, v)
  BY <1>2, BeginNextFronted
<1> HIDE DEF v1
<1>5. Plain(u, Append(E \o Pending(v), Begun(c))) /\ u.ctx = Append(v1.ctx, c) /\ SameTable(u, v1)
  BY <1>1, <1>3, EnterRead DEF u
<1> QED BY <1>4, <1>5 DEF SameTable, u

LEMMA EndedCallRead ==
  ASSUME NEW v, NEW E, Plain(v, E), NEW c, DoNext(v, Ended(c)).ret = "nil"
  PROVE  LET u == DoNext(v, Ended(c))
         IN  Plain(u, Append(E, Ended(c))) /\ u.ctx = Pop(v.ctx) /\ SameTable(u, v)
<1>1. DoNext(v, Ended(c)) = End(v, c)
  BY DoNextSucceeds, DoIs
<1> QED BY <1>1, EndRead DEF Plain

\* Runs goes from v on, over the first n calls.
Runs(f, v, calls, n) == f[0] = v /\ \A i \in 1 .. n : f[i] = DoNext(f[i - 1], calls[i])

LEMMA RunCallsRuns ==
  ASSUME NEW v, NEW calls, NEW n \in Nat, n = Len(calls)
  PROVE  \E f : Runs(f, v, calls, n) /\ RunCalls(v, calls) = f[n]
<1> DEFINE f == CHOOSE g : Running(g, v, calls, n)
<1>1. Running(f, v, calls, n)
  BY RunningExists
<1>2. RunCalls(v, calls) = f[n]
  BY DEF RunCalls, Running
<1> HIDE DEF f
<1>3. f[0] = v
  BY <1>1 DEF Running
<1>4. \A i \in 1 .. n : f[i] = DoNext(f[i - 1], calls[i])
  BY <1>1 DEF Running
<1> QED BY <1>2, <1>3, <1>4 DEF Runs

LEMMA RunsExist ==
  \A v, calls : \A n \in Nat :
    n = Len(calls) => \E f : Runs(f, v, calls, n) /\ RunCalls(v, calls) = f[n]
BY RunCallsRuns

LEMMA RunOne ==
  ASSUME NEW v, NEW call
  PROVE  RunCalls(v, <<call>>) = DoNext(v, call) /\ RunCalls(v, << >>) = v
<1>1. RunCalls(v, << >>) = v
  <2>1. Len(<< >>) = 0
    OBVIOUS
  <2>2. PICK f : Runs(f, v, << >>, 0) /\ RunCalls(v, << >>) = f[0]
    BY <2>1, RunCallsRuns
  <2> QED BY <2>2 DEF Runs
<1>2. RunCalls(v, <<call>>) = DoNext(v, call)
  <2>1. Len(<<call>>) = 1 /\ <<call>>[1] = call
    OBVIOUS
  <2>2. PICK f : Runs(f, v, <<call>>, 1) /\ RunCalls(v, <<call>>) = f[1]
    <3> DEFINE s == <<call>>
    <3>1. 1 \in Nat /\ 1 = Len(s)
      BY <2>1
    <3> HIDE DEF s
    <3>2. \E f : Runs(f, v, s, 1) /\ RunCalls(v, s) = f[1]
      BY <3>1, RunCallsRuns
    <3> QED BY <3>2 DEF s
  <2>3. f[1] = DoNext(f[0], <<call>>[1]) /\ f[0] = v
    BY <2>2 DEF Runs
  <2> QED BY <2>1, <2>2, <2>3
<1> QED BY <1>1, <1>2

LEMMA RunConcat ==
  ASSUME NEW v, NEW a, NEW b, IsStack(a), IsStack(b)
  PROVE  RunCalls(v, a \o b) = RunCalls(RunCalls(v, a), b)
<1>1. PICK n \in Nat, m \in Nat : n = Len(a) /\ m = Len(b)
  BY StackLen
<1> DEFINE c == a \o b
           e == RunCalls(v, a)
<1>2. PICK p \in Nat : p = n + m
  OBVIOUS
<1>3. Len(c) = p /\ \A i \in 1 .. p : c[i] = IF i <= n THEN a[i] ELSE b[i - n]
  BY <1>1, <1>2, StackConcat
<1> HIDE DEF c, e
<1>4. PICK f : Runs(f, v, c, p) /\ RunCalls(v, c) = f[p]
  BY <1>3, RunCallsRuns
<1>5. PICK g : Runs(g, v, a, n) /\ e = g[n]
  BY <1>1, RunCallsRuns DEF e
<1>6. PICK h : Runs(h, e, b, m) /\ RunCalls(e, b) = h[m]
  BY <1>1, RunCallsRuns
<1>7. g[n] = f[n]
  <2>1. g[0] = f[0] /\ 0 \in Nat /\ f[0 + n] = f[n]
    BY <1>4, <1>5 DEF Runs
  <2>2. ASSUME NEW i \in 1 .. n, g[i - 1] = f[0 + i - 1]
        PROVE  g[i] = f[0 + i]
    <3>1. i \in 1 .. p /\ 0 + i - 1 = i - 1 /\ 0 + i = i /\ c[i] = a[i]
      BY <1>2, <1>3
    <3>2. f[i] = DoNext(f[i - 1], c[i]) /\ g[i] = DoNext(g[i - 1], a[i])
      BY <1>4, <1>5, <3>1 DEF Runs
    <3> QED BY <2>2, <3>1, <3>2
  <2>3. Level(f, g, 0, n)
    BY <2>1, <2>2 DEF Level
  <2>4. \A k \in Nat : Level(f, g, k, n) => g[n] = f[k + n]
    BY WalksMeet
  <2> QED BY <2>1, <2>3, <2>4
<1>8. h[m] = f[n + m]
  <2>1. h[0] = f[n]
    BY <1>5, <1>6, <1>7 DEF Runs
  <2>2. ASSUME NEW i \in 1 .. m, h[i - 1] = f[n + i - 1]
        PROVE  h[i] = f[n + i]
    <3>1. n + i \in 1 .. p /\ ~(n + i <= n) /\ n + i - n = i
      BY <1>2
    <3>2. c[n + i] = b[i]
      BY <1>3, <3>1
    <3>3. f[n + i] = DoNext(f[n + i - 1], c[n + i]) /\ h[i] = DoNext(h[i - 1], b[i])
      BY <1>4, <1>6, <3>1 DEF Runs
    <3> QED BY <2>2, <3>2, <3>3
  <2>3. \A i \in 1 .. m : h[i - 1] = f[n + i - 1] => h[i] = f[n + i]
    BY <2>2
  <2>4. Level(f, h, n, m)
    BY <2>1, <2>3 DEF Level
  <2> QED BY <2>4, WalksMeet
<1> QED BY <1>2, <1>4, <1>6, <1>8 DEF c, e

LEMMA PopPushed ==
  ASSUME NEW S, NEW s \in Seq(S), NEW c \in S
  PROVE  Pop(Append(s, c)) = s /\ Append(s, c) # << >> /\ Top(Append(s, c)) = c
<1>1. PICK n \in Nat : n = Len(s)
  BY LenProperties
<1>2. /\ Append(s, c) \in Seq(S) /\ Len(Append(s, c)) = n + 1
      /\ \A i \in 1 .. n : Append(s, c)[i] = s[i]
      /\ Append(s, c)[n + 1] = c
  BY <1>1, AppendProperties
<1> DEFINE t == Append(s, c)
<1> HIDE DEF t
<1>3. \A i \in 1 .. n : t[i] \in S /\ t[i] = s[i]
  BY <1>1, <1>2, ElementOfSeq DEF t
<1>4. SubSeq(t, 1, n) \in Seq(S) /\ Len(SubSeq(t, 1, n)) = n /\ \A i \in 1 .. n : SubSeq(t, 1, n)[i] = t[i]
  BY <1>3, StackPrefix
<1>5. SubSeq(t, 1, n) = s
  BY <1>1, <1>3, <1>4, SeqEqual
<1>6. Pop(t) = SubSeq(t, 1, n)
  BY <1>2 DEF Pop, t
<1> QED BY <1>1, <1>2, <1>5, <1>6, EmptySeq DEF t, Top

\* With nothing set aside, and outside of a struct, nothing stands in front of a value.
LEMMA PlainWaits ==
  ASSUME NEW v, NEW E, Plain(v, E)
  PROVE  /\ Waiting(v, E)
         /\ ~InStruct(v) => Pending(v) = << >>
<1>1. KnownMarks(<< >>)
  BY Tuples DEF KnownMarks
<1>2. Waiting(v, E)
  BY <1>1 DEF Plain, Waiting
<1>3. ~InStruct(v) => Pending(v) = << >>
  BY NothingInFront DEF Pending, Plain
<1> QED BY <1>2, <1>3

LEMMA TableTexts ==
  /\ "name" # NoText /\ "version" # NoText /\ "max_id" # NoText /\ "imports" # NoText
  /\ "$ion_symbol_table" # NoText
<1>1. /\ V1SystemSymbols[4] = "name" /\ V1SystemSymbols[5] = "version"
      /\ V1SystemSymbols[8] = "max_id" /\ V1SystemSymbols[6] = "imports"
      /\ V1SystemSymbols[3] = "$ion_symbol_table" /\ Len(V1SystemSymbols) = 9
  BY DEF V1SystemSymbols
<1>2. \A i \in 1 .. 9 : V1SystemSymbols[i] # NoText
  BY <1>1, TextAssumption
<1> QED BY <1>1, <1>2
-----------------------------------------------------------------------------
(***************************************************************************)
(* What was read stays read: the beginning of an output that can be read   *)
(* can be read, and tells the beginning of what the output tells.          *)
(***************************************************************************)

\* One who reads on forgets no mistake and no event.
Reads(d) == {"events", "open", "at", "inside", "name", "ok"} \subseteq DOMAIN d /\ IsStack(d.events)

Grows(d, e) == Reads(e) /\ (e.ok => d.ok) /\ Leads(d.events, e.events)

LEMMA GrowsOn ==
  ASSUME NEW d, NEW e, NEW f, Reads(d), Grows(d, e), Grows(e, f)
  PROVE  Grows(d, f)
BY LeadsOn DEF Grows, Reads

LEMMA BasicGrows ==
  ASSUME NEW d, Reads(d)
  PROVE  /\ Grows(d, d) /\ Grows(d, Wrong(d))
         /\ \A c : Grows(d, Check(d, c))
         /\ \A x : Grows(d, Tell(d, x))
         /\ \A e : DOMAIN e = DOMAIN d /\ e.events = d.events /\ e.ok = d.ok => Grows(d, e)
<1>1. Leads(d.events, d.events) /\ \A x : Leads(d.events, Append(d.events, x))
  BY LeadsItself DEF Reads
<1>2. Grows(d, d) /\ Grows(d, Wrong(d))
  BY <1>1 DEF Grows, Reads, Wrong
<1>3. \A c : Grows(d, Check(d, c))
  BY <1>1 DEF Grows, Reads, Check
<1>4. ASSUME NEW x
      PROVE  Grows(d, Tell(d, x))
  <2> DEFINE e == Tell(d, x)
  <2>1. DOMAIN e = DOMAIN d /\ e.events = Append(d.events, x) /\ e.ok = d.ok
    BY DEF Tell, Reads
  <2>2. IsStack(Append(d.events, x))
    BY StackPushed DEF Reads
  <2> HIDE DEF e
  <2>3. Grows(d, e)
    BY <1>1, <2>1, <2>2 DEF Grows, Reads
  <2> QED BY <2>3 DEF e
<1>5. \A e : DOMAIN e = DOMAIN d /\ e.events = d.events /\ e.ok = d.ok => Grows(d, e)
  BY <1>1 DEF Grows, Reads
<1> QED BY <1>2, <1>3, <1>4, <1>5

LEMMA DecidedGrows ==
  ASSUME NEW d, Reads(d)
  PROVE  Grows(d, Decided(d))
<1> DEFINE t == Tell(d, [e |-> "symbol", name |-> d.name])
           c == Check(t, d.at # "field")
           e == [c EXCEPT !.name = Nothing, !.at = "after"]
<1>1. Grows(d, t)
  BY BasicGrows
<1> HIDE DEF t
<1>2. Grows(t, c)
  BY <1>1, BasicGrows DEF Grows
<1> HIDE DEF c
<1>3. Grows(d, c)
  BY <1>1, <1>2, GrowsOn
<1>4. DOMAIN e = DOMAIN c /\ e.events = c.events /\ e.ok = c.ok
  BY <1>2 DEF Grows, Reads
<1> HIDE DEF e
<1>5. Grows(c, e)
  BY <1>2, <1>4, BasicGrows DEF Grows
<1>6. Grows(d, e)
  BY <1>3, <1>5, GrowsOn
<1>7. Decided(d) = d \/ Decided(d) = e
  BY DEF Decided, e, c, t
<1> QED BY <1>6, <1>7, BasicGrows

LEMMA StepGrows ==
  ASSUME NEW d, Reads(d), NEW a
  PROVE  Grows(d, StepNext(d, a))
<1>1. Grows(d, Decided(d))
  BY DecidedGrows
<1>2. ASSUME NEW x, Reads(x), NEW event, NEW cond, NEW e, DOMAIN e = DOMAIN x,
             e.events = Check(Tell(x, event), cond).events, e.ok = Check(Tell(x, event), cond).ok
      PROVE  Grows(x, e)
  <2> DEFINE t == Tell(x, event)
             c == Check(t, cond)
  <2>1. Grows(x, t) /\ DOMAIN t = DOMAIN x
    BY <1>2, BasicGrows DEF Tell
  <2> HIDE DEF t
  <2>2. Grows(t, c) /\ DOMAIN c = DOMAIN t
    BY <2>1, BasicGrows DEF Grows, Check
  <2> HIDE DEF c
  <2>3. Grows(x, c)
    BY <1>2, <2>1, <2>2, GrowsOn
  <2>4. e.events = c.events /\ e.ok = c.ok /\ DOMAIN e = DOMAIN c
    BY <1>2, <2>1, <2>2 DEF c, t
  <2>5. Grows(c, e)
    BY <2>2, <2>4, BasicGrows DEF Grows
  <2> QED BY <1>2, <2>3, <2>5, GrowsOn
<1>3. ASSUME NEW x, Reads(x), NEW cond, NEW e, DOMAIN e = DOMAIN x,
             e.events = Check(x, cond).events, e.ok = Check(x, cond).ok
      PROVE  Grows(x, e)
  <2> DEFINE c == Check(x, cond)
  <2>1. Grows(x, c) /\ DOMAIN c = DOMAIN x
    BY <1>3, BasicGrows DEF Check
  <2> HIDE DEF c
  <2>2. e.events = c.events /\ e.ok = c.ok /\ DOMAIN e = DOMAIN c
    BY <1>3, <2>1 DEF c
  <2>3. Grows(c, e)
    BY <2>1, <2>2, BasicGrows DEF Grows
  <2> QED BY <1>3, <2>1, <2>3, GrowsOn
<1>4. ASSUME NEW x, Reads(x), NEW l
      PROVE  Grows(x, Completed(x, l))
  <2>1. CASE l.lex = "scalar"
    <3> DEFINE c == Check(Tell(x, Scalar(l)), Ready(x))
    <3>1. Completed(x, l) = [c EXCEPT !.at = "after"]
      BY <2>1 DEF Completed
    <3>2. DOMAIN c = DOMAIN x
      BY DEF Check, Tell
    <3> DEFINE e == [c EXCEPT !.at = "after"]
    <3>3. DOMAIN e = DOMAIN x /\ e.events = c.events /\ e.ok = c.ok
      <4> HIDE DEF c
      <4> QED BY <1>4, <3>2 DEF Reads
    <3> HIDE DEF e
    <3>4. Grows(x, e)
      BY <1>2, <1>4, <3>3, Zenon
    <3> QED BY <3>1, <3>4 DEF e
  <2>2. CASE l.lex # "scalar"
    <3> DEFINE cond == x.name = Nothing /\ x.at # "after" /\ (l.lex = "bare" => l.val \notin NotBare)
               c == Check(x, cond)
               e == [c EXCEPT !.name = NameOf(l)]
    <3>1. Completed(x, l) = e
      BY <2>2 DEF Completed
    <3> HIDE DEF cond
    <3>2. DOMAIN c = DOMAIN x
      BY DEF Check
    <3>3. DOMAIN e = DOMAIN x /\ e.events = c.events /\ e.ok = c.ok
      <4> HIDE DEF c
      <4> QED BY <1>4, <3>2 DEF Reads
    <3> HIDE DEF e
    <3>4. Grows(x, e)
      BY <1>3, <1>4, <3>3, Zenon
    <3> QED BY <3>1, <3>4
  <2> QED BY <2>1, <2>2
<1>5. Grows(d, ReadPart(d, a))
  <2> DEFINE c == Check(d, d.inside = IF a.part = 1 THEN Nothing ELSE <<a.of, a.part - 1>>)
             e == [c EXCEPT !.inside = <<a.of, a.part>>]
             f == [c EXCEPT !.inside = Nothing]
  <2>1. ReadPart(d, a) = e \/ ReadPart(d, a) = Completed(f, a.of)
    BY DEF ReadPart
  <2>2. Grows(d, c)
    BY BasicGrows
  <2> HIDE DEF c
  <2>3. DOMAIN e = DOMAIN c /\ e.events = c.events /\ e.ok = c.ok
    BY <2>2 DEF Grows, Reads
  <2>4. DOMAIN f = DOMAIN c /\ f.events = c.events /\ f.ok = c.ok
    BY <2>2 DEF Grows, Reads
  <2> HIDE DEF e, f
  <2>5. Grows(d, e) /\ Grows(d, f)
    BY <2>2, <2>3, <2>4, BasicGrows, GrowsOn DEF Grows
  <2>6. Grows(d, Completed(f, a.of))
    BY <1>4, <2>5, GrowsOn DEF Grows
  <2> QED BY <2>1, <2>5, <2>6
<1>6. Grows(d, ReadColon(d)) /\ Grows(d, ReadDoubleColon(d))
  <2> DEFINE c1 == Check(Tell(d, [e |-> "field", name |-> d.name]), d.name # Nothing /\ d.at = "field")
             c2 == Check(Tell(d, [e |-> "annotation", name |-> d.name]), d.name # Nothing /\ d.at # "field")
             e1 == [c1 EXCEPT !.name = Nothing, !.at = "must"]
             e2 == [c2 EXCEPT !.name = Nothing, !.at = "must"]
  <2>1. ReadColon(d) = e1 /\ ReadDoubleColon(d) = e2
    BY DEF ReadColon, ReadDoubleColon
  <2>2. DOMAIN c1 = DOMAIN d /\ DOMAIN c2 = DOMAIN d
    BY DEF Check, Tell
  <2>3. DOMAIN e1 = DOMAIN d /\ e1.events = c1.events /\ e1.ok = c1.ok
    <3> HIDE DEF c1
    <3> QED BY <2>2 DEF Reads
  <2>4. DOMAIN e2 = DOMAIN d /\ e2.events = c2.events /\ e2.ok = c2.ok
    <3> HIDE DEF c2
    <3> QED BY <2>2 DEF Reads
  <2> HIDE DEF e1, e2
  <2>5. Grows(d, e1)
    BY <1>2, <2>3, Zenon
  <2>6. Grows(d, e2)
    BY <1>2, <2>4, Zenon
  <2> QED BY <2>1, <2>5, <2>6
<1>7. ASSUME NEW x, Reads(x)
      PROVE  Grows(x, ReadComma(x)) /\ Grows(x, ReadSpace(x))
  <2> DEFINE c  == Check(x, x.at = "after" /\ Innermost(x) \in {"list", "struct"})
             e1 == [c EXCEPT !.at = FirstIn(Innermost(x))]
             e2 == [x EXCEPT !.at = "value"]
  <2>1. ReadComma(x) = e1 /\ (ReadSpace(x) = e2 \/ ReadSpace(x) = x)
    BY DEF ReadComma, ReadSpace
  <2>2. DOMAIN c = DOMAIN x
    BY DEF Check
  <2>3. DOMAIN e1 = DOMAIN x /\ e1.events = c.events /\ e1.ok = c.ok
    <3> HIDE DEF c
    <3> QED BY <1>7, <2>2 DEF Reads
  <2>4. DOMAIN e2 = DOMAIN x /\ e2.events = x.events /\ e2.ok = x.ok
    BY <1>7 DEF Reads
  <2> HIDE DEF e1, e2
  <2>5. Grows(x, e1)
    BY <1>3, <1>7, <2>3, Zenon
  <2>6. Grows(x, e2) /\ Grows(x, x)
    BY <1>7, <2>4, BasicGrows
  <2> QED BY <2>1, <2>5, <2>6
<1>8. ASSUME NEW c
      PROVE  Grows(d, ReadOpening(d, c))
  <2> DEFINE k == Check(Tell(d, Begun(c)), Ready(d))
             e == [k EXCEPT !.open = Append(@, c), !.at = FirstIn(c)]
  <2>1. ReadOpening(d, c) = e
    BY DEF ReadOpening
  <2>2. DOMAIN k = DOMAIN d
    BY DEF Check, Tell
  <2>3. DOMAIN e = DOMAIN d /\ e.events = k.events /\ e.ok = k.ok
    <3> HIDE DEF k
    <3> QED BY <2>2 DEF Reads
  <2> HIDE DEF e
  <2>4. Grows(d, e)
    BY <1>2, <2>3, Zenon
  <2> QED BY <2>1, <2>4
<1>9. ASSUME NEW x, Reads(x), NEW c
      PROVE  Grows(x, ReadClosing(x, c))
  <2> DEFINE t == Tell(x, Ended(c))
             e == [t EXCEPT !.open = Pop(@), !.at = "after"]
  <2>1. ReadClosing(x, c) = Wrong(x) \/ ReadClosing(x, c) = e
    BY DEF ReadClosing
  <2>2. Grows(x, t)
    BY <1>9, BasicGrows
  <2> HIDE DEF t
  <2>3. DOMAIN e = DOMAIN t /\ e.events = t.events /\ e.ok = t.ok
    BY <2>2 DEF Grows, Reads
  <2> HIDE DEF e
  <2>4. Grows(x, e)
    BY <1>9, <2>2, <2>3, BasicGrows, GrowsOn DEF Grows
  <2> QED BY <1>9, <2>1, <2>4, BasicGrows
<1>10. \/ Step(d, a) \in {ReadPart(d, a), ReadColon(d), ReadDoubleColon(d), Wrong(d), ReadOpening(d, a.c)}
       \/ Step(d, a) \in {ReadComma(Decided(d)), ReadSpace(Decided(d)), ReadClosing(Decided(d), a.c)}
  BY DEF Step
<1>11. Grows(d, Step(d, a))
  <2> DEFINE x == Decided(d)
  <2>1. Grows(d, x) /\ Reads(x)
    BY <1>1 DEF Grows
  <2> HIDE DEF x
  <2>2. Grows(d, ReadComma(x)) /\ Grows(d, ReadSpace(x)) /\ Grows(d, ReadClosing(x, a.c))
    BY <1>7, <1>9, <2>1, GrowsOn
  <2> QED BY <1>5, <1>6, <1>8, <1>10, <2>2, BasicGrows DEF x
<1>12. StepNext(d, a) = d \/ StepNext(d, a) = Wrong(d) \/ StepNext(d, a) = Step(d, a)
  BY DEF StepNext
<1> QED BY <1>11, <1>12, BasicGrows

LEMMA ReadOnGrows ==
  ASSUME NEW d, Reads(d), NEW atoms, IsStack(atoms)
  PROVE  Grows(d, ReadOn(d, atoms))
<1>1. PICK n \in Nat : n = Len(atoms)
  BY StackLen
<1>2. PICK f : Walks(f, d, atoms, n) /\ ReadOn(d, atoms) = f[n]
  BY <1>1, ReadOnWalks
<1> DEFINE S == {k \in 0 .. n : Grows(d, f[k])}
<1>3. 0 \in S
  <2>1. f[0] = d /\ 0 \in 0 .. n
    BY <1>2 DEF Walks
  <2>2. Grows(d, d)
    BY BasicGrows
  <2> QED BY <2>1, <2>2
<1>4. ASSUME NEW k \in 1 .. n, k - 1 \in S
      PROVE  k \in S
  <2>1. f[k] = StepNext(f[k - 1], atoms[k])
    BY <1>2 DEF Walks
  <2>2. Grows(d, f[k - 1])
    BY <1>4
  <2>3. Grows(f[k - 1], f[k])
    BY <2>1, <2>2, StepGrows DEF Grows
  <2> QED BY <2>2, <2>3, GrowsOn
<1> HIDE DEF S
<1>5. n \in S
  BY <1>3, <1>4, Induction
<1> QED BY <1>2, <1>5 DEF S

\* What can be read has no torn atom.
LEMMA ReadableWhole ==
  ASSUME NEW out, IsStack(out), Read(out).ok
  PROVE  /\ \A i \in 1 .. Len(out) : out[i].k # "torn"
         /\ Reads(Read(out))
<1>1. PICK n \in Nat : n = Len(out)
  BY StackLen
<1>2. PICK f : Walks(f, Start, out, n) /\ Read(out) = f[n]
  BY <1>1, ReadOnWalks, ReadIsReadOn
<1> DEFINE S == {k \in 0 .. n : Reads(f[k]) /\ (f[k].ok => \A i \in 1 .. k : out[i].k # "torn")}
<1>3. 0 \in S
  <2>1. f[0] = Start
    BY <1>2 DEF Walks
  <2>2. Reads(Start)
    BY Tuples DEF Reads, Start
  <2> QED BY <2>1, <2>2
<1>4. ASSUME NEW k \in 1 .. n, k - 1 \in S
      PROVE  k \in S
  <2>1. f[k] = StepNext(f[k - 1], out[k])
    BY <1>2 DEF Walks
  <2>2. Reads(f[k - 1]) /\ (f[k - 1].ok => \A i \in 1 .. k - 1 : out[i].k # "torn")
    BY <1>4
  <2>3. Reads(f[k]) /\ (f[k].ok => f[k - 1].ok)
    BY <2>1, <2>2, StepGrows DEF Grows
  <2>4. f[k].ok => out[k].k # "torn"
    <3> SUFFICES ASSUME out[k].k = "torn", f[k - 1].ok
                 PROVE  ~f[k].ok
      BY <2>3
    <3>1. f[k] = Wrong(f[k - 1])
      BY <2>1 DEF StepNext, Step
    <3> QED BY <2>2, <3>1 DEF Wrong, Reads
  <2>5. ASSUME f[k].ok, NEW i \in 1 .. k
        PROVE  out[i].k # "torn"
    <3>1. i = k \/ i \in 1 .. k - 1
      OBVIOUS
    <3> QED BY <2>2, <2>3, <2>4, <2>5, <3>1
  <2> QED BY <2>3, <2>5
<1> HIDE DEF S
<1>5. n \in S
  BY <1>3, <1>4, Induction
<1> QED BY <1>1, <1>2, <1>5 DEF S

LEMMA WholeOf ==
  ASSUME NEW out, IsStack(out), \A i \in 1 .. Len(out) : out[i].k # "torn"
  PROVE  Whole(out) = out /\ Whole(Append(out, Torn)) = out
<1>1. PICK n \in Nat : n = Len(out)
  BY StackLen
<1>2. Whole(out) = out
  BY DEF Whole
<1> DEFINE c == Append(out, Torn)
           torn == {i \in 1 .. Len(c) : c[i].k = "torn"}
<1>3. IsStack(c) /\ Len(c) = n + 1 /\ (\A i \in 1 .. n : c[i] = out[i]) /\ c[n + 1] = Torn
  BY <1>1, StackPushed
<1> HIDE DEF c
<1>4. torn = {n + 1}
  <2>1. Torn.k = "torn"
    BY DEF Torn
  <2>2. \A i \in 1 .. n + 1 : i \in 1 .. n \/ i = n + 1
    OBVIOUS
  <2> QED BY <1>1, <1>3, <2>1, <2>2
<1> HIDE DEF torn
<1>5. MinOf(torn) = n + 1
  BY <1>4, LeastNat
<1>6. Whole(c) = SubSeq(c, 1, n)
  <2>1. Whole(c) = IF torn = {} THEN c ELSE SubSeq(c, 1, MinOf(torn) - 1)
    BY DEF Whole, torn
  <2> QED BY <1>4, <1>5, <2>1
<1>7. SubSeq(c, 1, n) = out
  <2>1. PICK S : out \in Seq(S)
    BY DEF IsStack
  <2>2. \A i \in 1 .. n : c[i] \in S
    BY <1>1, <1>3, <2>1, ElementOfSeq
  <2>3. /\ SubSeq(c, 1, n) \in Seq(S) /\ Len(SubSeq(c, 1, n)) = n
        /\ \A i \in 1 .. n : SubSeq(c, 1, n)[i] = c[i]
    BY <2>2, StackPrefix
  <2> QED BY <1>1, <1>3, <2>1, <2>3, SeqEqual
<1> QED BY <1>2, <1>6, <1>7 DEF c

\* What is whole of the output reads as the beginning of F.
Told(out, F) ==
  LET d == Read(Whole(out)) IN d.ok /\ IsStack(d.events) /\ Leads(d.events, F)

LEMMA ToldMore ==
  ASSUME NEW out, NEW F, NEW G, Told(out, F), Leads(F, G)
  PROVE  Told(out, G)
BY LeadsOn DEF Told

LEMMA ToldWhole ==
  ASSUME NEW out, IsStack(out), Read(out).ok, NEW F, Leads(Read(out).events, F)
  PROVE  Told(out, F)
<1>1. Whole(out) = out /\ IsStack(Read(out).events)
  BY ReadableWhole, WholeOf DEF Reads
<1> QED BY <1>1 DEF Told

\* However far a Write call came, if all of its atoms could be read.
LEMMA EmitTold ==
  ASSUME NEW v, Loose(v), v.err = "nil", NEW atoms, IsStack(atoms),
         NEW u, u = EmitTo(v, atoms), NEW d, d = ReadOn(Read(v.out), atoms), d.ok,
         NEW F, Leads(d.events, F)
  PROVE  Told(u.out, F)
<1> DEFINE failing == {i \in 1 .. Len(atoms) : v.writes + i \in v.fault[1] .. v.fault[2]}
           first == MinOf(failing)
           p     == SubSeq(atoms, 1, first - 1)
<1>1. IsStack(v.out) /\ IsStack(v.out \o atoms)
  BY StackConcat DEF Loose
<1>2. d = Read(v.out \o atoms)
  BY <1>1, ReadIsReadOn, ReadOnConcat DEF Loose
<1>3. CASE failing = {}
  <2>1. u = [v EXCEPT !.out = @ \o atoms, !.writes = @ + Len(atoms), !.ret = "nil"]
    BY <1>3 DEF EmitTo
  <2>2. u.out = v.out \o atoms
    BY <2>1 DEF Loose, Fields
  <2> QED BY <1>1, <1>2, <2>2, ToldWhole
<1>4. CASE failing # {}
  <2>1. u = [v EXCEPT !.out = @ \o Append(p, Torn), !.writes = @ + first, !.ret = "io"]
    BY <1>4 DEF EmitTo
  <2>2. u.out = v.out \o Append(p, Torn)
    <3> HIDE DEF p, first
    <3> QED BY <2>1 DEF Loose, Fields
  <2>3. first \in 1 .. Len(atoms)
    <3>1. failing \subseteq Nat
      BY StackLen
    <3>2. first \in failing
      <4> HIDE DEF failing
      <4> QED BY <1>4, <3>1, LeastNat
    <3> QED BY <3>2
  <2> HIDE DEF failing, first
  <2>4. first - 1 \in Nat /\ first - 1 <= Len(atoms)
    BY <2>3, StackLen
  <2>5. IsStack(p) /\ Leads(p, atoms)
    BY <2>4, PrefixLeads
  <2> HIDE DEF p
  <2>6. PICK r : IsStack(r) /\ atoms = p \o r
    BY <2>5 DEF Leads
  <2> DEFINE out == v.out
  <2>7. out \o Append(p, Torn) = Append(out \o p, Torn) /\ IsStack(out \o p)
    <3>1. IsStack(out) /\ IsStack(p)
      BY <1>1, <2>5
    <3> HIDE DEF out
    <3> QED BY <3>1, AppendLast, StackConcat
  <2>8. (out \o p) \o r = out \o (p \o r)
    <3>1. IsStack(out) /\ IsStack(p) /\ IsStack(r)
      BY <1>1, <2>5, <2>6
    <3> HIDE DEF out
    <3> QED BY <3>1, ConcatTwice
  <2> DEFINE e == Read(v.out \o p)
  <2>9. d = ReadOn(e, r)
    <3>1. Read(out \o (p \o r)) = d
      BY <1>2, <2>6, Zenon
    <3>2. ReadOn(Start, (out \o p) \o r) = ReadOn(ReadOn(Start, out \o p), r)
      BY <2>6, <2>7, ReadOnConcat
    <3> QED BY <2>8, <3>1, <3>2, ReadIsReadOn, Zenon
  <2>10. Reads(e)
    <3>1. Reads(Start)
      BY Tuples DEF Reads, Start
    <3> QED BY <2>7, <3>1, ReadIsReadOn, ReadOnGrows DEF Grows
  <2>11. e.ok /\ Leads(e.events, d.events) /\ IsStack(e.events)
    <3> HIDE DEF e
    <3> QED BY <2>6, <2>9, <2>10, ReadOnGrows DEF Grows, Reads
  <2>12. Whole(u.out) = v.out \o p
    BY <2>2, <2>7, <2>11, ReadableWhole, WholeOf
  <2>13. Leads(e.events, F)
    <3> HIDE DEF e
    <3> QED BY <2>11, LeadsOn
  <2> QED BY <2>11, <2>12, <2>13 DEF Told
<1> QED BY <1>3, <1>4
-----------------------------------------------------------------------------
(***************************************************************************)
(* How far the parts of a method came.                                     *)
(***************************************************************************)
LEMMA ReaderTells ==
  ASSUME NEW E, NEW open, NEW at, NEW name
  PROVE  Reader(E, open, at, name).ok /\ Reader(E, open, at, name).events = E
BY DEF Reader

LEMMA ReadingTold ==
  ASSUME NEW v, IsStack(v.out), NEW E, IsStack(E), Reading(v, E)
  PROVE  Told(v.out, E)
<1> DEFINE d == Read(v.out)
<1>1. Stands(d, E, v.ctx, Place(v))
  BY DEF Reading, ReadsAs
<1>2. d.ok /\ Decided(d) = Reader(E, v.ctx, Place(v), Nothing)
  BY <1>1 DEF Stands
<1>3. Reads(d)
  BY <1>2, ReadableWhole
<1> HIDE DEF d
<1>4. Leads(d.events, Decided(d).events)
  BY <1>3, DecidedGrows DEF Grows
<1>5. Leads(d.events, E)
  BY <1>2, <1>4, ReaderTells
<1> QED BY <1>2, <1>5, ToldWhole DEF d

LEMMA EmitAlike ==
  ASSUME NEW v, Loose(v), NEW atoms
  PROVE  Alike(EmitTo(v, atoms), v)
<1> DEFINE u == EmitTo(v, atoms)
<1>1. PICK out, writes, ret : u = [v EXCEPT !.out = out, !.writes = writes, !.ret = ret]
  BY DEF EmitTo
<1> HIDE DEF u
<1>2. Alike(u, v)
  BY <1>1 DEF Alike, Loose, Fields
<1> QED BY <1>2 DEF u

\* What became of a Write call of atoms that read as r.
LEMMA EmitReads ==
  ASSUME NEW v, Loose(v), v.err = "nil", NEW atoms, IsStack(atoms), NEW u, u = EmitTo(v, atoms),
         NEW E, IsStack(E), NEW open, NEW at,
         ReadOn(Read(v.out), atoms) = Reader(E, open, at, Nothing)
  PROVE  /\ Told(u.out, E) /\ Alike(u, v) /\ Loose(u)
         /\ u.ret = "nil" => Read(u.out) = Reader(E, open, at, Nothing)
<1>1. Alike(u, v) /\ Loose(u)
  BY EmitAlike, EmitLoose
<1>2. u.ret = "nil" => Read(u.out) = Reader(E, open, at, Nothing)
  BY EmitRead
<1>3. Told(u.out, E)
  <2> DEFINE d == Reader(E, open, at, Nothing)
  <2>1. d.ok /\ Leads(d.events, E)
    BY ReaderTells, LeadsItself
  <2>2. d = ReadOn(Read(v.out), atoms)
    OBVIOUS
  <2> HIDE DEF d
  <2> QED BY <2>1, <2>2, EmitTold
<1> QED BY <1>1, <1>2, <1>3

LEMMA LayNextRead ==
  ASSUME NEW v, Fit(v), v.err = "nil", v.ret = "nil", NEW E, IsStack(E), Reading(v, E),
         NEW u, u = LayNext(v)
  PROVE  /\ Told(u.out, E) /\ Alike(u, v) /\ Loose(u)
         /\ u.ret = "nil" => Read(u.out) = Reader(E, v.ctx, FirstIn(Inner(v.ctx)), Nothing)
<1>1. u = EmitTo(v, Layout(v))
  BY DEF LayNext
<1>2. Loose(v) /\ v.ctx \in Seq(Contexts) /\ v.indent \in Nat
  BY LenProperties DEF Fit, Loose
<1>3. IsStack(Layout(v))
  BY <1>2, LayoutList
<1>4. ReadOn(Read(v.out), Layout(v)) = Reader(E, v.ctx, FirstIn(Inner(v.ctx)), Nothing)
  BY <1>2, LayoutRead DEF Reading, Fit
<1> QED BY <1>1, <1>2, <1>3, <1>4, EmitReads

\* E, and the name of a field behind it.
WithName(v, name, E) == E \o (IF InStruct(v) THEN <<NamedBy(name)>> ELSE << >>)

LEMMA NameNextRead ==
  ASSUME NEW v, Loose(v), v.err = "nil", v.ret = "nil", v.fieldName = NoName,
         NEW E, IsStack(E), Read(v.out) = Reader(E, v.ctx, FirstIn(Inner(v.ctx)), Nothing),
         NEW name, name = NoName \/ Known(name), NEW u, u = NameNext(v, name),
         NEW E2, E2 = WithName(v, name, E)
  PROVE  /\ Told(u.out, E2) /\ Alike(u, v) /\ Loose(u)
         /\ u.ret = "nil" =>
              \E at \in {"value", "must"} : Read(u.out) = Reader(E2, v.ctx, at, Nothing)
<1>1. Told(v.out, E)
  BY ReaderTells, LeadsItself, ToldWhole DEF Loose
<1>2. CASE ~InStruct(v)
  <2>1. u = v /\ E2 = E
    BY <1>2, ConcatNothing DEF NameNext, WithName
  <2>2. FirstIn(Inner(v.ctx)) = "value"
    BY <1>2 DEF InStruct, Inner, FirstIn
  <2> QED BY <1>1, <2>1, <2>2 DEF Alike
<1>3. CASE InStruct(v)
  <2> DEFINE x == [v EXCEPT !.fieldName = name]
             y == [x EXCEPT !.fieldName = NoName]
             atoms == Append(Parts(SymbolLexeme(name)), Colon)
  <2>1. u = WriteFieldName(x)
    BY <1>3 DEF NameNext
  <2>2. x.fieldName = name
    BY DEF Loose, Fields
  <2>3. Alike(y, v) /\ y.out = v.out /\ Loose(y) /\ y.err = "nil"
    BY DEF Alike, Loose, Fields
  <2>4. u = IF name = NoName \/ ~Valid(name) THEN Return(y, "usage") ELSE EmitTo(y, atoms)
    BY <2>1, <2>2 DEF WriteFieldName
  <2> HIDE DEF x, y
  <2>5. E2 = Append(E, NamedBy(name)) /\ IsStack(E2) /\ Leads(E, E2)
    <3>1. E2 = Append(E, NamedBy(name))
      BY <1>3, AppendOne DEF WithName
    <3>2. \A e : IsStack(Append(E, e)) /\ Leads(E, Append(E, e))
      BY StackPushed, LeadsItself
    <3> QED BY <3>1, <3>2, Zenon
  <2>6. CASE name = NoName \/ ~Valid(name)
    <3>1. u = Return(y, "usage")
      BY <2>4, <2>6
    <3>2. u.ret = "usage" /\ u.out = v.out /\ Alike(u, v) /\ Loose(u)
      BY <2>3, <3>1 DEF Return, Loose, Fields, Errs, Alike
    <3> QED BY <1>1, <2>5, <3>2, ToldMore
  <2>7. CASE ~(name = NoName \/ ~Valid(name))
    <3>1. u = EmitTo(y, atoms) /\ Known(name) /\ Valid(name)
      BY <2>4, <2>7
    <3>2. IsStack(atoms)
      BY NamePartsList
    <3>3. FirstIn(Inner(v.ctx)) = "field"
      BY <1>3 DEF InStruct, Inner, FirstIn
    <3>4. ReadOn(Read(y.out), atoms) = Reader(E2, v.ctx, "must", Nothing)
      BY <2>3, <2>5, <3>1, <3>3, FieldRead DEF NamedBy
    <3> HIDE DEF atoms
    <3>5. /\ Told(u.out, E2) /\ Alike(u, y) /\ Loose(u)
          /\ u.ret = "nil" => Read(u.out) = Reader(E2, v.ctx, "must", Nothing)
      BY <2>3, <2>5, <3>1, <3>2, <3>4, EmitReads
    <3>6. Alike(u, v)
      BY <2>3, <3>5 DEF Alike
    <3> QED BY <3>5, <3>6
  <2> QED BY <2>6, <2>7
<1> QED BY <1>2, <1>3

\* The marks in front of one that is not valid.
LEMMA MarksInFront ==
  ASSUME NEW marks, KnownMarks(marks), NEW n \in Nat, n <= Len(marks)
  PROVE  LET some == SubSeq(marks, 1, n)
         IN  /\ KnownMarks(some) /\ Len(some) = n /\ \A i \in 1 .. n : some[i] = marks[i]
             /\ IsStack(AllMarks(some)) /\ Leads(AllMarks(some), AllMarks(marks))
<1> DEFINE some == SubSeq(marks, 1, n)
<1>1. PICK m \in Nat : m = Len(marks)
  BY StackLen DEF KnownMarks
<1>2. IsStack(some) /\ Len(some) = n /\ \A i \in 1 .. n : some[i] = marks[i]
  <2>1. \A i \in 1 .. n : marks[i] \in {marks[j] : j \in 1 .. m}
    BY <1>1
  <2>2. /\ some \in Seq({marks[j] : j \in 1 .. m}) /\ Len(some) = n
        /\ \A i \in 1 .. n : some[i] = marks[i]
    BY <2>1, StackPrefix
  <2>3. IsStack(some)
    BY <2>2, Zenon DEF IsStack
  <2> QED BY <2>2, <2>3
<1> HIDE DEF some
<1>3. KnownMarks(some)
  BY <1>1, <1>2 DEF KnownMarks
<1> DEFINE a == AllMarks(marks)
           b == AllMarks(some)
<1>4. /\ Len(a) = m /\ (\A i \in 1 .. m : a[i] = MarkedBy(marks[i])) /\ a = [i \in 1 .. m |-> a[i]]
      /\ Len(b) = n /\ (\A i \in 1 .. n : b[i] = MarkedBy(some[i])) /\ b = [i \in 1 .. n |-> b[i]]
  BY <1>1, <1>2 DEF AllMarks
<1> HIDE DEF a, b
<1>5. IsStack(a)
  BY <1>4, FunctionList
<1>6. b = SubSeq(a, 1, n)
  <2> DEFINE c == SubSeq(a, 1, n)
             S == {a[i] : i \in 1 .. n}
  <2>1. c \in Seq(S) /\ Len(c) = n /\ \A i \in 1 .. n : c[i] = a[i]
    BY StackPrefix
  <2>2. \A i \in 1 .. n : b[i] = a[i]
    BY <1>1, <1>2, <1>4
  <2>3. b \in Seq(S)
    <3>1. \A i \in 1 .. n : b[i] \in S
      BY <2>2
    <3> HIDE DEF S
    <3> QED BY <1>4, <3>1
  <2> HIDE DEF c, S
  <2>4. b = c
    BY <1>4, <2>1, <2>2, <2>3, SeqEqual
  <2> QED BY <2>4 DEF c
<1>7. IsStack(b) /\ Leads(b, a)
  <2>1. n <= Len(a)
    BY <1>1, <1>4
  <2>2. IsStack(SubSeq(a, 1, n)) /\ Leads(SubSeq(a, 1, n), a)
    BY <1>5, <2>1, PrefixLeads
  <2> QED BY <1>6, <2>2, Zenon
<1> QED BY <1>2, <1>3, <1>7 DEF some, a, b

LEMMA MarkNextRead ==
  ASSUME NEW v, Loose(v), v.err = "nil", v.ret = "nil",
         NEW E, IsStack(E), NEW at \in {"value", "must"}, Read(v.out) = Reader(E, v.ctx, at, Nothing),
         NEW marks, KnownMarks(marks), NEW u, u = MarkNext(v, marks)
  PROVE  /\ Told(u.out, E \o AllMarks(marks)) /\ Alike(u, v) /\ Loose(u)
         /\ u.ret = "nil" =>
              \E x \in {"value", "must"} :
                Read(u.out) = Reader(E \o AllMarks(marks), v.ctx, x, Nothing)
<1> DEFINE invalid == {i \in 1 .. Len(marks) : ~Valid(marks[i])}
           n       == IF invalid = {} THEN Len(marks) ELSE MinOf(invalid) - 1
           atoms   == Lists!FlattenSeq([i \in 1 .. n |->
                                          Append(Parts(SymbolLexeme(marks[i])), DoubleColon)])
           v1      == EmitTo(v, atoms)
           some    == SubSeq(marks, 1, n)
<1>1. u = IF v1.ret = "nil" /\ invalid # {} THEN Return(v1, "usage") ELSE v1
  BY DEF MarkNext, WriteAnnotations
<1>2. n \in Nat /\ n <= Len(marks) /\ (\A i \in 1 .. n : Valid(marks[i]))
      /\ (invalid = {} => n = Len(marks))
  <2>1. PICK m \in Nat : m = Len(marks)
    BY StackLen DEF KnownMarks
  <2>2. CASE invalid = {}
    BY <2>1, <2>2
  <2>3. CASE invalid # {}
    <3>1. invalid \subseteq Nat
      BY <2>1
    <3>2. MinOf(invalid) \in invalid
      <4> HIDE DEF invalid
      <4> QED BY <2>3, <3>1, LeastNat
    <3>3. \A j \in invalid : MinOf(invalid) <= j
      <4> HIDE DEF invalid
      <4>1. PICK x \in invalid : \A y \in invalid : ~(y < x)
        BY <2>3, <3>1, Least
      <4>2. x \in invalid /\ \A y \in invalid : x <= y
        BY <3>1, <4>1
      <4> QED BY <4>2 DEF MinOf
    <3> DEFINE k == MinOf(invalid)
    <3>4. k \in 1 .. m /\ n = k - 1
      BY <2>1, <2>3, <3>2
    <3>5. \A i \in 1 .. k - 1 : i \notin invalid
      <4> HIDE DEF invalid
      <4>1. k \in Int
        BY <3>4
      <4>2. \A j \in invalid : k <= j
        BY <3>3
      <4> HIDE DEF k
      <4> QED BY <4>1, <4>2
    <3> HIDE DEF n, k
    <3> QED BY <2>1, <2>3, <3>4, <3>5
  <2> QED BY <2>2, <2>3
<1> HIDE DEF n, invalid
<1>3. /\ KnownMarks(some) /\ Len(some) = n /\ \A i \in 1 .. n : some[i] = marks[i]
      /\ IsStack(AllMarks(some)) /\ Leads(AllMarks(some), AllMarks(marks))
  BY <1>2, MarksInFront
<1> HIDE DEF some
<1>4. IsStack(atoms)
  BY <1>2, AnnotationPartsList
<1>5. PICK x \in {"value", "must"} :
        ReadOn(Read(v.out), atoms) = Reader(E \o AllMarks(some), v.ctx, x, Nothing)
  <2>1. \A i \in 1 .. Len(some) : Valid(some[i])
    BY <1>2, <1>3
  <2>2. atoms = MarkAtoms(some, Len(some))
    <3>1. [i \in 1 .. n |-> Append(Parts(SymbolLexeme(marks[i])), DoubleColon)]
            = [i \in 1 .. Len(some) |-> Append(Parts(SymbolLexeme(some[i])), DoubleColon)]
      BY <1>3
    <3> QED BY <3>1, Zenon DEF MarkAtoms
  <2> HIDE DEF atoms
  <2>3. \E x \in {"value", "must"} :
          ReadOn(Reader(E, v.ctx, at, Nothing), MarkAtoms(some, Len(some)))
            = Reader(E \o AllMarks(some), v.ctx, x, Nothing)
    BY <1>3, <2>1, MarksRead
  <2> QED BY <2>2, <2>3
<1> HIDE DEF atoms
<1> DEFINE E1 == E \o AllMarks(some)
<1>6. IsStack(E1) /\ Leads(E1, E \o AllMarks(marks))
  <2>1. PICK r : IsStack(r) /\ AllMarks(marks) = AllMarks(some) \o r
    BY <1>3 DEF Leads
  <2>2. (E \o AllMarks(some)) \o r = E \o (AllMarks(some) \o r)
    <3>1. Assoc(E, AllMarks(some), r)
      BY <1>3, <2>1, Associates, Zenon
    <3> QED BY <3>1, Zenon DEF Assoc
  <2>3. E \o AllMarks(marks) = E1 \o r
    BY <2>1, <2>2, Zenon
  <2>4. Leads(E1, E \o AllMarks(marks))
    BY <2>1, <2>3, Zenon DEF Leads
  <2> QED BY <1>3, <2>4, StackConcat
<1>7. /\ Told(v1.out, E1) /\ Alike(v1, v) /\ Loose(v1)
      /\ v1.ret = "nil" => Read(v1.out) = Reader(E1, v.ctx, x, Nothing)
  <2> HIDE DEF E1
  <2> QED BY <1>4, <1>5, <1>6, EmitReads DEF E1
<1> HIDE DEF v1
<1>8. CASE v1.ret = "nil" /\ invalid # {}
  <2>1. u = Return(v1, "usage")
    BY <1>1, <1>8
  <2>2. u.ret = "usage" /\ u.out = v1.out /\ Alike(u, v) /\ Loose(u)
    BY <1>7, <2>1 DEF Return, Loose, Fields, Errs, Alike
  <2> QED BY <1>6, <1>7, <2>2, ToldMore
<1>9. CASE ~(v1.ret = "nil" /\ invalid # {})
  <2>1. u = v1 /\ (u.ret = "nil" => invalid = {})
    BY <1>1, <1>9
  <2>2. invalid = {} => AllMarks(some) = AllMarks(marks)
    BY <1>2, <1>3 DEF AllMarks
  <2>3. u.ret = "nil" => Read(u.out) = Reader(E \o AllMarks(marks), v.ctx, x, Nothing)
    BY <1>7, <2>1, <2>2
  <2>4. Told(u.out, E \o AllMarks(marks))
    BY <1>6, <1>7, <2>1, ToldMore
  <2> QED BY <1>7, <2>1, <2>3, <2>4
<1> QED BY <1>8, <1>9

LEMMA InFrontLists ==
  ASSUME NEW v, NEW E, IsStack(E), NEW name, NEW marks, KnownMarks(marks),
         NEW E2, E2 = WithName(v, name, E)
  PROVE  /\ IsStack(E2) /\ Leads(E, E2) /\ Leads(E2, E \o InFront(v, name, marks))
         /\ E2 \o AllMarks(marks) = E \o InFront(v, name, marks)
         /\ IsStack(InFront(v, name, marks)) /\ IsStack(E \o InFront(v, name, marks))
<1> DEFINE front == IF InStruct(v) THEN <<NamedBy(name)>> ELSE << >>
<1>1. IsStack(front)
  BY Tuples
<1>2. IsStack(AllMarks(marks))
  BY StackLen, FunctionList DEF AllMarks, KnownMarks
<1>3. E2 = E \o front /\ InFront(v, name, marks) = front \o AllMarks(marks)
  BY DEF InFront, WithName
<1> HIDE DEF front
<1>4. (E \o front) \o AllMarks(marks) = E \o (front \o AllMarks(marks))
  BY <1>1, <1>2, ConcatTwice
<1>5. IsStack(E \o front) /\ IsStack(front \o AllMarks(marks)) /\ IsStack(E \o (front \o AllMarks(marks)))
  BY <1>1, <1>2, StackConcat
<1>6. E2 \o AllMarks(marks) = E \o InFront(v, name, marks)
  BY <1>3, <1>4, Zenon
<1>7. Leads(E, E2)
  BY <1>1, <1>3, Zenon DEF Leads
<1>8. Leads(E2, E \o InFront(v, name, marks))
  BY <1>2, <1>6, Zenon DEF Leads
<1>9. IsStack(E2) /\ IsStack(InFront(v, name, marks)) /\ IsStack(E \o InFront(v, name, marks))
  BY <1>3, <1>5, Zenon
<1> QED BY <1>6, <1>7, <1>8, <1>9

\* However far beginValue comes, the output leads what it was to write.
LEMMA BeginRestTold ==
  ASSUME NEW v, Fit(v), v.err = "nil", v.fieldName = NoName, NEW E, IsStack(E), Reading(v, E),
         NEW name, name = NoName \/ Known(name), NEW marks, KnownMarks(marks),
         NEW u, u = BeginRest(v, name, marks)
  PROVE  Told(u.out, E \o InFront(v, name, marks)) /\ Alike(u, v) /\ Loose(u)
<1> DEFINE F  == E \o InFront(v, name, marks)
           E2 == WithName(v, name, E)
           v1 == LayNext(v)
           v2 == NameNext(v1, name)
<1>1. u = MarkNext(v2, marks)
  BY DEF BeginRest
<1>2. IsStack(E2) /\ Leads(E, E2) /\ Leads(E2, F) /\ E2 \o AllMarks(marks) = F
  BY InFrontLists, Zenon
<1>3. Leads(E, F)
  <2> HIDE DEF F, E2
  <2> QED BY <1>2, LeadsOn
<1> HIDE DEF F
<1>4. CASE v.ret # "nil"
  <2>1. u = v
    BY <1>1, <1>4 DEF LayNext, NameNext, MarkNext
  <2>2. Told(u.out, E)
    BY <2>1, ReadingTold DEF Fit, Loose
  <2> QED BY <1>3, <2>1, <2>2, ToldMore DEF F, Alike, Fit
<1>5. CASE v.ret = "nil"
  <2>1. /\ Told(v1.out, E) /\ Alike(v1, v) /\ Loose(v1)
        /\ v1.ret = "nil" => Read(v1.out) = Reader(E, v.ctx, FirstIn(Inner(v.ctx)), Nothing)
    BY <1>5, LayNextRead
  <2> HIDE DEF v1
  <2>2. CASE v1.ret # "nil"
    <3>1. u = v1
      BY <1>1, <2>2 DEF NameNext, MarkNext
    <3> QED BY <1>3, <2>1, <3>1, ToldMore DEF F
  <2>3. CASE v1.ret = "nil"
    <3>1. v1.err = "nil" /\ v1.ctx = v.ctx /\ v1.fieldName = NoName /\ InStruct(v1) = InStruct(v)
      BY <2>1 DEF Alike, InStruct
    <3>2. /\ Told(v2.out, E2) /\ Alike(v2, v1) /\ Loose(v2)
          /\ v2.ret = "nil" =>
               \E at \in {"value", "must"} : Read(v2.out) = Reader(E2, v.ctx, at, Nothing)
      <4>1. E2 = WithName(v1, name, E)
        BY <3>1 DEF WithName
      <4>2. Read(v1.out) = Reader(E, v1.ctx, FirstIn(Inner(v1.ctx)), Nothing)
        BY <2>1, <2>3, <3>1
      <4> HIDE DEF v2, E2
      <4>3. v2 = NameNext(v1, name)
        BY DEF v2
      <4>4. /\ Told(v2.out, E2) /\ Alike(v2, v1) /\ Loose(v2)
            /\ v2.ret = "nil" =>
                 \E at \in {"value", "must"} : Read(v2.out) = Reader(E2, v1.ctx, at, Nothing)
        BY <2>1, <2>3, <3>1, <4>1, <4>2, <4>3, NameNextRead
      <4> QED BY <3>1, <4>4
    <3> HIDE DEF v2, E2
    <3>3. Alike(v2, v)
      BY <2>1, <3>2 DEF Alike
    <3>4. CASE v2.ret # "nil"
      <4>1. u = v2
        BY <1>1, <3>4 DEF MarkNext
      <4> QED BY <1>2, <3>2, <3>3, <4>1, ToldMore DEF F
    <3>5. CASE v2.ret = "nil"
      <4>1. v2.err = "nil" /\ v2.ctx = v.ctx
        BY <3>3 DEF Alike
      <4>2. Told(u.out, E2 \o AllMarks(marks)) /\ Alike(u, v2) /\ Loose(u)
        BY <1>1, <1>2, <3>2, <3>5, <4>1, MarkNextRead
      <4>3. Alike(u, v)
        BY <3>3, <4>2 DEF Alike
      <4> QED BY <1>2, <4>2, <4>3 DEF F
    <3> QED BY <3>4, <3>5
  <2> QED BY <2>2, <2>3
<1> QED BY <1>4, <1>5

LEMMA StandsTells ==
  ASSUME NEW d, Reads(d), NEW E, NEW open, NEW at, Stands(d, E, open, at)
  PROVE  d.ok /\ Leads(d.events, E)
<1>1. d.ok /\ Decided(d) = Reader(E, open, at, Nothing)
  BY DEF Stands
<1>2. Leads(d.events, Decided(d).events)
  BY DecidedGrows DEF Grows
<1> QED BY <1>1, <1>2, ReaderTells

\* What is in front of a value was to be written: E or, if that failed, a beginning of it.
Attempted(v, E) ==
  /\ Fit(v) /\ IsStack(E) /\ Told(v.out, E)
  /\ v.ret = "nil" => \E at : Fronted(v, E, at)

LEMMA StoreKeeps ==
  ASSUME NEW v, Fit(v)
  PROVE  Store(v).out = v.out /\ SameTable(Store(v), v)
BY DEF Store, Fit, Loose, Fields, SameTable

LEMMA PutLexemeTold ==
  ASSUME NEW v, NEW E, Attempted(v, E), NEW l, l.calls \in Nat, NEW u, u = PutLexeme(v, l),
         NEW F, Leads(E, F),
         \A at \in {"value", "must"} :
           Stands(ReadOn(Reader(E, v.ctx, at, Nothing), Parts(l)), F, v.ctx, "after")
  PROVE  Told(u.out, F) /\ SameTable(u, v)
<1>1. Fit(v) /\ Told(v.out, F)
  BY ToldMore DEF Attempted
<1>2. CASE v.ret # "nil"
  <2>1. u = Store(v)
    BY <1>2 DEF PutLexeme
  <2> QED BY <1>1, <2>1, StoreKeeps
<1>3. CASE v.ret = "nil"
  <2> DEFINE v1 == EmitTo(v, Parts(l))
             d  == ReadOn(Read(v.out), Parts(l))
  <2>1. PICK at : Fronted(v, E, at)
    BY <1>3 DEF Attempted
  <2>2. /\ Loose(v) /\ v.err = "nil" /\ at \in {"value", "must"}
        /\ Read(v.out) = Reader(E, v.ctx, at, Nothing) /\ IsStack(v.out)
    BY <2>1 DEF Fronted, Fit, Loose
  <2>3. IsStack(Parts(l))
    BY PartsList
  <2>4. Stands(d, F, v.ctx, "after")
    BY <2>2
  <2>5. Reads(d)
    <3>1. Read(v.out).ok
      BY <2>2, ReaderTells
    <3>2. Reads(Read(v.out))
      BY <2>2, <3>1, ReadableWhole
    <3> QED BY <2>3, <3>2, ReadOnGrows DEF Grows
  <2> HIDE DEF d
  <2>6. d.ok /\ Leads(d.events, F)
    BY <2>4, <2>5, StandsTells
  <2>7. Told(v1.out, F)
    <3> HIDE DEF v1
    <3> QED BY <2>2, <2>3, <2>6, EmitTold DEF d, v1
  <2>8. Alike(v1, v) /\ Fit(v1)
    BY <1>1, <2>2, <2>3, EmitAlike, EmitFit
  <2>9. u = EndValue(v1) \/ u = v1 \/ u = Store(v1)
    BY <1>3 DEF PutLexeme
  <2> HIDE DEF v1
  <2>10. EndValue(v1).out = v1.out /\ SameTable(EndValue(v1), v1)
    BY <2>8 DEF EndValue, Fit, Loose, Fields, SameTable
  <2>11. Store(v1).out = v1.out /\ SameTable(Store(v1), v1)
    BY <2>8, StoreKeeps
  <2>12. u.out = v1.out /\ SameTable(u, v1)
    BY <2>9, <2>10, <2>11 DEF SameTable
  <2> QED BY <2>7, <2>8, <2>12 DEF Alike, SameTable
<1> QED BY <1>2, <1>3

LEMMA ScalarTold ==
  ASSUME NEW v, NEW E, Attempted(v, E), NEW l, IsScalar(l), NEW u, u = PutLexeme(v, l)
  PROVE  Told(u.out, Append(E, Scalar(l))) /\ SameTable(u, v)
<1> DEFINE F == Append(E, Scalar(l))
<1>1. Leads(E, F)
  BY LeadsItself DEF Attempted
<1>2. \A at \in {"value", "must"} :
        Stands(ReadOn(Reader(E, v.ctx, at, Nothing), Parts(l)), F, v.ctx, "after")
  BY ScalarRead, ReaderStands DEF Attempted
<1> HIDE DEF F
<1>3. Told(u.out, F) /\ SameTable(u, v)
  BY <1>1, <1>2, PutLexemeTold DEF IsScalar
<1> QED BY <1>3 DEF F

LEMMA NameTold ==
  ASSUME NEW v, NEW E, Attempted(v, E), NEW l, IsName(l), NEW u, u = PutLexeme(v, l)
  PROVE  Told(u.out, Append(E, [e |-> "symbol", name |-> NameOf(l)])) /\ SameTable(u, v)
<1> DEFINE F == Append(E, [e |-> "symbol", name |-> NameOf(l)])
<1>1. Leads(E, F)
  <2>1. IsStack(E)
    BY DEF Attempted
  <2> QED BY <2>1, LeadsItself
<1>2. \A at \in {"value", "must"} :
        Stands(ReadOn(Reader(E, v.ctx, at, Nothing), Parts(l)), F, v.ctx, "after")
  BY NameRead, SymbolStands DEF Attempted
<1> HIDE DEF F
<1>3. Told(u.out, F) /\ SameTable(u, v)
  BY <1>1, <1>2, PutLexemeTold DEF IsName
<1> QED BY <1>3 DEF F

LEMMA EnterTold ==
  ASSUME NEW v, NEW E, Attempted(v, E), NEW c \in Contexts, NEW u, u = Enter(v, c)
  PROVE  Told(u.out, Append(E, Begun(c))) /\ SameTable(u, v)
<1> DEFINE F == Append(E, Begun(c))
<1>1. Leads(E, F) /\ Fit(v) /\ IsStack(F)
  <2>1. IsStack(E) /\ Fit(v)
    BY DEF Attempted
  <2> QED BY <2>1, LeadsItself, StackPushed
<1> HIDE DEF F
<1>2. CASE v.ret # "nil"
  <2>1. u = Store(v)
    BY <1>2 DEF Enter
  <2> QED BY <1>1, <2>1, StoreKeeps, ToldMore DEF Attempted, F
<1>3. CASE v.ret = "nil"
  <2> DEFINE v1 == [v EXCEPT !.ctx = Append(@, c), !.indent = @ + 1,
                             !.needsSeparator = FALSE, !.emptyContainer = TRUE]
             v2 == EmitTo(v1, <<Opening(c)>>)
  <2>1. u = Store(v2)
    BY <1>3 DEF Enter
  <2>2. PICK at : Fronted(v, E, at)
    BY <1>3 DEF Attempted
  <2>3. v.ctx \in Seq(Contexts) /\ Append(v.ctx, c) \in Seq(Contexts) /\ v.err = "nil"
    BY <1>1, <2>2, AppendProperties DEF Fit, Loose, Fronted
  <2>4. Loose(v1) /\ v1.err = "nil" /\ v1.out = v.out /\ SameTable(v1, v)
    BY <1>1, <2>3 DEF Fit, Loose, Fields, SameTable
  <2> HIDE DEF v1
  <2>5. ReadOn(Read(v1.out), <<Opening(c)>>) = Reader(F, Append(v.ctx, c), FirstIn(c), Nothing)
    BY <2>2, <2>4, ReadOnOne, OpeningStep DEF Fronted, F
  <2>6. IsStack(<<Opening(c)>>)
    BY Tuples
  <2>7. Told(v2.out, F) /\ Alike(v2, v1) /\ Loose(v2)
    <3> DEFINE atoms == <<Opening(c)>>
    <3> HIDE DEF v2, atoms
    <3> QED BY <1>1, <2>4, <2>5, <2>6, EmitReads DEF v2, atoms
  <2> HIDE DEF v2
  <2>8. u.out = v2.out /\ SameTable(u, v2)
    BY <2>1, <2>7 DEF Store, Loose, Fields, SameTable
  <2> QED BY <2>4, <2>7, <2>8 DEF SameTable, Alike, F
<1> QED BY <1>2, <1>3

LEMMA EndTold ==
  ASSUME NEW v, Fit(v), v.err = "nil", NEW E, IsStack(E), Reading(v, E), NEW c, NEW u, u = End(v, c)
  PROVE  Told(u.out, Append(E, Ended(c))) /\ SameTable(u, v)
<1> DEFINE F == Append(E, Ended(c))
<1>1. Leads(E, F) /\ IsStack(F)
  <2>1. IsStack(E)
    OBVIOUS
  <2> QED BY <2>1, LeadsItself, StackPushed
<1> HIDE DEF F
<1>2. Loose(v) /\ v.ctx \in Seq(Contexts) /\ v.indent = Len(v.ctx) /\ IsStack(v.out)
  BY DEF Fit, Loose
<1>3. CASE v.ctx = << >> \/ Top(v.ctx) # c
  <2>1. u = Store(Return(v, "usage"))
    BY <1>3 DEF End
  <2>2. u.out = v.out /\ SameTable(u, v)
    BY <1>2, <2>1 DEF Return, Store, Loose, Fields, SameTable
  <2> QED BY <1>1, <1>2, <2>2, ReadingTold, ToldMore DEF F
<1>4. CASE ~(v.ctx = << >> \/ Top(v.ctx) # c)
  <2> DEFINE v0 == [v EXCEPT !.indent = @ - 1]
             v1 == Leave(v0, c)
             v2 == Clear(v1)
             v3 == [v2 EXCEPT !.ctx = Pop(@)]
             atoms == Append(EndLayout(v0), Closing(c))
  <2>1. u = IF v1.ret # "nil" THEN Store(v1) ELSE EndValue(v3)
    BY <1>4 DEF End
  <2>2. Len(v.ctx) \in Nat /\ Len(v.ctx) > 0
    BY <1>2, <1>4, LenProperties, EmptySeq
  <2>3. /\ Loose(v0) /\ v0.err = "nil" /\ v0.ctx = v.ctx /\ v0.out = v.out /\ v0.indent \in Nat
        /\ v0.needsSeparator = v.needsSeparator /\ SameTable(v0, v)
    BY <1>2, <2>2 DEF Loose, Fields, SameTable
  <2> HIDE DEF v0
  <2>4. IsStack(atoms)
    <3>1. IsStack(EndLayout(v0))
      BY <2>3, Tuples, IndentationList, StackConcat DEF EndLayout
    <3> QED BY <3>1, StackPushed
  <2>5. v1 = EmitTo(v0, atoms)
    BY DEF Leave
  <2>6. ReadOn(Read(v0.out), atoms) = Reader(F, Pop(v.ctx), "after", Nothing)
    <3>1. ReadsAs(Read(v0.out), v0, E)
      BY <2>3 DEF Reading, ReadsAs, Place
    <3> QED BY <1>2, <1>4, <2>3, <3>1, LeaveRead DEF F
  <2> HIDE DEF atoms, v1
  <2>7. Told(v1.out, F) /\ Alike(v1, v0) /\ Loose(v1)
    BY <1>1, <2>3, <2>4, <2>5, <2>6, EmitReads
  <2>8. Store(v1).out = v1.out /\ SameTable(Store(v1), v1)
    BY <2>7 DEF Store, Loose, Fields, SameTable
  <2>9. EndValue(v3).out = v1.out /\ SameTable(EndValue(v3), v1)
    BY <2>7 DEF EndValue, Clear, Loose, Fields, SameTable
  <2> HIDE DEF v3
  <2>10. u.out = v1.out /\ SameTable(u, v1)
    BY <2>1, <2>8, <2>9
  <2> QED BY <2>3, <2>7, <2>10 DEF SameTable, Alike, F
<1> QED BY <1>3, <1>4

LEMMA BeginNextAttempted ==
  ASSUME NEW v, NEW E, Waiting(v, E), NEW u, u = BeginNext(v)
  PROVE  Attempted(u, E \o Pending(v)) /\ SameTable(u, v)
<1> DEFINE v0 == Clear(v)
<1>1. Plain(v0, E) /\ v0.ctx = v.ctx /\ SameTable(v0, v)
  BY ClearedPlain DEF Waiting
<1>2. u = BeginRest(v0, v.fieldName, v.annotations)
  BY DEF BeginNext
<1> HIDE DEF v0
<1>3. InFront(v0, v.fieldName, v.annotations) = Pending(v)
  BY <1>1 DEF InFront, InStruct, Pending
<1>4. Told(u.out, E \o Pending(v)) /\ Alike(u, v0) /\ Loose(u)
  BY <1>1, <1>2, <1>3, BeginRestTold DEF Plain, Waiting
<1>5. Fit(u)
  BY <1>1, <1>2, BeginRestFit DEF Plain, Waiting, KnownMarks
<1>6. IsStack(E \o Pending(v))
  BY PendingList, StackConcat DEF Waiting
<1>7. u.ret = "nil" => \E at : Fronted(u, E \o Pending(v), at)
  BY BeginNextFronted
<1> QED BY <1>1, <1>4, <1>5, <1>6, <1>7 DEF Attempted, SameTable, Alike
-----------------------------------------------------------------------------
(***************************************************************************)
(* How far the table came.                                                 *)
(***************************************************************************)
\* On a writer like v, E was written, or a part of it and then something failed.
Outcome(u, E, v, ctx) ==
  /\ IsStack(E) /\ Told(u.out, E) /\ SameTable(u, v)
  /\ u.ret = "nil" => Plain(u, E) /\ u.ctx = ctx

\* And the names P are set aside for the next value.
Readied(u, E, P, v, ctx) ==
  /\ IsStack(E) /\ IsStack(P) /\ Told(u.out, E) /\ SameTable(u, v)
  /\ u.ret = "nil" => Waiting(u, E) /\ Pending(u) = P /\ u.ctx = ctx

LEMMA PlainOutcome ==
  ASSUME NEW v, NEW E, Plain(v, E)
  PROVE  Outcome(v, E, v, v.ctx)
<1>1. Told(v.out, E)
  BY ReadingTold DEF Plain, Fit, Loose
<1> QED BY <1>1 DEF Outcome, SameTable, Plain

LEMMA PlainReadied ==
  ASSUME NEW u, NEW E, NEW v, NEW ctx, Outcome(u, E, v, ctx), ctx = << >> \/ Top(ctx) # "struct"
  PROVE  Readied(u, E, << >>, v, ctx)
<1>1. u.ret = "nil" => Waiting(u, E) /\ Pending(u) = << >> /\ u.ctx = ctx
  BY PlainWaits DEF Outcome, InStruct
<1> QED BY <1>1, Tuples DEF Outcome, Readied

LEMMA NamedOutcome ==
  ASSUME NEW x, NEW E, NEW v, NEW ctx, Outcome(x, E, v, ctx), NEW t, t # NoText,
         NEW u, u = DoNext(x, Named(t))
  PROVE  Readied(u, E, <<Named(t)>>, v, ctx)
<1>1. IsStack(<<Named(t)>>)
  BY Tuples
<1>2. CASE x.ret # "nil"
  BY <1>1, <1>2 DEF DoNext, Outcome, Readied
<1>3. CASE x.ret = "nil"
  <2>1. Plain(x, E) /\ x.ctx = ctx
    BY <1>3 DEF Outcome
  <2>2. u = FieldName(x, Token(t, SymbolIDUnknown))
    BY <1>3, DoIs DEF DoNext
  <2>3. Fields \subseteq DOMAIN x
    BY <2>1 DEF Plain, Fit, Loose
  <2>4. u.out = x.out /\ SameTable(u, x)
    BY <2>2, <2>3 DEF FieldName, Return, Store, Fields, SameTable
  <2>5. u.ret = "nil" => Waiting(u, E) /\ Pending(u) = <<Named(t)>> /\ u.ctx = ctx
    BY <2>1, NamedRead
  <2> QED BY <1>1, <2>4, <2>5 DEF Outcome, Readied, SameTable
<1> QED BY <1>2, <1>3

LEMMA MarkedOutcome ==
  ASSUME NEW x, NEW E, NEW v, NEW ctx, Outcome(x, E, v, ctx), ctx = << >>, NEW t, t # NoText,
         NEW u, u = DoNext(x, Marked(t))
  PROVE  Readied(u, E, <<Marked(t)>>, v, ctx)
<1>1. IsStack(<<Marked(t)>>)
  BY Tuples
<1>2. CASE x.ret # "nil"
  BY <1>1, <1>2 DEF DoNext, Outcome, Readied
<1>3. CASE x.ret = "nil"
  <2>1. Plain(x, E) /\ x.ctx = ctx /\ ~InStruct(x)
    BY <1>3 DEF Outcome, InStruct
  <2> DEFINE call == Marked(t)
  <2>2. call.e = "annotation" /\ call.name.text = t
    BY DEF Marked
  <2>3. u = DoNext(x, call)
    OBVIOUS
  <2> HIDE DEF call
  <2>4. u = Annotations(x, <<Token(t, SymbolIDUnknown)>>)
    BY <1>3, <2>2, <2>3 DEF DoNext, Do
  <2>5. Fields \subseteq DOMAIN x
    BY <2>1 DEF Plain, Fit, Loose
  <2>6. u.out = x.out /\ SameTable(u, x)
    <3> DEFINE marks == <<Token(t, SymbolIDUnknown)>>
    <3> HIDE DEF marks
    <3> QED BY <2>4, <2>5 DEF Annotations, Return, Fields, SameTable, marks
  <2>7. u.ret = "nil" => Waiting(u, E) /\ Pending(u) = <<Marked(t)>> /\ u.ctx = ctx
    BY <2>1, MarkedRead
  <2> QED BY <1>1, <2>6, <2>7 DEF Outcome, Readied, SameTable
<1> QED BY <1>2, <1>3

\* What was set aside, and one call, in a list.
LEMMA ReadiedList ==
  ASSUME NEW E, NEW P, IsStack(E), IsStack(P), NEW e
  PROVE  IsStack(Append(E \o P, e)) /\ Leads(E, Append(E \o P, e))
<1>1. IsStack(E \o P)
  BY StackConcat
<1>2. Leads(E, E \o P)
  BY Zenon DEF Leads
<1>3. Leads(E \o P, Append(E \o P, e)) /\ IsStack(Append(E \o P, e))
  BY <1>1, LeadsItself, StackPushed
<1> QED BY <1>2, <1>3, LeadsOn

LEMMA ScalarOutcome ==
  ASSUME NEW x, NEW E, NEW P, NEW v, NEW ctx, Readied(x, E, P, v, ctx), NEW l, IsScalar(l),
         NEW u, u = DoNext(x, Scalar(l))
  PROVE  Outcome(u, Append(E \o P, Scalar(l)), v, ctx)
<1> DEFINE F == Append(E \o P, Scalar(l))
<1>1. IsStack(F) /\ Leads(E, F)
  BY ReadiedList DEF Readied
<1>2. CASE x.ret # "nil"
  <2> HIDE DEF F
  <2>1. u = x
    BY <1>2 DEF DoNext
  <2>2. Outcome(u, F, v, ctx)
    BY <1>1, <1>2, <2>1, ToldMore DEF Readied, Outcome
  <2> QED BY <2>2 DEF F
<1>3. CASE x.ret = "nil"
  <2> DEFINE x1 == BeginNext(x)
  <2>1. Waiting(x, E) /\ Pending(x) = P /\ x.ctx = ctx /\ SameTable(x, v)
    BY <1>3 DEF Readied
  <2>2. u = PutLexeme(x1, Scalar(l).lexeme) /\ Scalar(l).lexeme = l
    BY <1>3, DoIs DEF DoNext, Scalar
  <2>3. Attempted(x1, E \o P) /\ SameTable(x1, x)
    BY <2>1, BeginNextAttempted
  <2> HIDE DEF x1
  <2>4. Told(u.out, F) /\ SameTable(u, x1)
    BY <2>2, <2>3, ScalarTold
  <2>5. u.ret = "nil" => Plain(u, F) /\ u.ctx = ctx
    BY <2>1, ScalarCallRead
  <2> HIDE DEF F
  <2>6. Outcome(u, F, v, ctx)
    BY <1>1, <2>1, <2>3, <2>4, <2>5 DEF Outcome, SameTable
  <2> QED BY <2>6 DEF F
<1> QED BY <1>2, <1>3

LEMMA BegunOutcome ==
  ASSUME NEW x, NEW E, NEW P, NEW v, NEW ctx, Readied(x, E, P, v, ctx), NEW c \in Contexts,
         NEW u, u = DoNext(x, Begun(c))
  PROVE  Outcome(u, Append(E \o P, Begun(c)), v, Append(ctx, c))
<1> DEFINE F == Append(E \o P, Begun(c))
<1>1. IsStack(F) /\ Leads(E, F)
  BY ReadiedList DEF Readied
<1>2. CASE x.ret # "nil"
  <2> HIDE DEF F
  <2>1. u = x
    BY <1>2 DEF DoNext
  <2>2. Outcome(u, F, v, Append(ctx, c))
    BY <1>1, <1>2, <2>1, ToldMore DEF Readied, Outcome
  <2> QED BY <2>2 DEF F
<1>3. CASE x.ret = "nil"
  <2> DEFINE x1 == BeginNext(x)
  <2>1. Waiting(x, E) /\ Pending(x) = P /\ x.ctx = ctx /\ SameTable(x, v)
    BY <1>3 DEF Readied
  <2>2. u = Enter(x1, c)
    BY <1>3, DoIs DEF DoNext
  <2>3. Attempted(x1, E \o P) /\ SameTable(x1, x)
    BY <2>1, BeginNextAttempted
  <2> HIDE DEF x1
  <2>4. Told(u.out, F) /\ SameTable(u, x1)
    BY <2>2, <2>3, EnterTold
  <2>5. u.ret = "nil" => Plain(u, F) /\ u.ctx = Append(ctx, c)
    BY <2>1, BegunCallRead
  <2> HIDE DEF F
  <2>6. Outcome(u, F, v, Append(ctx, c))
    BY <1>1, <2>1, <2>3, <2>4, <2>5 DEF Outcome, SameTable
  <2> QED BY <2>6 DEF F
<1> QED BY <1>2, <1>3

LEMMA EndedOutcome ==
  ASSUME NEW x, NEW E, NEW v, NEW ctx, Outcome(x, E, v, ctx), NEW c, NEW u, u = DoNext(x, Ended(c))
  PROVE  Outcome(u, Append(E, Ended(c)), v, Pop(ctx))
<1> DEFINE F == Append(E, Ended(c))
<1>1. IsStack(F) /\ Leads(E, F)
  <2>1. IsStack(E)
    BY DEF Outcome
  <2> QED BY <2>1, LeadsItself, StackPushed
<1>2. CASE x.ret # "nil"
  <2> HIDE DEF F
  <2>1. u = x
    BY <1>2 DEF DoNext
  <2>2. Outcome(u, F, v, Pop(ctx))
    BY <1>1, <1>2, <2>1, ToldMore DEF Outcome
  <2> QED BY <2>2 DEF F
<1>3. CASE x.ret = "nil"
  <2>1. Plain(x, E) /\ x.ctx = ctx /\ SameTable(x, v)
    BY <1>3 DEF Outcome
  <2>2. u = End(x, c)
    BY <1>3, DoIs DEF DoNext
  <2>3. Told(u.out, F) /\ SameTable(u, x)
    BY <2>1, <2>2, EndTold DEF Plain
  <2>4. u.ret = "nil" => Plain(u, F) /\ u.ctx = Pop(ctx)
    BY <2>1, EndedCallRead
  <2> HIDE DEF F
  <2>5. Outcome(u, F, v, Pop(ctx))
    BY <1>1, <2>1, <2>3, <2>4 DEF Outcome, SameTable
  <2> QED BY <2>5 DEF F
<1> QED BY <1>2, <1>3

\* A field of a table: its name, and a scalar.
LEMMA FieldOutcome ==
  ASSUME NEW y, NEW E, NEW v, NEW ctx, Outcome(y, E, v, ctx), NEW t, t # NoText,
         NEW l, IsScalar(l), NEW x, x = DoNext(y, Named(t)), NEW u, u = DoNext(x, Scalar(l))
  PROVE  Outcome(u, Append(Append(E, Named(t)), Scalar(l)), v, ctx)
<1>1. Readied(x, E, <<Named(t)>>, v, ctx)
  BY NamedOutcome
<1>2. Outcome(u, Append(E \o <<Named(t)>>, Scalar(l)), v, ctx)
  BY <1>1, ScalarOutcome
<1>3. E \o <<Named(t)>> = Append(E, Named(t))
  BY AppendOne DEF Outcome
<1> QED BY <1>2, <1>3, Zenon

\* One import of the table.
LEMMA ImportOutcome ==
  ASSUME NEW x, NEW E, NEW v, NEW ctx \in Seq(Contexts), Outcome(x, E, v, ctx),
         ctx = << >> \/ Top(ctx) # "struct", NEW imp, NEW u, u = RunCalls(x, ImportCalls(imp))
  PROVE  Outcome(u, E \o ImportCalls(imp), v, ctx)
<1> DEFINE calls == ImportCalls(imp)
           l3 == String([string |-> imp.name])
           l5 == Raw([int |-> imp.version])
           l7 == Raw([int |-> imp.maxID])
           c1 == <<Begun("struct")>>
           c3 == Append(Append(c1, Named("name")), Scalar(l3))
           c5 == Append(Append(c3, Named("version")), Scalar(l5))
           c7 == Append(Append(c5, Named("max_id")), Scalar(l7))
           c8 == Append(c7, Ended("struct"))
           inside == Append(ctx, "struct")
<1>1. /\ Len(calls) = 8 /\ calls[1] = Begun("struct")
      /\ calls[2] = Named("name") /\ calls[3] = Scalar(l3)
      /\ calls[4] = Named("version") /\ calls[5] = Scalar(l5)
      /\ calls[6] = Named("max_id") /\ calls[7] = Scalar(l7)
      /\ calls[8] = Ended("struct")
  BY DEF ImportCalls
<1>2. IsScalar(l3) /\ IsScalar(l5) /\ IsScalar(l7)
  BY DEF IsScalar, String, Raw, Lexeme
<1>3. calls = c8
  BY DEF ImportCalls
<1>4. /\ Append(E, Begun("struct")) = E \o c1
      /\ \A a, b : IsStack(a) => IsStack(Append(a, b)) /\ Append(E \o a, b) = E \o Append(a, b)
  <2>1. IsStack(E)
    BY DEF Outcome
  <2>2. ASSUME NEW a, IsStack(a), NEW b
        PROVE  IsStack(Append(a, b)) /\ Append(E \o a, b) = E \o Append(a, b)
    BY <2>1, <2>2, AppendLast, StackPushed
  <2>3. Append(E, Begun("struct")) = E \o c1
    BY <2>1, AppendOne
  <2> QED BY <2>2, <2>3, Zenon
<1>5. IsStack(c1)
  BY Tuples
<1> HIDE DEF calls, l3, l5, l7
<1>6. PICK f : Runs(f, x, calls, 8) /\ RunCalls(x, calls) = f[8]
  <2>1. 8 \in Nat /\ 8 = Len(calls)
    BY <1>1
  <2> QED BY <2>1, RunsExist, Zenon
<1>7. /\ f[0] = x /\ f[8] = u /\ f[1] = DoNext(f[0], Begun("struct"))
      /\ f[2] = DoNext(f[1], Named("name")) /\ f[3] = DoNext(f[2], Scalar(l3))
      /\ f[4] = DoNext(f[3], Named("version")) /\ f[5] = DoNext(f[4], Scalar(l5))
      /\ f[6] = DoNext(f[5], Named("max_id")) /\ f[7] = DoNext(f[6], Scalar(l7))
      /\ f[8] = DoNext(f[7], Ended("struct"))
  BY <1>1, <1>6 DEF Runs, calls
<1>8. "struct" \in Contexts
  BY DEF Contexts
<1>9. Outcome(f[1], E \o c1, v, inside)
  <2>1. Readied(x, E, << >>, v, ctx)
    BY PlainReadied
  <2>2. Outcome(f[1], Append(E \o << >>, Begun("struct")), v, inside)
    BY <1>7, <1>8, <2>1, BegunOutcome
  <2>3. E \o << >> = E
    BY ConcatNothing DEF Outcome
  <2> HIDE DEF c1, inside
  <2> QED BY <1>4, <2>2, <2>3, Zenon
<1> HIDE DEF c1, inside
<1>10. Outcome(f[3], E \o c3, v, inside) /\ IsStack(c3)
  <2> HIDE DEF c3
  <2>1. Outcome(f[3], Append(Append(E \o c1, Named("name")), Scalar(l3)), v, inside)
    BY <1>2, <1>7, <1>9, TableTexts, FieldOutcome
  <2> DEFINE n == Append(c1, Named("name"))
  <2>2. IsStack(n) /\ Append(E \o c1, Named("name")) = E \o n
    BY <1>4, <1>5, Zenon
  <2> HIDE DEF n
  <2>3. IsStack(Append(n, Scalar(l3))) /\ Append(E \o n, Scalar(l3)) = E \o Append(n, Scalar(l3))
    BY <1>4, <2>2, Zenon
  <2>4. c3 = Append(n, Scalar(l3))
    BY DEF c3, n
  <2> QED BY <2>1, <2>2, <2>3, <2>4, Zenon
<1> HIDE DEF c3
<1>11. Outcome(f[5], E \o c5, v, inside) /\ IsStack(c5)
  <2> HIDE DEF c5
  <2>1. Outcome(f[5], Append(Append(E \o c3, Named("version")), Scalar(l5)), v, inside)
    BY <1>2, <1>7, <1>10, TableTexts, FieldOutcome
  <2> DEFINE n == Append(c3, Named("version"))
  <2>2. IsStack(n) /\ Append(E \o c3, Named("version")) = E \o n
    BY <1>4, <1>10, Zenon
  <2> HIDE DEF n
  <2>3. IsStack(Append(n, Scalar(l5))) /\ Append(E \o n, Scalar(l5)) = E \o Append(n, Scalar(l5))
    BY <1>4, <2>2, Zenon
  <2>4. c5 = Append(n, Scalar(l5))
    BY DEF c5, n
  <2> QED BY <2>1, <2>2, <2>3, <2>4, Zenon
<1> HIDE DEF c5
<1>12. Outcome(f[7], E \o c7, v, inside) /\ IsStack(c7)
  <2> HIDE DEF c7
  <2>1. Outcome(f[7], Append(Append(E \o c5, Named("max_id")), Scalar(l7)), v, inside)
    BY <1>2, <1>7, <1>11, TableTexts, FieldOutcome
  <2> DEFINE n == Append(c5, Named("max_id"))
  <2>2. IsStack(n) /\ Append(E \o c5, Named("max_id")) = E \o n
    BY <1>4, <1>11, Zenon
  <2> HIDE DEF n
  <2>3. IsStack(Append(n, Scalar(l7))) /\ Append(E \o n, Scalar(l7)) = E \o Append(n, Scalar(l7))
    BY <1>4, <2>2, Zenon
  <2>4. c7 = Append(n, Scalar(l7))
    BY DEF c7, n
  <2> QED BY <2>1, <2>2, <2>3, <2>4, Zenon
<1> HIDE DEF c7
<1>13. Outcome(u, Append(E \o c7, Ended("struct")), v, Pop(inside))
  BY <1>7, <1>12, EndedOutcome
<1>14. Pop(inside) = ctx
  BY <1>8, PopPushed DEF inside
<1>15. Append(E \o c7, Ended("struct")) = E \o calls
  BY <1>3, <1>4, <1>12, Zenon
<1>16. Outcome(u, E \o calls, v, ctx)
  BY <1>13, <1>14, <1>15, Zenon
<1> QED BY <1>16 DEF calls

\* All imports of the table, one after the other.
ListsImports(seqs, imps, n) == \A i \in 1 .. n : seqs[i] = ImportCalls(imps[i])

LEMMA ImportsOutcome ==
  ASSUME NEW n \in Nat, n # 0, NEW seqs, NEW imps, ListsImports(seqs, imps, n),
         NEW f, Flattening(f, seqs, n), NEW x, NEW E, NEW v, NEW ctx \in Seq(Contexts),
         Outcome(x, E, v, ctx), ctx = << >> \/ Top(ctx) # "struct"
  PROVE  Outcome(RunCalls(x, f[n]), E \o f[n], v, ctx)
<1> DEFINE S == {k \in 0 .. n : k # 0 => IsStack(f[k]) /\ Outcome(RunCalls(x, f[k]), E \o f[k], v, ctx)}
<1>1. 0 \in S
  OBVIOUS
<1>2. ASSUME NEW k \in 1 .. n, k - 1 \in S
      PROVE  k \in S
  <2>1. f[k] = IF k = 1 THEN seqs[k] ELSE f[k - 1] \o seqs[k]
    BY DEF Flattening
  <2>2. seqs[k] = ImportCalls(imps[k]) /\ IsStack(seqs[k])
    BY Tuples, Zenon DEF ImportCalls, ListsImports
  <2>3. CASE k = 1
    <3>1. f[k] = ImportCalls(imps[k])
      BY <2>1, <2>2, <2>3
    <3> QED BY <2>2, <3>1, ImportOutcome
  <2>4. CASE k # 1
    <3>1. IsStack(f[k - 1]) /\ Outcome(RunCalls(x, f[k - 1]), E \o f[k - 1], v, ctx)
      <4>1. k - 1 \in S /\ k - 1 # 0
        BY <1>2, <2>4
      <4> QED BY <4>1, Zenon
    <3> DEFINE a == f[k - 1]
               b == seqs[k]
               y == RunCalls(x, a)
    <3>2. f[k] = a \o b
      BY <2>1, <2>4
    <3>3. Outcome(RunCalls(y, b), (E \o a) \o b, v, ctx)
      <4> HIDE DEF y, a
      <4> QED BY <2>2, <3>1, ImportOutcome DEF y, a
    <3>4. IsStack(a) /\ IsStack(b) /\ IsStack(E)
      BY <2>2, <3>1 DEF Outcome
    <3> HIDE DEF a, b
    <3>5. RunCalls(x, a \o b) = RunCalls(y, b) /\ (E \o a) \o b = E \o (a \o b) /\ IsStack(a \o b)
      BY <3>4, RunConcat, ConcatTwice, StackConcat
    <3>6. IsStack(f[k]) /\ Outcome(RunCalls(x, f[k]), E \o f[k], v, ctx)
      BY <3>2, <3>3, <3>5, Zenon
    <3> QED BY <3>6
  <2> QED BY <2>3, <2>4
<1> HIDE DEF S
<1>3. n \in S
  BY <1>1, <1>2, Induction
<1> QED BY <1>3 DEF S

\* What stands around the imports.
TableHead == <<Marked("$ion_symbol_table"), Begun("struct"), Named("imports"), Begun("list")>>
TableTail == <<Ended("list"), Ended("struct")>>

LEMMA TableHeadOutcome ==
  ASSUME NEW x, NEW E, NEW v, Outcome(x, E, v, << >>), NEW u, u = RunCalls(x, TableHead)
  PROVE  Outcome(u, E \o TableHead, v, Append(Append(<< >>, "struct"), "list"))
<1> DEFINE calls == TableHead
           c1 == <<Marked("$ion_symbol_table")>>
           c2 == Append(c1, Begun("struct"))
           c3 == Append(c2, Named("imports"))
           c4 == Append(c3, Begun("list"))
           s1 == Append(<< >>, "struct")
<1>1. /\ Len(calls) = 4 /\ calls[1] = Marked("$ion_symbol_table") /\ calls[2] = Begun("struct")
      /\ calls[3] = Named("imports") /\ calls[4] = Begun("list")
  BY DEF TableHead
<1>2. calls = c4
  BY DEF TableHead
<1>3. /\ Append(E, Named("imports")) = E \o <<Named("imports")>>
      /\ \A a, b : IsStack(a) => /\ IsStack(Append(a, b)) /\ Append(E \o a, b) = E \o Append(a, b)
                                 /\ IsStack(E \o a)
  <2>1. IsStack(E)
    BY DEF Outcome
  <2>2. ASSUME NEW a, IsStack(a), NEW b
        PROVE  /\ IsStack(Append(a, b)) /\ Append(E \o a, b) = E \o Append(a, b)
               /\ IsStack(E \o a)
    BY <2>1, <2>2, AppendLast, StackPushed, StackConcat
  <2>3. Append(E, Named("imports")) = E \o <<Named("imports")>>
    BY <2>1, AppendOne
  <2> QED BY <2>2, <2>3, Zenon
<1>4. IsStack(c1)
  BY Tuples
<1>5. PICK f : Runs(f, x, calls, 4) /\ RunCalls(x, calls) = f[4]
  <2>1. 4 \in Nat /\ 4 = Len(calls)
    BY <1>1
  <2> QED BY <2>1, RunsExist, Zenon
<1>6. /\ f[0] = x /\ f[4] = u
      /\ f[1] = DoNext(f[0], Marked("$ion_symbol_table")) /\ f[2] = DoNext(f[1], Begun("struct"))
      /\ f[3] = DoNext(f[2], Named("imports")) /\ f[4] = DoNext(f[3], Begun("list"))
  BY <1>1, <1>5 DEF Runs
<1>7. "struct" \in Contexts /\ "list" \in Contexts
  BY DEF Contexts
<1> HIDE DEF calls
<1>8. Readied(f[1], E, c1, v, << >>)
  BY <1>6, TableTexts, MarkedOutcome
<1> HIDE DEF c1
<1>9. Outcome(f[2], E \o c2, v, s1) /\ IsStack(c2)
  <2>1. Outcome(f[2], Append(E \o c1, Begun("struct")), v, s1)
    BY <1>6, <1>7, <1>8, BegunOutcome
  <2> HIDE DEF c2, s1
  <2> QED BY <1>3, <1>4, <2>1, Zenon DEF c2
<1> HIDE DEF c2, s1
<1>10. Readied(f[3], E \o c2, <<Named("imports")>>, v, s1)
  BY <1>6, <1>9, TableTexts, NamedOutcome
<1>11. Outcome(f[4], Append((E \o c2) \o <<Named("imports")>>, Begun("list")), v, Append(s1, "list"))
  BY <1>6, <1>7, <1>10, BegunOutcome
<1>12. (E \o c2) \o <<Named("imports")>> = E \o c3
  <2>1. Append(E \o c2, Named("imports")) = (E \o c2) \o <<Named("imports")>>
    BY <1>3, <1>9, AppendOne
  <2> QED BY <1>3, <1>9, <2>1, Zenon
<1>13. IsStack(c3)
  BY <1>3, <1>9, Zenon
<1> HIDE DEF c3
<1>14. Outcome(u, E \o c4, v, Append(s1, "list"))
  <2>1. Append(E \o c3, Begun("list")) = E \o c4
    BY <1>3, <1>13, Zenon
  <2> HIDE DEF c4
  <2> QED BY <1>6, <1>11, <1>12, <2>1, Zenon
<1> QED BY <1>2, <1>14, Zenon DEF calls, s1

LEMMA TableTailOutcome ==
  ASSUME NEW x, NEW E, NEW v, Outcome(x, E, v, Append(Append(<< >>, "struct"), "list")),
         NEW u, u = RunCalls(x, TableTail)
  PROVE  Outcome(u, E \o TableTail, v, << >>)
<1> DEFINE calls == TableTail
           c1 == <<Ended("list")>>
           c2 == Append(c1, Ended("struct"))
           s1 == Append(<< >>, "struct")
<1>1. Len(calls) = 2 /\ calls[1] = Ended("list") /\ calls[2] = Ended("struct") /\ calls = c2
  BY DEF TableTail
<1>2. IsStack(E) /\ IsStack(c1)
  BY Tuples DEF Outcome
<1>3. PICK f : Runs(f, x, calls, 2) /\ RunCalls(x, calls) = f[2]
  <2>1. 2 \in Nat /\ 2 = Len(calls)
    BY <1>1
  <2> QED BY <2>1, RunsExist, Zenon
<1>4. /\ f[0] = x /\ f[2] = u
      /\ f[1] = DoNext(f[0], Ended("list")) /\ f[2] = DoNext(f[1], Ended("struct"))
  BY <1>1, <1>3 DEF Runs
<1>5. Pop(Append(s1, "list")) = s1 /\ Pop(s1) = << >>
  <2>1. << >> \in Seq(Contexts) /\ "struct" \in Contexts /\ "list" \in Contexts
    BY DEF Contexts
  <2>2. s1 \in Seq(Contexts)
    BY <2>1, AppendProperties
  <2>3. Pop(s1) = << >>
    BY <2>1, PopPushed
  <2> HIDE DEF s1
  <2>4. Pop(Append(s1, "list")) = s1
    BY <2>1, <2>2, PopPushed
  <2> QED BY <2>3, <2>4 DEF s1
<1>6. Outcome(f[1], Append(E, Ended("list")), v, Pop(Append(s1, "list")))
  BY <1>4, EndedOutcome
<1>7. Outcome(f[2], Append(Append(E, Ended("list")), Ended("struct")), v, Pop(s1))
  <2> HIDE DEF s1
  <2> QED BY <1>4, <1>5, <1>6, EndedOutcome
<1>8. Append(Append(E, Ended("list")), Ended("struct")) = E \o c2
  <2>1. Append(E, Ended("list")) = E \o c1
    BY <1>2, AppendOne
  <2> HIDE DEF c1
  <2>2. Append(E \o c1, Ended("struct")) = E \o c2
    BY <1>2, AppendLast
  <2> QED BY <2>1, <2>2, Zenon
<1> HIDE DEF c2, s1
<1> QED BY <1>1, <1>4, <1>5, <1>7, <1>8, Zenon

LEMMA TableOutcome ==
  ASSUME NEW x, NEW E, NEW v, Outcome(x, E, v, << >>),
         NEW tbl \in {NewBuilder(<< >>), NewBuilder(Imports)},
         NEW u, u = RunCalls(x, TableCalls(tbl))
  PROVE  Outcome(u, E \o TableCalls(tbl), v, << >>)
<1> DEFINE wire  == WriteTo(tbl)
           head  == TableHead
           seqs  == [i \in 1 .. Len(wire.imports) |-> ImportCalls(wire.imports[i])]
           flat  == Lists!FlattenSeq(seqs)
           tail  == TableTail
           inner == Append(Append(<< >>, "struct"), "list")
<1>0. IsStack(E)
  BY DEF Outcome
<1>1. CASE wire.kind = "absent"
  <2>1. TableCalls(tbl) = << >>
    BY <1>1 DEF TableCalls
  <2>2. u = x /\ E \o << >> = E
    BY <1>0, <2>1, RunOne, ConcatNothing
  <2> QED BY <2>1, <2>2
<1>2. CASE wire.kind # "absent"
  <2>1. PICK n \in Nat : n = Len(tbl.imports) - 1 /\ n # 0
    <3>1. Len(tbl.imports) \in Nat /\ Len(tbl.imports) > 0
      BY BuilderImports
    <3>2. tbl.symbols = << >>
      BY DEF NewBuilder, NewLocalTable
    <3>3. Len(tbl.imports) # 1
      BY <1>2, <3>2 DEF WriteTo
    <3> DEFINE m == Len(tbl.imports) - 1
    <3>4. m \in Nat /\ m # 0
      BY <3>1, <3>3
    <3> QED BY <3>4, Zenon
  <2>2. wire.imports = [i \in 1 .. n |-> [name    |-> tbl.imports[i + 1].name,
                                          version |-> tbl.imports[i + 1].version,
                                          maxID   |-> tbl.imports[i + 1].maxID]]
    BY <1>2, <2>1 DEF WriteTo
  <2>3. Len(wire.imports) = n
    BY <2>2
  <2>4. TableCalls(tbl) = (head \o flat) \o tail
    BY <1>2 DEF TableCalls, TableHead, TableTail
  <2> HIDE DEF wire
  <2>5. Len(seqs) = n /\ \A i \in 1 .. n : seqs[i] = ImportCalls(wire.imports[i])
    BY <2>3
  <2> HIDE DEF seqs
  <2> DEFINE f == CHOOSE g : Flattening(g, seqs, n)
  <2>6. Flattening(f, seqs, n)
    BY FlatteningExists
  <2>7. flat = f[n]
    BY <2>1, <2>5 DEF Lists!FlattenSeq, Flattening
  <2>8. IsStack(head) /\ IsStack(tail)
    BY Tuples, Zenon DEF TableHead, TableTail
  <2> HIDE DEF f, head, tail, flat, inner
  <2>9. inner \in Seq(Contexts) /\ (inner = << >> \/ Top(inner) # "struct")
    <3>1. << >> \in Seq(Contexts) /\ "struct" \in Contexts /\ "list" \in Contexts
      BY DEF Contexts
    <3>2. Append(<< >>, "struct") \in Seq(Contexts)
      BY <3>1, AppendProperties
    <3>3. Top(Append(Append(<< >>, "struct"), "list")) = "list"
      BY <3>1, <3>2, PopPushed
    <3>4. Append(Append(<< >>, "struct"), "list") \in Seq(Contexts)
      BY <3>1, <3>2, AppendProperties
    <3> QED BY <3>3, <3>4 DEF inner
  <2> DEFINE x1 == RunCalls(x, head)
             x2 == RunCalls(x1, flat)
  <2>10. Outcome(x1, E \o head, v, inner)
    BY TableHeadOutcome DEF head, inner
  <2> HIDE DEF x1
  <2> DEFINE imps == wire.imports
             D == E \o head
  <2>11. ListsImports(seqs, imps, n)
    BY <2>5 DEF ListsImports
  <2>12. ASSUME NEW y, NEW C, Outcome(y, C, v, inner)
         PROVE  Outcome(RunCalls(y, f[n]), C \o f[n], v, inner)
    <3> HIDE DEF imps
    <3> QED BY <2>1, <2>6, <2>9, <2>11, <2>12, ImportsOutcome
  <2>13. Outcome(x2, D \o flat, v, inner)
    <3>1. Outcome(x1, D, v, inner)
      BY <2>10
    <3> HIDE DEF D
    <3>2. Outcome(RunCalls(x1, f[n]), D \o f[n], v, inner)
      BY <2>12, <3>1, Zenon
    <3> QED BY <2>7, <3>2, Zenon
  <2>14. IsStack(flat)
    <3> DEFINE S == UNION {{ImportCalls(wire.imports[i])[j] : j \in 1 .. 8} : i \in 1 .. n}
    <3>1. ASSUME NEW i \in 1 .. n
          PROVE  ListOf(seqs[i], S)
      <4>1. Len(seqs[i]) = 8
        <5>1. \A imp : Len(ImportCalls(imp)) = 8
          BY DEF ImportCalls
        <5> QED BY <2>5, <5>1
      <4>2. IsStack(seqs[i])
        BY <2>5, Tuples, Zenon DEF ImportCalls
      <4>3. \A j \in 1 .. 8 : seqs[i][j] \in S
        BY <2>5
      <4> QED BY <4>1, <4>2, <4>3 DEF ListOf
    <3> HIDE DEF S
    <3> QED BY <2>1, <2>6, <2>7, <3>1, FlatteningLists DEF ListOf
  <2>15. u = RunCalls(x2, tail)
    BY <2>4, <2>8, <2>14, StackConcat, RunConcat DEF x1
  <2> HIDE DEF x2
  <2>16. Outcome(u, (D \o flat) \o tail, v, << >>)
    <3> DEFINE C == D \o flat
    <3>1. Outcome(x2, C, v, inner)
      BY <2>13
    <3> HIDE DEF C
    <3>2. Outcome(u, C \o tail, v, << >>)
      BY <2>15, <3>1, TableTailOutcome DEF tail, inner
    <3> QED BY <3>2 DEF C
  <2>17. (D \o flat) \o tail = E \o ((head \o flat) \o tail)
    <3>1. Assoc(E, head, flat) /\ Assoc(E, head \o flat, tail)
      BY <1>0, <2>8, <2>14, ConcatThrice, Zenon
    <3> QED BY <3>1, Zenon DEF Assoc, D
  <2> HIDE DEF D
  <2> QED BY <2>4, <2>16, <2>17, Zenon
<1> QED BY <1>1, <1>2

LEMMA TableRead ==
  ASSUME NEW v, NEW E, Plain(v, E), v.ctx = << >>,
         NEW tbl \in {NewBuilder(<< >>), NewBuilder(Imports)},
         NEW u, u = RunCalls(v, TableCalls(tbl)), u.ret = "nil"
  PROVE  Plain(u, E \o TableCalls(tbl)) /\ u.ctx = << >> /\ SameTable(u, v)
<1>1. Outcome(v, E, v, << >>)
  BY PlainOutcome
<1>2. Outcome(u, E \o TableCalls(tbl), v, << >>)
  BY <1>1, TableOutcome
<1> QED BY <1>2 DEF Outcome
-----------------------------------------------------------------------------
(***************************************************************************)
(* The methods, and what they write.                                       *)
(***************************************************************************)
\* The table is the first that is written.
Starts(v, E) == Waiting(v, E) /\ (~v.wroteLST => E = << >> /\ v.ctx = << >>)

\* What is written when the writer begins a value.
WithTable(v, E) == IF v.wroteLST THEN E ELSE TableCalls(v.tbl)

LEMMA BeginRestFails ==
  ASSUME NEW v, NEW name, NEW marks, BeginRest(v, name, marks).ret = "nil"
  PROVE  v.ret = "nil"
<1>1. v.ret # "nil" => LayNext(v) = v
  BY DEF LayNext
<1>2. v.ret # "nil" => NameNext(v, name) = v
  BY DEF NameNext
<1>3. v.ret # "nil" => MarkNext(v, marks) = v
  BY DEF MarkNext
<1> QED BY <1>1, <1>2, <1>3, Zenon DEF BeginRest

LEMMA WriteTableRead ==
  ASSUME NEW v, NEW E, Plain(v, E), ~v.wroteLST => E = << >> /\ v.ctx = << >>,
         NEW u, u = WriteTable(v), u.ret = "nil"
  PROVE  Plain(u, WithTable(v, E)) /\ u.ctx = v.ctx /\ u.tbl = v.tbl /\ u.wroteLST
<1>1. CASE v.wroteLST
  BY <1>1 DEF WriteTable, WithTable
<1>2. CASE ~v.wroteLST
  <2> DEFINE v1 == [v EXCEPT !.wroteLST = TRUE]
  <2>1. E = << >> /\ v.ctx = << >> /\ u = RunCalls(v1, TableCalls(v.tbl))
    BY <1>2 DEF WriteTable
  <2>2. Fit(v) /\ Fields \subseteq DOMAIN v
    BY DEF Plain, Fit, Loose
  <2>3. /\ v1.wroteLST /\ v1.tbl = v.tbl /\ v1.ctx = v.ctx /\ v1.out = v.out /\ v1.err = v.err
        /\ v1.needsSeparator = v.needsSeparator
        /\ v1.fieldName = v.fieldName /\ v1.annotations = v.annotations
    BY <2>2 DEF Fields
  <2>4. Fit(v1)
    BY <2>2 DEF Fit, Loose, Fields
  <2> HIDE DEF v1
  <2>5. Plain(v1, E)
    BY <2>3, <2>4 DEF Plain, Reading, ReadsAs, Place
  <2>6. v.tbl \in {NewBuilder(<< >>), NewBuilder(Imports)}
    BY <2>2 DEF Fit, Loose
  <2>7. Plain(u, E \o TableCalls(v.tbl)) /\ u.ctx = << >> /\ SameTable(u, v1)
    BY <2>1, <2>3, <2>5, <2>6, TableRead
  <2>8. IsStack(TableCalls(v.tbl))
    BY <2>6, TableCallsProper DEF ProperCalls
  <2>9. E \o TableCalls(v.tbl) = TableCalls(v.tbl)
    BY <2>1, <2>8, ConcatNothing
  <2>10. Plain(u, TableCalls(v.tbl))
    BY <2>7, <2>9, Zenon
  <2> QED BY <1>2, <2>1, <2>3, <2>7, <2>10 DEF WithTable, SameTable
<1> QED BY <1>1, <1>2

LEMMA BeginValueRead ==
  ASSUME NEW v, NEW E, Starts(v, E), NEW u, u = BeginValue(v), u.ret = "nil"
  PROVE  /\ \E at : Fronted(u, WithTable(v, E) \o Pending(v), at)
         /\ u.ctx = v.ctx /\ u.tbl = v.tbl /\ u.wroteLST
<1> DEFINE v1 == Return(Clear(v), "nil")
           v2 == WriteTable(v1)
<1>1. u = BeginRest(v2, v.fieldName, v.annotations)
  BY DEF BeginValue
<1>2. v2.ret = "nil"
  BY <1>1, BeginRestFails
<1>3. Plain(v1, E) /\ v1.ctx = v.ctx /\ SameTable(v1, v)
  <2> DEFINE c == Clear(v)
  <2>1. Plain(c, E) /\ c.ctx = v.ctx /\ SameTable(c, v)
    BY ClearedPlain DEF Starts, Waiting
  <2> HIDE DEF c
  <2>2. /\ c.fieldName = NoName /\ c.annotations = << >> => Plain(Return(c, "nil"), E)
        /\ Return(c, "nil").ctx = c.ctx /\ SameTable(Return(c, "nil"), c)
    BY <2>1, ClearedPlain DEF Plain
  <2>3. Plain(Return(c, "nil"), E)
    BY <2>1, <2>2 DEF Plain
  <2> QED BY <2>1, <2>2, <2>3 DEF SameTable, c
<1> HIDE DEF v1
<1>4. /\ Plain(v2, WithTable(v1, E)) /\ v2.ctx = v1.ctx /\ v2.tbl = v1.tbl /\ v2.wroteLST
  BY <1>2, <1>3, WriteTableRead DEF Starts, SameTable
<1> HIDE DEF v2
<1>5. WithTable(v1, E) = WithTable(v, E)
  BY <1>3 DEF WithTable, SameTable
<1>6. InFront(v2, v.fieldName, v.annotations) = Pending(v)
  BY <1>3, <1>4 DEF InFront, InStruct, Pending
<1>7. /\ \E at : Fronted(u, WithTable(v, E) \o InFront(v2, v.fieldName, v.annotations), at)
      /\ u.ctx = v2.ctx /\ SameTable(u, v2)
  BY <1>1, <1>4, <1>5, BeginRestFronted DEF Starts, Waiting
<1> QED BY <1>3, <1>4, <1>6, <1>7 DEF SameTable

\* With no error stored, a value was written, or its Write has failed.
LEMMA PutLexemeSucceeds ==
  ASSUME NEW v, Fit(v), NEW l, l.calls \in Nat, NEW u, u = PutLexeme(v, l)
  PROVE  /\ u.ret = "nil" => v.ret = "nil"
         /\ u.err = "nil" => u.ret \in {"nil", "io"}
<1> DEFINE v1 == EmitTo(v, Parts(l))
<1>1. CASE v.ret # "nil"
  BY <1>1, StoreFit DEF PutLexeme
<1>2. CASE v.ret = "nil"
  <2>1. v.err = "nil" /\ IsStack(Parts(l))
    BY <1>2, PartsList DEF Fit, Loose
  <2>2. Fit(v1) /\ v1.ret \in {"nil", "io"}
    BY <2>1, EmitFit
  <2>3. u = EndValue(v1) \/ u = v1 \/ u = Store(v1)
    BY <1>2 DEF PutLexeme
  <2> HIDE DEF v1
  <2> QED BY <1>2, <2>2, <2>3, StoreFit, EndValueFit
<1> QED BY <1>1, <1>2

LEMMA EnterSucceeds ==
  ASSUME NEW v, Fit(v), NEW c \in Contexts, NEW u, u = Enter(v, c)
  PROVE  /\ u.ret = "nil" => v.ret = "nil"
         /\ u.err = "nil" => u.ret = "nil"
<1>1. CASE v.ret # "nil"
  BY <1>1, StoreFit DEF Enter
<1>2. CASE v.ret = "nil"
  <2> DEFINE v1 == [v EXCEPT !.ctx = Append(@, c), !.indent = @ + 1,
                             !.needsSeparator = FALSE, !.emptyContainer = TRUE]
             v2 == EmitTo(v1, <<Opening(c)>>)
  <2>1. u = Store(v2)
    BY <1>2 DEF Enter
  <2>2. Fields \subseteq DOMAIN v2
    BY DEF EmitTo, Fit, Loose
  <2> HIDE DEF v2
  <2>3. u.err = v2.ret /\ u.ret = v2.ret
    BY <2>1, <2>2 DEF Store, Fields
  <2> QED BY <1>2, <2>3
<1> QED BY <1>1, <1>2

LEMMA EndSucceeds ==
  ASSUME NEW v, Fit(v), NEW c, NEW u, u = End(v, c), v.err = "nil"
  PROVE  u.err = "nil" => u.ret = "nil"
<1> DEFINE v1 == Leave([v EXCEPT !.indent = @ - 1], c)
           v2 == Clear(v1)
           v3 == [v2 EXCEPT !.ctx = Pop(@)]
<1>1. Fields \subseteq DOMAIN v1 /\ Fields \subseteq DOMAIN v
  BY DEF Leave, EmitTo, Fit, Loose
<1>2. \/ u = Store(Return(v, "usage"))
      \/ u = IF v1.ret # "nil" THEN Store(v1) ELSE EndValue(v3)
  BY DEF End
<1> HIDE DEF v1
<1>3. Store(Return(v, "usage")).err = "usage" /\ Store(v1).err = v1.ret /\ EndValue(v3).ret = v1.ret
  BY <1>1 DEF Store, Return, EndValue, Clear, Fields
<1> HIDE DEF v2, v3
<1> QED BY <1>2, <1>3

\* The call has written the events, or none.
Goes(v, u, E, events) ==
  /\ u.tbl = v.tbl
  /\ \/ u.wroteLST /\ Waiting(u, WithTable(v, E) \o events)
     \/ events = << >> /\ Waiting(u, E) /\ u.ctx = v.ctx /\ u.wroteLST = v.wroteLST

LEMMA EventsList ==
  ASSUME NEW v, NEW E, Starts(v, E), NEW event
  PROVE  /\ IsStack(Append(Pending(v), event))
         /\ Append(WithTable(v, E) \o Pending(v), event) = WithTable(v, E) \o Append(Pending(v), event)
<1>1. IsStack(Pending(v))
  BY PendingList DEF Starts
<1>2. IsStack(WithTable(v, E))
  BY TableCallsProper DEF Starts, Waiting, WithTable, ProperCalls, Fit, Loose
<1> QED BY <1>1, <1>2, StackPushed, AppendLast

\* A lexeme that is put behind what beginValue has written.
LEMMA LexemeBegins ==
  ASSUME NEW v, NEW E, Starts(v, E), NEW l, l.calls \in Nat,
         NEW u, u = PutLexeme(BeginValue(v), l), u.err = "nil", u.ret # "io"
  PROVE  u.ret = "nil" /\ BeginValue(v).ret = "nil"
<1> DEFINE v1 == BeginValue(v)
<1>1. Fit(v1)
  BY BeginValueFit DEF Starts, Waiting
<1> HIDE DEF v1
<1>2. u = PutLexeme(v1, l)
  BY DEF v1
<1>3. u.ret = "nil" /\ v1.ret = "nil"
  BY <1>1, <1>2, PutLexemeSucceeds
<1> QED BY <1>3 DEF v1

LEMMA ScalarGoes ==
  ASSUME NEW v, NEW E, Starts(v, E), NEW l, IsScalar(l),
         NEW u, u = WriteLexeme(v, l), u.err = "nil", u.ret # "io"
  PROVE  u.ret = "nil" /\ Goes(v, u, E, Append(Pending(v), Scalar(l)))
<1> DEFINE v1 == BeginValue(v)
           D  == WithTable(v, E) \o Pending(v)
<1>1. u = PutLexeme(v1, l) /\ l.calls \in Nat
  BY DEF WriteLexeme, Starts, Waiting, IsScalar
<1>2. u.ret = "nil" /\ v1.ret = "nil"
  BY <1>1, LexemeBegins
<1>3. v1.ctx = v.ctx /\ v1.tbl = v.tbl /\ v1.wroteLST
  BY <1>2, BeginValueRead
<1>4. PICK at : Fronted(v1, D, at)
  BY <1>2, BeginValueRead
<1> HIDE DEF v1, D
<1>5. Plain(u, Append(D, Scalar(l))) /\ SameTable(u, v1)
  BY <1>1, <1>2, <1>4, PutScalarRead
<1>6. Waiting(u, Append(D, Scalar(l)))
  BY <1>5, PlainWaits
<1>7. Append(D, Scalar(l)) = WithTable(v, E) \o Append(Pending(v), Scalar(l))
  BY EventsList DEF D
<1>8. Waiting(u, WithTable(v, E) \o Append(Pending(v), Scalar(l)))
  BY <1>6, <1>7, Zenon
<1> QED BY <1>2, <1>3, <1>5, <1>8 DEF Goes, SameTable

LEMMA NameGoes ==
  ASSUME NEW v, NEW E, Starts(v, E), NEW l, IsName(l),
         NEW u, u = PutLexeme(BeginValue(v), l), u.err = "nil", u.ret # "io"
  PROVE  u.ret = "nil" /\ Goes(v, u, E, Append(Pending(v), [e |-> "symbol", name |-> NameOf(l)]))
<1> DEFINE v1 == BeginValue(v)
           D  == WithTable(v, E) \o Pending(v)
           event == [e |-> "symbol", name |-> NameOf(l)]
<1>1. u = PutLexeme(v1, l) /\ l.calls \in Nat
  BY DEF IsName
<1>2. u.ret = "nil" /\ v1.ret = "nil"
  BY <1>1, LexemeBegins
<1>3. v1.ctx = v.ctx /\ v1.tbl = v.tbl /\ v1.wroteLST
  BY <1>2, BeginValueRead
<1>4. PICK at : Fronted(v1, D, at)
  BY <1>2, BeginValueRead
<1> HIDE DEF v1, D
<1>5. Plain(u, Append(D, event)) /\ SameTable(u, v1)
  BY <1>1, <1>2, <1>4, PutNameRead
<1> HIDE DEF event
<1>6. Waiting(u, Append(D, event))
  BY <1>5, PlainWaits
<1>7. Append(D, event) = WithTable(v, E) \o Append(Pending(v), event)
  BY EventsList DEF D
<1>8. Waiting(u, WithTable(v, E) \o Append(Pending(v), event))
  BY <1>6, <1>7, Zenon
<1> QED BY <1>2, <1>3, <1>5, <1>8 DEF Goes, SameTable, event

LEMMA SymbolGoes ==
  ASSUME NEW v, NEW E, Starts(v, E), NEW tok, Known(tok),
         NEW u, u = WriteSymbol(v, tok), u.err = "nil", u.ret # "io"
  PROVE  u.ret = "nil" /\ Goes(v, u, E, Append(Pending(v), [e |-> "symbol", name |-> Meant(tok)]))
<1>1. v.err = "nil" /\ Fit(v)
  BY DEF Starts, Waiting
<1>2. CASE Valid(tok)
  <2>1. u = PutLexeme(BeginValue(v), SymbolLexeme(tok))
    BY <1>1, <1>2 DEF WriteSymbol
  <2>2. IsName(SymbolLexeme(tok)) /\ NameOf(SymbolLexeme(tok)) = Meant(tok)
    BY <1>2, SymbolIsName
  <2> DEFINE l == SymbolLexeme(tok)
  <2> HIDE DEF l
  <2>3. u.ret = "nil" /\ Goes(v, u, E, Append(Pending(v), [e |-> "symbol", name |-> NameOf(l)]))
    BY <2>1, <2>2, NameGoes DEF l
  <2>4. NameOf(l) = Meant(tok)
    BY <2>2 DEF l
  <2> QED BY <2>3, <2>4
<1>3. CASE ~Valid(tok)
  <2> DEFINE v1 == BeginValue(v)
             v2 == IF v1.ret = "nil" THEN Return(v1, "usage") ELSE v1
  <2>1. u = Store(v2)
    BY <1>1, <1>3 DEF WriteSymbol
  <2>2. Fit(v1)
    BY <1>1, BeginValueFit
  <2> HIDE DEF v1
  <2>3. Fit(Return(v1, "usage")) /\ Return(v1, "usage").ret = "usage"
    BY <2>2, ReturnFit DEF Errs
  <2>4. Fit(v2) /\ v2.ret # "nil"
    BY <2>2, <2>3
  <2> HIDE DEF v2
  <2>5. Store(v2).err # "nil"
    BY <2>4, StoreFit
  <2> QED BY <2>1, <2>5
<1> QED BY <1>2, <1>3

LEMMA StringGoes ==
  ASSUME NEW v, NEW E, Starts(v, E), NEW s,
         NEW u, u = WriteSymbolFromString(v, s), u.err = "nil", u.ret # "io"
  PROVE  u.ret = "nil" /\ Goes(v, u, E, Append(Pending(v), [e |-> "symbol", name |-> MeantString(s)]))
<1> DEFINE l == Bare(s)
<1>1. u = PutLexeme(BeginValue(v), l)
  BY DEF WriteSymbolFromString, WriteLexeme, Starts, Waiting
<1>2. IsName(l) /\ NameOf(l) = MeantString(s)
  BY BareIsName
<1> HIDE DEF l
<1>3. u.ret = "nil" /\ Goes(v, u, E, Append(Pending(v), [e |-> "symbol", name |-> NameOf(l)]))
  BY <1>1, <1>2, NameGoes
<1> QED BY <1>2, <1>3

LEMMA BeginGoes ==
  ASSUME NEW v, NEW E, Starts(v, E), NEW c \in Contexts,
         NEW u, u = Begin(v, c), u.err = "nil", u.ret # "io"
  PROVE  u.ret = "nil" /\ Goes(v, u, E, Append(Pending(v), Begun(c)))
<1> DEFINE v1 == BeginValue(v)
           D  == WithTable(v, E) \o Pending(v)
<1>1. u = Enter(v1, c) /\ Fit(v1)
  BY BeginValueFit DEF Begin, Starts, Waiting
<1>2. u.ret = "nil" /\ v1.ret = "nil"
  <2> HIDE DEF v1
  <2> QED BY <1>1, EnterSucceeds
<1>3. v1.ctx = v.ctx /\ v1.tbl = v.tbl /\ v1.wroteLST
  BY <1>2, BeginValueRead
<1>4. PICK at : Fronted(v1, D, at)
  BY <1>2, BeginValueRead
<1> HIDE DEF v1, D
<1>5. Plain(u, Append(D, Begun(c))) /\ SameTable(u, v1)
  BY <1>1, <1>2, <1>4, EnterRead
<1>6. Waiting(u, Append(D, Begun(c)))
  BY <1>5, PlainWaits
<1>7. Append(D, Begun(c)) = WithTable(v, E) \o Append(Pending(v), Begun(c))
  BY EventsList DEF D
<1>8. Waiting(u, WithTable(v, E) \o Append(Pending(v), Begun(c)))
  BY <1>6, <1>7, Zenon
<1> QED BY <1>2, <1>3, <1>5, <1>8 DEF Goes, SameTable

\* A container that is open is behind the table.
LEMMA EndGoes ==
  ASSUME NEW v, NEW E, Starts(v, E), NEW c, NEW u, u = End(v, c), u.err = "nil"
  PROVE  u.ret = "nil" /\ Goes(v, u, E, <<Ended(c)>>)
<1>1. u.ret = "nil" /\ Fit(v) /\ IsStack(E) /\ Reading(v, E)
  BY EndSucceeds DEF Starts, Waiting
<1>2. Plain(u, Append(E, Ended(c))) /\ SameTable(u, v) /\ v.ctx # << >>
  BY <1>1, EndRead
<1>3. v.wroteLST /\ WithTable(v, E) = E
  BY <1>2 DEF Starts, WithTable
<1>4. Append(E, Ended(c)) = E \o <<Ended(c)>>
  BY <1>1, AppendOne
<1>5. Waiting(u, E \o <<Ended(c)>>)
  BY <1>2, <1>4, PlainWaits
<1>6. Waiting(u, WithTable(v, E) \o <<Ended(c)>>)
  BY <1>3, <1>5
<1> QED BY <1>1, <1>2, <1>3, <1>6 DEF Goes, SameTable

LEMMA FieldNameGoes ==
  ASSUME NEW v, NEW E, Starts(v, E), NEW tok, Known(tok),
         NEW u, u = FieldName(v, tok), u.err = "nil"
  PROVE  u.ret = "nil" /\ Goes(v, u, E, << >>)
<1>1. v.err = "nil" /\ Fields \subseteq DOMAIN v /\ Fit(v)
  BY DEF Starts, Waiting, Fit, Loose
<1>2. Fit(u)
  BY <1>1, FieldNameFit
<1>3. InStruct(v)
  <2>1. ~InStruct(v) => u = Store(Return(v, "usage"))
    BY <1>1 DEF FieldName
  <2>2. Store(Return(v, "usage")).err = "usage"
    BY <1>1 DEF Store, Return, Fields
  <2> QED BY <2>1, <2>2
<1>4. /\ u.fieldName = tok /\ u.annotations = v.annotations /\ u.ctx = v.ctx /\ u.out = v.out
      /\ u.ret = "nil" /\ u.err = "nil" /\ u.needsSeparator = v.needsSeparator /\ SameTable(u, v)
  BY <1>1, <1>3 DEF FieldName, Fields, SameTable
<1>5. Waiting(u, E)
  BY <1>2, <1>4 DEF Starts, Waiting, Reading, ReadsAs, Place
<1> QED BY <1>4, <1>5 DEF Goes, SameTable

LEMMA AnnotationsGoes ==
  ASSUME NEW v, NEW E, Starts(v, E), NEW tok, Known(tok),
         NEW u, u = Annotations(v, <<tok>>)
  PROVE  u.ret = "nil" /\ Goes(v, u, E, << >>)
<1>1. v.err = "nil" /\ Fields \subseteq DOMAIN v /\ Fit(v) /\ KnownMarks(v.annotations)
  BY DEF Starts, Waiting, Fit, Loose
<1>2. Fit(u)
  BY <1>1, Tuples, AnnotationsFit
<1>3. /\ u.fieldName = v.fieldName /\ u.annotations = v.annotations \o <<tok>> /\ u.ctx = v.ctx
      /\ u.out = v.out /\ u.ret = "nil" /\ u.err = "nil" /\ u.needsSeparator = v.needsSeparator
      /\ SameTable(u, v)
  BY <1>1 DEF Annotations, Fields, SameTable
<1>4. KnownMarks(v.annotations \o <<tok>>)
  <2> DEFINE K == {x \in {v.annotations[i] : i \in 1 .. Len(v.annotations)} \cup {tok} : Known(x)}
  <2>1. ListOf(v.annotations, K)
    BY <1>1 DEF KnownMarks, ListOf
  <2>2. ListOf(<<tok>>, K)
    <3>1. Len(<<tok>>) = 1 /\ <<tok>>[1] = tok /\ tok \in K
      OBVIOUS
    <3> HIDE DEF K
    <3> QED BY <3>1, Tuples DEF ListOf
  <2>3. \A x \in K : Known(x)
    OBVIOUS
  <2> HIDE DEF K
  <2>4. ListOf(v.annotations \o <<tok>>, K)
    BY <2>1, <2>2, ListConcat
  <2> QED BY <2>3, <2>4 DEF ListOf, KnownMarks
<1>5. Waiting(u, E)
  BY <1>2, <1>3, <1>4 DEF Starts, Waiting, Reading, ReadsAs, Place
<1> QED BY <1>3, <1>5 DEF Goes, SameTable

\* The new line ends the last value of a datagram.
LEMMA FinishGoes ==
  ASSUME NEW v, NEW E, Starts(v, E), NEW u, u = Finish(v), u.err = "nil", u.ret # "io"
  PROVE  Goes(v, u, E, << >>)
<1>1. v.err = "nil" /\ Fields \subseteq DOMAIN v /\ Fit(v) /\ Loose(v) /\ Waiting(v, E) /\ Reading(v, E)
  BY DEF Starts, Waiting, Fit, Loose
<1>2. Fit(u)
  BY <1>1, FinishFit
<1>3. CASE v.ctx # << >>
  <2>1. u = Return(v, "usage")
    BY <1>1, <1>3 DEF Finish
  <2>2. /\ u.fieldName = v.fieldName /\ u.annotations = v.annotations /\ u.ctx = v.ctx
        /\ u.out = v.out /\ u.needsSeparator = v.needsSeparator /\ SameTable(u, v)
    BY <1>1, <2>1 DEF Return, Fields, SameTable
  <2>3. Waiting(u, E)
    BY <1>1, <1>2, <2>2 DEF Waiting, Reading, ReadsAs, Place
  <2> QED BY <2>2, <2>3 DEF Goes, SameTable
<1>4. CASE v.ctx = << >> /\ (v.emptyStream \/ v.quiet)
  <2>1. u = Clear(Return(v, "nil"))
    BY <1>1, <1>4 DEF Finish
  <2>2. /\ u.fieldName = NoName /\ u.annotations = << >> /\ u.ctx = v.ctx
        /\ u.out = v.out /\ u.needsSeparator = v.needsSeparator /\ SameTable(u, v)
    BY <1>1, <2>1 DEF Return, Clear, Fields, SameTable
  <2>3. Plain(u, E)
    BY <1>1, <1>2, <2>2 DEF Waiting, Plain, Reading, ReadsAs, Place
  <2> QED BY <2>2, <2>3, PlainWaits DEF Goes, SameTable
<1>5. CASE v.ctx = << >> /\ ~v.emptyStream /\ ~v.quiet
  <2> DEFINE v1 == EmitTo(v, <<Newline>>)
             v2 == Clear(v1)
             v3 == [v2 EXCEPT !.needsSeparator = FALSE, !.emptyStream = TRUE]
  <2>1. u = IF v1.ret # "nil" THEN Store(v1) ELSE v3
    BY <1>1, <1>5 DEF Finish
  <2>2. Fit(v1)
    BY <1>1, Tuples, EmitFit
  <2> HIDE DEF v1
  <2>3. v1.ret = "nil" /\ u = v3
    BY <2>1, <2>2, StoreFit
  <2>4. Alike(v1, v) /\ Read(v1.out) = ReadOn(Read(v.out), <<Newline>>)
    BY <1>1, <2>3, Tuples, EmitRead DEF v1
  <2>5. /\ u.fieldName = NoName /\ u.annotations = << >> /\ u.ctx = v.ctx
        /\ u.out = v1.out /\ ~u.needsSeparator /\ SameTable(u, v)
    BY <2>2, <2>3, <2>4 DEF Clear, Fit, Loose, Fields, SameTable, Alike
  <2>6. Read(u.out) = Reader(E, v.ctx, "value", Nothing)
    <3>1. StepNext(Read(v.out), Newline) = Reader(E, v.ctx, Spaced(v.ctx, Place(v)), Nothing)
      BY <1>1, SpaceStep DEF Reading, ReadsAs, Newline
    <3>2. Spaced(v.ctx, Place(v)) = "value"
      BY <1>5 DEF Spaced, Place, FirstIn, Inner
    <3> QED BY <2>4, <2>5, <3>1, <3>2, ReadOnOne
  <2>7. Place(u) = "value"
    BY <1>5, <2>5 DEF Place, FirstIn, Inner
  <2>8. Stands(Read(u.out), E, u.ctx, Place(u))
    BY <2>5, <2>6, <2>7, ReaderStands
  <2>9. Read(u.out).name = Nothing
    BY <2>6 DEF Reader
  <2>10. Plain(u, E)
    BY <1>1, <1>2, <2>5, <2>8, <2>9 DEF Waiting, Plain, Reading, ReadsAs
  <2> QED BY <2>5, <2>10, PlainWaits DEF Goes, SameTable
<1> QED BY <1>3, <1>4, <1>5
-----------------------------------------------------------------------------
(***************************************************************************)
(* What was written is read.                                               *)
(***************************************************************************)
ReadFit == IsStack(said) /\ (kept /\ w.err = "nil" => Starts(w, Expected))

LEMMA InitReads == Init => ReadFit
<1> SUFFICES ASSUME Init
             PROVE  ReadFit
  OBVIOUS
<1>1. Fit(w)
  BY InitFit DEF WriterFit
<1>2. /\ w.out = << >> /\ w.ctx = << >> /\ ~w.needsSeparator /\ ~w.wroteLST
      /\ w.fieldName = NoName /\ w.annotations = << >> /\ w.err = "nil" /\ said = << >>
  BY DEF Init, NewTextWriter
<1>3. IsStack(said) /\ Expected = << >>
  BY <1>2, Tuples, ConcatNothing DEF Expected
<1>4. Read(w.out) = Reader(<< >>, << >>, "value", Nothing)
  BY <1>2, ReadIsReadOn, ReadOnOne DEF Start, Reader
<1>5. Place(w) = "value"
  BY <1>2 DEF Place, FirstIn, Inner
<1>6. Stands(Read(w.out), << >>, w.ctx, Place(w)) /\ Read(w.out).name = Nothing
  <2>1. Reader(<< >>, << >>, "value", Nothing).name = Nothing
    BY DEF Reader
  <2> QED BY <1>2, <1>4, <1>5, <2>1, ReaderStands
<1>7. Plain(w, << >>)
  BY <1>1, <1>2, <1>6, Tuples DEF Plain, Reading, ReadsAs
<1>8. Starts(w, Expected)
  BY <1>2, <1>3, <1>7, PlainWaits DEF Starts
<1> QED BY <1>3, <1>8 DEF ReadFit

\* A call that goes well keeps the invariant.
LEMMA CallReads ==
  ASSUME WriterFit, ReadFit, NEW u, NEW events, IsStack(events), Call(u, events),
         w.err # "nil" => u.err # "nil",
         Starts(w, Expected) /\ u.err = "nil" /\ u.ret # "io" =>
           Goes(w, u, Expected, events) /\ (u.ret = "nil" \/ events = << >>)
  PROVE  ReadFit'
<1>1. /\ w' = u /\ said' \in {said \o events, said} /\ (u.ret = "nil" => said' = said \o events)
      /\ kept' => kept /\ (u.ret = "io" => u.err = "io")
  BY DEF Call
<1>2. IsStack(said) /\ IsStack(said')
  BY <1>1, StackConcat DEF ReadFit
<1>3. ASSUME kept', w'.err = "nil"
      PROVE  Starts(w', Expected')
  <2>1. kept /\ w.err = "nil" /\ u.err = "nil" /\ u.ret # "io"
    BY <1>1, <1>3
  <2>2. Starts(w, Expected)
    BY <2>1 DEF ReadFit
  <2>3. Goes(w, u, Expected, events) /\ (u.ret = "nil" \/ events = << >>)
    BY <2>1, <2>2
  <2>4. said' = said \o events
    BY <1>1, <1>2, <2>3, ConcatNothing
  <2>5. Expected' = (IF u.wroteLST THEN TableCalls(u.tbl) ELSE << >>) \o (said \o events)
    BY <1>1, <2>4 DEF Expected
  <2>6. u.tbl = w.tbl /\ IsStack(TableCalls(w.tbl))
    BY <2>2, <2>3, TableCallsProper DEF Goes, Starts, Waiting, Fit, Loose, ProperCalls
  <2>7. CASE u.wroteLST /\ Waiting(u, WithTable(w, Expected) \o events)
    <3>1. WithTable(w, Expected) = TableCalls(w.tbl) \o said
      <4>1. CASE w.wroteLST
        BY <4>1 DEF WithTable, Expected
      <4>2. CASE ~w.wroteLST
        <5>1. Expected = << >> \o said
          BY <4>2 DEF Expected
        <5>2. said = << >>
          BY <1>2, <2>2, <4>2, <5>1, ConcatNothing DEF Starts
        <5> QED BY <2>6, <4>2, <5>2, ConcatNothing DEF WithTable
      <4> QED BY <4>1, <4>2
    <3> DEFINE T == TableCalls(w.tbl)
    <3> HIDE DEF T
    <3>2. (T \o said) \o events = T \o (said \o events)
      BY <1>2, <2>6, ConcatTwice DEF T
    <3>3. Expected' = T \o (said \o events)
      BY <2>5, <2>6, <2>7 DEF T
    <3>4. Waiting(u, Expected')
      BY <2>7, <3>1, <3>2, <3>3, Zenon DEF T
    <3> QED BY <1>1, <2>7, <3>4 DEF Starts
  <2>8. CASE events = << >> /\ Waiting(u, Expected) /\ u.ctx = w.ctx /\ u.wroteLST = w.wroteLST
    <3>1. said \o events = said
      BY <1>2, <2>8, ConcatNothing
    <3>2. Expected' = Expected
      BY <2>5, <2>6, <2>8, <3>1 DEF Expected
    <3> QED BY <1>1, <2>2, <2>8, <3>2 DEF Starts
  <2> QED BY <2>3, <2>7, <2>8 DEF Goes
<1> QED BY <1>2, <1>3 DEF ReadFit

\* The events of what stands in front of a value are those that the caller meant.
LEMMA EventsOf ==
  ASSUME WriterFit, NEW event
  PROVE  Prefix = Pending(w) /\ IsStack(Append(Prefix, event))
<1>1. Prefix = Pending(w)
  BY DEF Prefix, Pending, InFront, AllMarks, NamedBy, MarkedBy
<1>2. IsStack(w.annotations)
  BY DEF WriterFit, Fit, Loose
<1>3. IsStack(AllMarks(w.annotations))
  BY <1>2, StackLen, FunctionList DEF AllMarks
<1>4. IsStack(Pending(w))
  <2> DEFINE front == IF InStruct(w) THEN <<NamedBy(w.fieldName)>> ELSE << >>
  <2>1. IsStack(front)
    BY Tuples
  <2> QED BY <1>3, <2>1, StackConcat DEF Pending, InFront
<1> QED BY <1>1, <1>4, StackPushed

LEMMA NextReads ==
  ASSUME WriterFit, ReadFit, Next
  PROVE  ReadFit'
<1>1. Fit(w) /\ (w.err # "nil" => Return(w, w.err).err # "nil")
  BY ReturnFit DEF WriterFit, Fit, Loose
<1>2. CASE CallFieldName
  <2>1. PICK n \in Names : Call(FieldName(w, n), << >>)
    BY <1>2 DEF CallFieldName
  <2>2. Known(n)
    BY TokensAssumption DEF Known
  <2> DEFINE u == FieldName(w, n)
  <2>3. w.err # "nil" => u = Return(w, w.err)
    BY DEF FieldName
  <2>4. Call(u, << >>)
    BY <2>1
  <2>5. Starts(w, Expected) /\ u.err = "nil" => u.ret = "nil" /\ Goes(w, u, Expected, << >>)
    BY <2>2, FieldNameGoes
  <2> HIDE DEF u
  <2> QED BY <1>1, <2>3, <2>4, <2>5, Tuples, CallReads
<1>3. CASE CallAnnotations
  <2>1. PICK m \in Marks : Call(Annotations(w, <<m>>), << >>)
    BY <1>3 DEF CallAnnotations
  <2>2. Known(m)
    BY TokensAssumption DEF Known
  <2> DEFINE u == Annotations(w, <<m>>)
  <2>3. w.err # "nil" => u = Return(w, w.err)
    BY DEF Annotations
  <2>4. Call(u, << >>)
    BY <2>1
  <2>5. Starts(w, Expected) => u.ret = "nil" /\ Goes(w, u, Expected, << >>)
    BY <2>2, AnnotationsGoes
  <2> HIDE DEF u
  <2> QED BY <1>1, <2>3, <2>4, <2>5, Tuples, CallReads
<1>4. CASE CallScalar
  <2>1. PICK l \in Scalars : Call(WriteLexeme(w, l), Append(Prefix, Scalar(l)))
    BY <1>4 DEF CallScalar
  <2>2. IsScalar(l)
    BY ScalarsAssumption DEF IsScalar
  <2> DEFINE u      == WriteLexeme(w, l)
             events == Append(Prefix, Scalar(l))
  <2>3. w.err # "nil" => u = Return(w, w.err)
    BY DEF WriteLexeme
  <2>4. Call(u, events) /\ IsStack(events)
    BY <2>1, EventsOf
  <2>5. Starts(w, Expected) /\ u.err = "nil" /\ u.ret # "io" =>
          u.ret = "nil" /\ Goes(w, u, Expected, events)
    BY <2>2, ScalarGoes, EventsOf
  <2> HIDE DEF u, events
  <2> QED BY <1>1, <2>3, <2>4, <2>5, CallReads
<1>5. CASE CallSymbol
  <2>1. PICK t \in Symbols :
          Call(WriteSymbol(w, t), Append(Prefix, [e |-> "symbol", name |-> Meant(t)]))
    BY <1>5 DEF CallSymbol
  <2>2. Known(t)
    BY TokensAssumption DEF Known
  <2> DEFINE u      == WriteSymbol(w, t)
             events == Append(Prefix, [e |-> "symbol", name |-> Meant(t)])
  <2>3. w.err # "nil" => u = Return(w, w.err)
    BY DEF WriteSymbol
  <2>4. Call(u, events) /\ IsStack(events)
    BY <2>1, EventsOf
  <2>5. Starts(w, Expected) /\ u.err = "nil" /\ u.ret # "io" =>
          u.ret = "nil" /\ Goes(w, u, Expected, events)
    BY <2>2, SymbolGoes, EventsOf
  <2> HIDE DEF u, events
  <2> QED BY <1>1, <2>3, <2>4, <2>5, CallReads
<1>6. CASE CallSymbolFromString
  <2>1. PICK s \in Strings :
          Call(WriteSymbolFromString(w, s), Append(Prefix, [e |-> "symbol", name |-> MeantString(s)]))
    BY <1>6 DEF CallSymbolFromString
  <2> DEFINE u      == WriteSymbolFromString(w, s)
             events == Append(Prefix, [e |-> "symbol", name |-> MeantString(s)])
  <2>2. w.err # "nil" => u = Return(w, w.err)
    BY DEF WriteSymbolFromString, WriteLexeme
  <2>3. Call(u, events) /\ IsStack(events)
    BY <2>1, EventsOf
  <2>4. Starts(w, Expected) /\ u.err = "nil" /\ u.ret # "io" =>
          u.ret = "nil" /\ Goes(w, u, Expected, events)
    BY StringGoes, EventsOf
  <2> HIDE DEF u, events
  <2> QED BY <1>1, <2>2, <2>3, <2>4, CallReads
<1>7. CASE CallBegin
  <2>1. PICK c \in Kinds : Call(Begin(w, c), Append(Prefix, Begun(c)))
    BY <1>7 DEF CallBegin
  <2>2. c \in Contexts
    BY KindsAssumption
  <2> DEFINE u      == Begin(w, c)
             events == Append(Prefix, Begun(c))
  <2>3. w.err # "nil" => u = Return(w, w.err)
    BY DEF Begin
  <2>4. Call(u, events) /\ IsStack(events)
    BY <2>1, EventsOf
  <2>5. Starts(w, Expected) /\ u.err = "nil" /\ u.ret # "io" =>
          u.ret = "nil" /\ Goes(w, u, Expected, events)
    BY <2>2, BeginGoes, EventsOf
  <2> HIDE DEF u, events
  <2> QED BY <1>1, <2>3, <2>4, <2>5, CallReads
<1>8. CASE CallEnd
  <2>1. PICK c \in Kinds : Call(End(w, c), <<Ended(c)>>)
    BY <1>8 DEF CallEnd
  <2> DEFINE u      == End(w, c)
             events == <<Ended(c)>>
  <2>2. w.err # "nil" => u = Return(w, w.err)
    BY DEF End
  <2>3. Call(u, events) /\ IsStack(events)
    BY <2>1, Tuples
  <2>4. Starts(w, Expected) /\ u.err = "nil" => u.ret = "nil" /\ Goes(w, u, Expected, events)
    BY EndGoes
  <2> HIDE DEF u, events
  <2> QED BY <1>1, <2>2, <2>3, <2>4, CallReads
<1>9. CASE CallFinish
  <2> DEFINE u == Finish(w)
  <2>1. w.err # "nil" => u = Return(w, w.err)
    BY DEF Finish
  <2>2. Call(u, << >>)
    BY <1>9 DEF CallFinish
  <2>3. Starts(w, Expected) /\ u.err = "nil" /\ u.ret # "io" => Goes(w, u, Expected, << >>)
    BY FinishGoes
  <2> HIDE DEF u
  <2> QED BY <1>1, <2>1, <2>2, <2>3, Tuples, CallReads
<1> QED BY <1>2, <1>3, <1>4, <1>5, <1>6, <1>7, <1>8, <1>9 DEF Next

LEMMA ReadFitStep == WriterFit /\ ReadFit /\ [Next]_vars => ReadFit'
<1>1. CASE UNCHANGED vars
  <2> SUFFICES ASSUME ReadFit
               PROVE  ReadFit'
    BY <1>1
  <2>1. w' = w /\ said' = said /\ kept' = kept
    BY <1>1 DEF vars
  <2>2. Expected' = Expected
    BY <2>1 DEF Expected
  <2> QED BY <2>1, <2>2 DEF ReadFit
<1> QED BY <1>1, NextReads

\* Whatever the caller writes, in whatever order, and whatever was refused or went wrong
\* before: as long as no error is stored or was forgotten, the output reads, by the grammar
\* of Ion text, as the table of the imports and what was written, and the containers that
\* are open in it are those of the writer (textwriter.go:303-480).
THEOREM TextOutputIsRead == Spec => []WrittenIsRead
<1>1. ReadFit => WrittenIsRead
  <2> SUFFICES ASSUME ReadFit, w.err = "nil", kept
               PROVE  LET d == Decode(w.out)
                      IN  d.ok /\ d.inside = Nothing /\ d.events = Expected /\ d.open = w.ctx
    BY DEF WrittenIsRead
  <2>1. Reading(w, Expected)
    BY DEF ReadFit, Starts, Waiting
  <2>2. Decode(w.out) = Reader(Expected, w.ctx, Place(w), Nothing)
    BY <2>1 DEF Reading, ReadsAs, Stands, Decode
  <2> QED BY <2>2 DEF Reader
<1> QED BY <1>1, InitFit, InitReads, WriterFitStep, ReadFitStep, PTL DEF Spec
-----------------------------------------------------------------------------
(***************************************************************************)
(* How far a method came.                                                  *)
(***************************************************************************)
\* The table, or what came of it.
LEMMA WriteTableOutcome ==
  ASSUME NEW v, NEW E, Plain(v, E), ~v.wroteLST => E = << >> /\ v.ctx = << >>,
         NEW u, u = WriteTable(v)
  PROVE  Told(u.out, WithTable(v, E)) /\ u.tbl = v.tbl /\ u.wroteLST /\ IsStack(WithTable(v, E))
<1>1. CASE v.wroteLST
  <2>1. u = v /\ WithTable(v, E) = E
    BY <1>1 DEF WriteTable, WithTable
  <2> QED BY <1>1, <2>1, PlainOutcome DEF Outcome
<1>2. CASE ~v.wroteLST
  <2> DEFINE v1 == [v EXCEPT !.wroteLST = TRUE]
  <2>1. E = << >> /\ v.ctx = << >> /\ u = RunCalls(v1, TableCalls(v.tbl))
    BY <1>2 DEF WriteTable
  <2>2. Fit(v) /\ Fields \subseteq DOMAIN v
    BY DEF Plain, Fit, Loose
  <2>3. /\ v1.wroteLST /\ v1.tbl = v.tbl /\ v1.ctx = v.ctx /\ v1.out = v.out /\ v1.err = v.err
        /\ v1.needsSeparator = v.needsSeparator
        /\ v1.fieldName = v.fieldName /\ v1.annotations = v.annotations
    BY <2>2 DEF Fields
  <2>4. Fit(v1)
    BY <2>2 DEF Fit, Loose, Fields
  <2> HIDE DEF v1
  <2>5. Plain(v1, E)
    BY <2>3, <2>4 DEF Plain, Reading, ReadsAs, Place
  <2>6. v.tbl \in {NewBuilder(<< >>), NewBuilder(Imports)}
    BY <2>2 DEF Fit, Loose
  <2>7. Outcome(v1, E, v1, << >>)
    BY <2>1, <2>3, <2>5, PlainOutcome
  <2>8. Outcome(u, E \o TableCalls(v.tbl), v1, << >>)
    BY <2>1, <2>6, <2>7, TableOutcome
  <2>9. IsStack(TableCalls(v.tbl))
    BY <2>6, TableCallsProper DEF ProperCalls
  <2>10. E \o TableCalls(v.tbl) = TableCalls(v.tbl)
    BY <2>1, <2>9, ConcatNothing
  <2>11. Outcome(u, TableCalls(v.tbl), v1, << >>)
    BY <2>8, <2>10, Zenon
  <2> QED BY <1>2, <2>3, <2>9, <2>11 DEF WithTable, Outcome, SameTable
<1> QED BY <1>1, <1>2

\* What stands in front of a value was to be written, behind the table.
LEMMA BeginValueAttempted ==
  ASSUME NEW v, NEW E, Starts(v, E), NEW u, u = BeginValue(v)
  PROVE  Attempted(u, WithTable(v, E) \o Pending(v)) /\ u.tbl = v.tbl /\ u.wroteLST
<1> DEFINE v1 == Return(Clear(v), "nil")
           v2 == WriteTable(v1)
           D  == WithTable(v, E)
           P  == Pending(v)
<1>1. u = BeginRest(v2, v.fieldName, v.annotations)
  BY DEF BeginValue
<1>2. Fit(u)
  BY BeginValueFit DEF Starts, Waiting
<1>3. Plain(v1, E) /\ v1.ctx = v.ctx /\ SameTable(v1, v)
  <2> DEFINE c == Clear(v)
  <2>1. Plain(c, E) /\ c.ctx = v.ctx /\ SameTable(c, v)
    BY ClearedPlain DEF Starts, Waiting
  <2> HIDE DEF c
  <2>2. /\ c.fieldName = NoName /\ c.annotations = << >> => Plain(Return(c, "nil"), E)
        /\ Return(c, "nil").ctx = c.ctx /\ SameTable(Return(c, "nil"), c)
    BY <2>1, ClearedPlain DEF Plain
  <2>3. Plain(Return(c, "nil"), E)
    BY <2>1, <2>2 DEF Plain
  <2> QED BY <2>1, <2>2, <2>3 DEF SameTable, c
<1> HIDE DEF v1
<1>4. WithTable(v1, E) = D
  BY <1>3 DEF WithTable, SameTable
<1> HIDE DEF D
<1>5. Told(v2.out, D) /\ v2.tbl = v.tbl /\ v2.wroteLST /\ IsStack(D)
  BY <1>3, <1>4, WriteTableOutcome DEF Starts, SameTable
<1>6. v2.ret = "nil" => Plain(v2, D) /\ v2.ctx = v.ctx
  BY <1>3, <1>4, WriteTableRead DEF Starts, SameTable
<1> HIDE DEF v2
<1>7. IsStack(P) /\ IsStack(D \o P)
  BY <1>5, PendingList, StackConcat DEF Starts
<1>8. u.ret = "nil" => \E at : Fronted(u, D \o P, at)
  BY BeginValueRead DEF D
<1>9. Told(u.out, D \o P) /\ u.tbl = v.tbl /\ u.wroteLST
  <2>1. CASE v2.ret = "nil"
    <3>1. InFront(v2, v.fieldName, v.annotations) = P
      BY <1>6, <2>1 DEF InFront, InStruct, Pending
    <3> HIDE DEF P
    <3>2. Told(u.out, D \o P) /\ Alike(u, v2)
      BY <1>1, <1>6, <2>1, <3>1, BeginRestTold DEF Plain, Starts, Waiting
    <3> QED BY <1>5, <3>2 DEF Alike
  <2>2. CASE v2.ret # "nil"
    <3>1. LayNext(v2) = v2 /\ NameNext(v2, v.fieldName) = v2 /\ MarkNext(v2, v.annotations) = v2
      BY <2>2 DEF LayNext, NameNext, MarkNext
    <3>2. u = v2
      BY <1>1, <3>1 DEF BeginRest
    <3> HIDE DEF P
    <3>3. Told(u.out, D \o P)
      <4>1. Leads(D, D \o P)
        BY <1>7, Zenon DEF Leads
      <4> QED BY <1>5, <3>2, <4>1, ToldMore
    <3> QED BY <1>5, <3>2, <3>3
  <2> QED BY <2>1, <2>2
<1> QED BY <1>2, <1>7, <1>8, <1>9 DEF Attempted, D

\* The call has written the events, or a beginning of them.
Falls(v, u, E, events) ==
  /\ u.tbl = v.tbl /\ (v.wroteLST => u.wroteLST)
  /\ Told(u.out, (IF u.wroteLST THEN WithTable(v, E) ELSE E) \o events)

\* What a method adds behind beginValue.
LEMMA BehindFalls ==
  ASSUME NEW v, NEW E, Starts(v, E), NEW event, NEW v1, v1.tbl = v.tbl, v1.wroteLST,
         NEW u, SameTable(u, v1), Told(u.out, Append(WithTable(v, E) \o Pending(v), event))
  PROVE  Falls(v, u, E, Append(Pending(v), event))
<1> DEFINE events == Append(Pending(v), event)
           D      == WithTable(v, E)
<1>1. Append(D \o Pending(v), event) = D \o events
  BY EventsList
<1>2. Told(u.out, D \o events)
  BY <1>1, Zenon
<1> HIDE DEF D, events
<1>3. u.tbl = v.tbl /\ u.wroteLST
  BY DEF SameTable
<1>4. Falls(v, u, E, events)
  BY <1>2, <1>3 DEF Falls, D
<1> QED BY <1>4 DEF events

LEMMA ScalarFalls ==
  ASSUME NEW v, NEW E, Starts(v, E), NEW l, IsScalar(l), NEW u, u = WriteLexeme(v, l)
  PROVE  Falls(v, u, E, Append(Pending(v), Scalar(l)))
<1> DEFINE v1 == BeginValue(v)
           D  == WithTable(v, E) \o Pending(v)
<1>1. u = PutLexeme(v1, l)
  BY DEF WriteLexeme, Starts, Waiting
<1>2. Attempted(v1, D) /\ v1.tbl = v.tbl /\ v1.wroteLST
  BY BeginValueAttempted
<1> HIDE DEF v1, D
<1>3. Told(u.out, Append(D, Scalar(l))) /\ SameTable(u, v1)
  BY <1>1, <1>2, ScalarTold
<1> QED BY <1>2, <1>3, BehindFalls DEF D

LEMMA NameFalls ==
  ASSUME NEW v, NEW E, Starts(v, E), NEW l, IsName(l), NEW u, u = PutLexeme(BeginValue(v), l)
  PROVE  Falls(v, u, E, Append(Pending(v), [e |-> "symbol", name |-> NameOf(l)]))
<1> DEFINE v1 == BeginValue(v)
           D  == WithTable(v, E) \o Pending(v)
           event == [e |-> "symbol", name |-> NameOf(l)]
<1>1. u = PutLexeme(v1, l)
  OBVIOUS
<1>2. Attempted(v1, D) /\ v1.tbl = v.tbl /\ v1.wroteLST
  BY BeginValueAttempted
<1> HIDE DEF v1, D
<1>3. Told(u.out, Append(D, event)) /\ SameTable(u, v1)
  BY <1>1, <1>2, NameTold
<1> HIDE DEF event
<1>4. Falls(v, u, E, Append(Pending(v), event))
  BY <1>2, <1>3, BehindFalls DEF D
<1> QED BY <1>4 DEF event

LEMMA SymbolFalls ==
  ASSUME NEW v, NEW E, Starts(v, E), NEW tok, Known(tok), NEW u, u = WriteSymbol(v, tok)
  PROVE  Falls(v, u, E, Append(Pending(v), [e |-> "symbol", name |-> Meant(tok)]))
<1>1. v.err = "nil" /\ Fit(v)
  BY DEF Starts, Waiting
<1>2. CASE Valid(tok)
  <2> DEFINE l == SymbolLexeme(tok)
  <2>1. u = PutLexeme(BeginValue(v), l)
    BY <1>1, <1>2 DEF WriteSymbol
  <2>2. IsName(l) /\ NameOf(l) = Meant(tok)
    BY <1>2, SymbolIsName
  <2> HIDE DEF l
  <2>3. Falls(v, u, E, Append(Pending(v), [e |-> "symbol", name |-> NameOf(l)]))
    BY <2>1, <2>2, NameFalls
  <2> QED BY <2>2, <2>3
<1>3. CASE ~Valid(tok)
  <2> DEFINE v1 == BeginValue(v)
             v2 == IF v1.ret = "nil" THEN Return(v1, "usage") ELSE v1
             D  == WithTable(v, E) \o Pending(v)
             event == [e |-> "symbol", name |-> Meant(tok)]
  <2>1. u = Store(v2)
    BY <1>1, <1>3 DEF WriteSymbol
  <2>2. Attempted(v1, D) /\ v1.tbl = v.tbl /\ v1.wroteLST
    BY BeginValueAttempted
  <2> HIDE DEF v1, D, event
  <2>3. Fit(v2) /\ v2.out = v1.out /\ SameTable(v2, v1)
    <3>1. Fit(v1)
      BY <2>2 DEF Attempted
    <3>2. Fit(Return(v1, "usage")) /\ Return(v1, "usage").out = v1.out
      BY <3>1, ReturnFit DEF Errs
    <3>3. SameTable(Return(v1, "usage"), v1) /\ SameTable(v1, v1)
      BY <3>1 DEF Return, Fit, Loose, Fields, SameTable
    <3> QED BY <3>1, <3>2, <3>3
  <2> HIDE DEF v2
  <2>4. u.out = v1.out /\ SameTable(u, v1)
    BY <2>1, <2>3, StoreKeeps DEF SameTable
  <2>5. Told(u.out, Append(D, event))
    <3>1. Leads(D, Append(D, event))
      BY <2>2, LeadsItself DEF Attempted
    <3> QED BY <2>2, <2>4, <3>1, ToldMore DEF Attempted
  <2>6. Falls(v, u, E, Append(Pending(v), event))
    BY <2>2, <2>4, <2>5, BehindFalls DEF D
  <2> QED BY <2>6 DEF event
<1> QED BY <1>2, <1>3

LEMMA StringFalls ==
  ASSUME NEW v, NEW E, Starts(v, E), NEW s, NEW u, u = WriteSymbolFromString(v, s)
  PROVE  Falls(v, u, E, Append(Pending(v), [e |-> "symbol", name |-> MeantString(s)]))
<1> DEFINE l == Bare(s)
<1>1. u = PutLexeme(BeginValue(v), l)
  BY DEF WriteSymbolFromString, WriteLexeme, Starts, Waiting
<1>2. IsName(l) /\ NameOf(l) = MeantString(s)
  BY BareIsName
<1> HIDE DEF l
<1>3. Falls(v, u, E, Append(Pending(v), [e |-> "symbol", name |-> NameOf(l)]))
  BY <1>1, <1>2, NameFalls
<1> QED BY <1>2, <1>3

LEMMA BeginFalls ==
  ASSUME NEW v, NEW E, Starts(v, E), NEW c \in Contexts, NEW u, u = Begin(v, c)
  PROVE  Falls(v, u, E, Append(Pending(v), Begun(c)))
<1> DEFINE v1 == BeginValue(v)
           D  == WithTable(v, E) \o Pending(v)
<1>1. u = Enter(v1, c)
  BY DEF Begin, Starts, Waiting
<1>2. Attempted(v1, D) /\ v1.tbl = v.tbl /\ v1.wroteLST
  BY BeginValueAttempted
<1> HIDE DEF v1, D
<1>3. Told(u.out, Append(D, Begun(c))) /\ SameTable(u, v1)
  BY <1>1, <1>2, EnterTold
<1> QED BY <1>2, <1>3, BehindFalls DEF D

\* What leaves the table alone writes behind it, or writes nothing.
LEMMA SameFalls ==
  ASSUME NEW v, NEW E, Starts(v, E), NEW u, SameTable(u, v), NEW events, Told(u.out, E \o events)
  PROVE  Falls(v, u, E, events)
BY DEF Falls, SameTable, WithTable

LEMMA EndFalls ==
  ASSUME NEW v, NEW E, Starts(v, E), NEW c, NEW u, u = End(v, c)
  PROVE  Falls(v, u, E, <<Ended(c)>>)
<1>1. Fit(v) /\ v.err = "nil" /\ IsStack(E) /\ Reading(v, E)
  BY DEF Starts, Waiting
<1>2. Told(u.out, Append(E, Ended(c))) /\ SameTable(u, v)
  BY <1>1, EndTold
<1>3. Append(E, Ended(c)) = E \o <<Ended(c)>>
  BY <1>1, AppendOne
<1>4. Told(u.out, E \o <<Ended(c)>>)
  BY <1>2, <1>3, Zenon
<1> DEFINE events == <<Ended(c)>>
<1> HIDE DEF events
<1>5. Falls(v, u, E, events)
  BY <1>2, <1>4, SameFalls DEF events
<1> QED BY <1>5 DEF events

\* A method that writes nothing.
LEMMA QuietFalls ==
  ASSUME NEW v, NEW E, Starts(v, E), NEW u, SameTable(u, v), u.out = v.out
  PROVE  Falls(v, u, E, << >>)
<1>1. IsStack(E) /\ E \o << >> = E
  BY ConcatNothing DEF Starts, Waiting
<1>2. Told(v.out, E)
  BY ReadingTold DEF Starts, Waiting, Fit, Loose
<1> QED BY <1>1, <1>2, SameFalls

LEMMA FieldNameFalls ==
  ASSUME NEW v, NEW E, Starts(v, E), NEW tok, NEW u, u = FieldName(v, tok)
  PROVE  Falls(v, u, E, << >>)
<1>1. Fields \subseteq DOMAIN v
  BY DEF Starts, Waiting, Fit, Loose
<1>2. SameTable(u, v) /\ u.out = v.out
  BY <1>1 DEF FieldName, Return, Store, Fields, SameTable
<1> QED BY <1>2, QuietFalls

LEMMA AnnotationsFalls ==
  ASSUME NEW v, NEW E, Starts(v, E), NEW marks, NEW u, u = Annotations(v, marks)
  PROVE  Falls(v, u, E, << >>)
<1>1. Fields \subseteq DOMAIN v
  BY DEF Starts, Waiting, Fit, Loose
<1>2. SameTable(u, v) /\ u.out = v.out
  BY <1>1 DEF Annotations, Return, Fields, SameTable
<1> QED BY <1>2, QuietFalls

LEMMA FinishFalls ==
  ASSUME NEW v, NEW E, Starts(v, E), NEW u, u = Finish(v)
  PROVE  Falls(v, u, E, << >>)
<1>1. v.err = "nil" /\ Fields \subseteq DOMAIN v /\ Fit(v) /\ Loose(v) /\ IsStack(E) /\ Reading(v, E)
  BY DEF Starts, Waiting, Fit, Loose
<1>2. CASE v.ctx # << >> \/ v.emptyStream \/ v.quiet
  <2>1. u = Return(v, "usage") \/ u = Clear(Return(v, "nil"))
    BY <1>1, <1>2 DEF Finish
  <2>2. SameTable(u, v) /\ u.out = v.out
    BY <1>1, <2>1 DEF Return, Clear, Fields, SameTable
  <2> QED BY <2>2, QuietFalls
<1>3. CASE v.ctx = << >> /\ ~v.emptyStream /\ ~v.quiet
  <2> DEFINE v1 == EmitTo(v, <<Newline>>)
             v2 == Clear(v1)
             v3 == [v2 EXCEPT !.needsSeparator = FALSE, !.emptyStream = TRUE]
  <2>1. u = IF v1.ret # "nil" THEN Store(v1) ELSE v3
    BY <1>1, <1>3 DEF Finish
  <2>2. StepNext(Read(v.out), Newline) = Reader(E, v.ctx, Spaced(v.ctx, Place(v)), Nothing)
    BY <1>1, SpaceStep DEF Reading, ReadsAs, Newline
  <2>3. ReadOn(Read(v.out), <<Newline>>) = Reader(E, v.ctx, Spaced(v.ctx, Place(v)), Nothing)
    BY <2>2, ReadOnOne
  <2>4. IsStack(<<Newline>>)
    BY Tuples
  <2>5. Told(v1.out, E) /\ Alike(v1, v) /\ Loose(v1)
    <3> DEFINE atoms == <<Newline>>
    <3> HIDE DEF v1, atoms
    <3> QED BY <1>1, <2>3, <2>4, EmitReads DEF v1, atoms
  <2> HIDE DEF v1
  <2>6. u.out = v1.out /\ SameTable(u, v1)
    BY <2>1, <2>5 DEF Store, Clear, Loose, Fields, SameTable
  <2>7. SameTable(u, v) /\ Told(u.out, E)
    BY <2>5, <2>6 DEF Alike, SameTable
  <2>8. E \o << >> = E
    BY <1>1, ConcatNothing
  <2> QED BY <2>7, <2>8, SameFalls
<1> QED BY <1>2, <1>3
-----------------------------------------------------------------------------
(***************************************************************************)
(* Where it failed, what is whole of the output was to be written.         *)
(***************************************************************************)
PrefixFit == kept /\ w.err # "nil" => Told(w.out, Expected)

LEMMA BehindTable ==
  ASSUME IsStack(said), Starts(w, Expected)
  PROVE  IsStack(TableCalls(w.tbl)) /\ WithTable(w, Expected) = TableCalls(w.tbl) \o said
<1>1. IsStack(TableCalls(w.tbl))
  BY TableCallsProper DEF Starts, Waiting, Fit, Loose, ProperCalls
<1>2. CASE w.wroteLST
  BY <1>1, <1>2 DEF WithTable, Expected
<1>3. CASE ~w.wroteLST
  <2>1. Expected = << >> \o said
    BY <1>3 DEF Expected
  <2>2. said = << >>
    BY <1>3, <2>1, ConcatNothing DEF Starts
  <2> QED BY <1>1, <1>3, <2>2, ConcatNothing DEF WithTable
<1> QED BY <1>2, <1>3

LEMMA CallTells ==
  ASSUME WriterFit, ReadFit, PrefixFit, NEW u, NEW events, IsStack(events), Call(u, events),
         w.err # "nil" => u = Return(w, w.err),
         Starts(w, Expected) => Falls(w, u, Expected, events)
  PROVE  PrefixFit'
<1>1. /\ w' = u /\ said' = IF u.ret = "nil" \/ u.out # w.out THEN said \o events ELSE said
      /\ kept' => kept
  BY DEF Call
<1> SUFFICES ASSUME kept', w'.err # "nil"
             PROVE  Told(w'.out, Expected')
  BY DEF PrefixFit
<1>2. IsStack(said) /\ Fit(w)
  BY DEF ReadFit, WriterFit
<1>3. Expected' = (IF u.wroteLST THEN TableCalls(u.tbl) ELSE << >>) \o said'
  BY <1>1 DEF Expected
<1>4. CASE w.err # "nil"
  <2>1. u.out = w.out /\ u.ret = w.err /\ SameTable(u, w)
    BY <1>2, <1>4 DEF Return, Fit, Loose, Fields, SameTable
  <2>2. said' = said
    BY <1>1, <1>4, <2>1
  <2>3. Expected' = Expected
    BY <1>3, <2>1, <2>2 DEF Expected, SameTable
  <2> QED BY <1>1, <1>4, <2>1, <2>3 DEF PrefixFit
<1>5. CASE w.err = "nil"
  <2>1. Starts(w, Expected)
    BY <1>1, <1>5 DEF ReadFit
  <2> DEFINE T == TableCalls(w.tbl)
             S == WithTable(w, Expected)
  <2>2. u.tbl = w.tbl /\ (w.wroteLST => u.wroteLST)
        /\ Told(u.out, (IF u.wroteLST THEN S ELSE Expected) \o events)
    BY <2>1 DEF Falls
  <2>3. IsStack(T) /\ S = T \o said
    BY <1>2, <2>1, BehindTable
  <2> HIDE DEF S, T
  <2>4. Expected' = (IF u.wroteLST THEN T ELSE << >>) \o said'
    BY <1>3, <2>2 DEF T
  <2>5. IsStack(said') /\ IsStack(Expected')
    <3>1. IsStack(said')
      BY <1>1, <1>2, StackConcat
    <3>2. IsStack(<< >>)
      BY Tuples
    <3> QED BY <2>3, <2>4, <3>1, <3>2, StackConcat
  <2>6. CASE said' = said \o events
    <3>1. CASE u.wroteLST
      <4>1. (T \o said) \o events = T \o (said \o events)
        BY <1>2, <2>3, ConcatTwice
      <4>2. Expected' = T \o (said \o events)
        BY <2>4, <2>6, <3>1
      <4>3. Told(u.out, S \o events)
        BY <2>2, <3>1
      <4>4. Told(u.out, Expected')
        BY <2>3, <4>1, <4>2, <4>3, Zenon
      <4> QED BY <1>1, <4>4
    <3>2. CASE ~u.wroteLST
      <4>1. Expected = << >> \o said
        BY <2>2, <3>2 DEF Expected
      <4>2. (<< >> \o said) \o events = << >> \o (said \o events)
        <5>1. IsStack(<< >>)
          BY Tuples
        <5> QED BY <1>2, <5>1, ConcatTwice
      <4>3. Expected' = << >> \o (said \o events)
        BY <2>4, <2>6, <3>2
      <4>4. Told(u.out, Expected \o events)
        BY <2>2, <3>2
      <4>5. Told(u.out, Expected')
        BY <4>1, <4>2, <4>3, <4>4, Zenon
      <4> QED BY <1>1, <4>5
    <3> QED BY <3>1, <3>2
  <2>7. CASE said' = said /\ u.out = w.out
    <3>1. Told(w.out, Expected)
      BY <2>1, ReadingTold DEF Starts, Waiting, Fit, Loose
    <3>2. CASE w.wroteLST \/ ~u.wroteLST
      <4>1. Expected' = Expected
        BY <2>2, <2>4, <2>7, <3>2 DEF Expected, T
      <4> QED BY <1>1, <2>7, <3>1, <4>1
    <3>3. CASE ~w.wroteLST
      <4>1. Expected = << >>
        BY <2>1, <3>3 DEF Starts
      <4>2. Leads(<< >>, Expected')
        BY <2>5, LeadsItself
      <4> QED BY <1>1, <2>7, <3>1, <4>1, <4>2, ToldMore
    <3> QED BY <3>2, <3>3
  <2> QED BY <1>1, <2>6, <2>7
<1> QED BY <1>4, <1>5

LEMMA NextTells ==
  ASSUME WriterFit, ReadFit, PrefixFit, Next
  PROVE  PrefixFit'
<1>1. CASE CallFieldName
  <2>1. PICK n \in Names : Call(FieldName(w, n), << >>)
    BY <1>1 DEF CallFieldName
  <2> DEFINE u == FieldName(w, n)
  <2>2. w.err # "nil" => u = Return(w, w.err)
    BY DEF FieldName
  <2>3. Starts(w, Expected) => Falls(w, u, Expected, << >>)
    BY FieldNameFalls
  <2>4. Call(u, << >>)
    BY <2>1
  <2> HIDE DEF u
  <2> QED BY <2>2, <2>3, <2>4, Tuples, CallTells
<1>2. CASE CallAnnotations
  <2>1. PICK m \in Marks : Call(Annotations(w, <<m>>), << >>)
    BY <1>2 DEF CallAnnotations
  <2> DEFINE u == Annotations(w, <<m>>)
  <2>2. w.err # "nil" => u = Return(w, w.err)
    BY DEF Annotations
  <2>3. Starts(w, Expected) => Falls(w, u, Expected, << >>)
    <3> DEFINE marks == <<m>>
    <3> HIDE DEF marks
    <3>1. u = Annotations(w, marks)
      BY DEF marks
    <3> QED BY <3>1, AnnotationsFalls
  <2>4. Call(u, << >>)
    BY <2>1
  <2> HIDE DEF u
  <2> QED BY <2>2, <2>3, <2>4, Tuples, CallTells
<1>3. CASE CallScalar
  <2>1. PICK l \in Scalars : Call(WriteLexeme(w, l), Append(Prefix, Scalar(l)))
    BY <1>3 DEF CallScalar
  <2>2. IsScalar(l)
    BY ScalarsAssumption DEF IsScalar
  <2> DEFINE u      == WriteLexeme(w, l)
             events == Append(Prefix, Scalar(l))
  <2>3. w.err # "nil" => u = Return(w, w.err)
    BY DEF WriteLexeme
  <2>4. Call(u, events) /\ IsStack(events)
    BY <2>1, EventsOf
  <2>5. Starts(w, Expected) => Falls(w, u, Expected, events)
    BY <2>2, ScalarFalls, EventsOf
  <2> HIDE DEF u, events
  <2> QED BY <2>3, <2>4, <2>5, CallTells
<1>4. CASE CallSymbol
  <2>1. PICK t \in Symbols :
          Call(WriteSymbol(w, t), Append(Prefix, [e |-> "symbol", name |-> Meant(t)]))
    BY <1>4 DEF CallSymbol
  <2>2. Known(t)
    BY TokensAssumption DEF Known
  <2> DEFINE u      == WriteSymbol(w, t)
             events == Append(Prefix, [e |-> "symbol", name |-> Meant(t)])
  <2>3. w.err # "nil" => u = Return(w, w.err)
    BY DEF WriteSymbol
  <2>4. Call(u, events) /\ IsStack(events)
    BY <2>1, EventsOf
  <2>5. Starts(w, Expected) => Falls(w, u, Expected, events)
    BY <2>2, SymbolFalls, EventsOf
  <2> HIDE DEF u, events
  <2> QED BY <2>3, <2>4, <2>5, CallTells
<1>5. CASE CallSymbolFromString
  <2>1. PICK s \in Strings :
          Call(WriteSymbolFromString(w, s), Append(Prefix, [e |-> "symbol", name |-> MeantString(s)]))
    BY <1>5 DEF CallSymbolFromString
  <2> DEFINE u      == WriteSymbolFromString(w, s)
             events == Append(Prefix, [e |-> "symbol", name |-> MeantString(s)])
  <2>2. w.err # "nil" => u = Return(w, w.err)
    BY DEF WriteSymbolFromString, WriteLexeme
  <2>3. Call(u, events) /\ IsStack(events)
    BY <2>1, EventsOf
  <2>4. Starts(w, Expected) => Falls(w, u, Expected, events)
    BY StringFalls, EventsOf
  <2> HIDE DEF u, events
  <2> QED BY <2>2, <2>3, <2>4, CallTells
<1>6. CASE CallBegin
  <2>1. PICK c \in Kinds : Call(Begin(w, c), Append(Prefix, Begun(c)))
    BY <1>6 DEF CallBegin
  <2>2. c \in Contexts
    BY KindsAssumption
  <2> DEFINE u      == Begin(w, c)
             events == Append(Prefix, Begun(c))
  <2>3. w.err # "nil" => u = Return(w, w.err)
    BY DEF Begin
  <2>4. Call(u, events) /\ IsStack(events)
    BY <2>1, EventsOf
  <2>5. Starts(w, Expected) => Falls(w, u, Expected, events)
    BY <2>2, BeginFalls, EventsOf
  <2> HIDE DEF u, events
  <2> QED BY <2>3, <2>4, <2>5, CallTells
<1>7. CASE CallEnd
  <2>1. PICK c \in Kinds : Call(End(w, c), <<Ended(c)>>)
    BY <1>7 DEF CallEnd
  <2> DEFINE u      == End(w, c)
             events == <<Ended(c)>>
  <2>2. w.err # "nil" => u = Return(w, w.err)
    BY DEF End
  <2>3. Call(u, events) /\ IsStack(events)
    BY <2>1, Tuples
  <2>4. Starts(w, Expected) => Falls(w, u, Expected, events)
    BY EndFalls
  <2> HIDE DEF u, events
  <2> QED BY <2>2, <2>3, <2>4, CallTells
<1>8. CASE CallFinish
  <2> DEFINE u == Finish(w)
  <2>1. w.err # "nil" => u = Return(w, w.err)
    BY DEF Finish
  <2>2. Call(u, << >>)
    BY <1>8 DEF CallFinish
  <2>3. Starts(w, Expected) => Falls(w, u, Expected, << >>)
    BY FinishFalls
  <2> HIDE DEF u
  <2> QED BY <2>1, <2>2, <2>3, Tuples, CallTells
<1> QED BY <1>1, <1>2, <1>3, <1>4, <1>5, <1>6, <1>7, <1>8 DEF Next

LEMMA PrefixFitStep == WriterFit /\ ReadFit /\ PrefixFit /\ [Next]_vars => PrefixFit'
<1>1. CASE UNCHANGED vars
  <2> SUFFICES ASSUME PrefixFit
               PROVE  PrefixFit'
    BY <1>1
  <2>1. w' = w /\ said' = said /\ kept' = kept
    BY <1>1 DEF vars
  <2>2. Expected' = Expected
    BY <2>1 DEF Expected
  <2> QED BY <2>1, <2>2 DEF PrefixFit
<1> QED BY <1>1, NextTells

\* Whatever Write call fails, in the table, in the layout, in a name or in the middle of a
\* value, and whatever is refused for its usage after a part of it was written: as long as
\* the error was remembered, what is whole of the output reads, by the grammar of Ion text,
\* as the beginning of the table of the imports and of what was to be written
\* (textwriter.go:303-480).
THEOREM TextOutputLeads == Spec => []OutputIsPrefix
<1>1. Init => PrefixFit
  BY DEF Init, NewTextWriter, PrefixFit
<1>2. WriterFit /\ ReadFit /\ PrefixFit => OutputIsPrefix
  <2> SUFFICES ASSUME WriterFit, ReadFit, PrefixFit, kept
               PROVE  Begins(Read(Whole(w.out)))
    BY DEF OutputIsPrefix
  <2>1. Told(w.out, Expected)
    <3>1. CASE w.err = "nil"
      BY <3>1, ReadingTold DEF ReadFit, Starts, Waiting, Fit, Loose
    <3> QED BY <3>1 DEF PrefixFit
  <2> QED BY <2>1, LeadsIsPart DEF Told, Begins
<1> QED BY <1>1, <1>2, InitFit, InitReads, WriterFitStep, ReadFitStep, PrefixFitStep, PTL DEF Spec
-----------------------------------------------------------------------------
(***************************************************************************)
(* The lines of pretty output.  What is written behind a break and its     *)
(* tabs hangs on them: they must be as many as the containers open there.  *)
(* Neat holds between the calls; Neatly is what a method leaves behind;    *)
(* InFlight holds while the parts of a value are written.                  *)
(***************************************************************************)
Tab        == Space("\t")
IsBreak(a) == a.k \in {"space", "comma"} /\ a.ch = "\n"
IsBlank(a) == a = Tab \/ IsBreak(a)
IsInk(a)   == a.k \in {"part", "colon", "double_colon", "open", "close"}

\* How many containers are open behind the first i atoms.
Brackets(out, k, i) == {j \in 1 .. i : out[j].k = k}
OpenBehind(out, i)      == Cardinality(Brackets(out, "open", i)) - Cardinality(Brackets(out, "close", i))
OpenNow(out)         == OpenBehind(out, Len(out))

Tabbed(out, i, j) ==
  /\ \A m \in i + 1 .. j - 1 : out[m] = Tab
  /\ out[j].k # "torn" /\ out[j] # Tab /\ ~IsBreak(out[j])
  => j - i - 1 = OpenBehind(out, IF out[j].k = "close" THEN j ELSE j - 1)

Indents(out) == \A i \in 1 .. Len(out) : IsBreak(out[i]) => \A j \in i + 1 .. Len(out) : Tabbed(out, i, j)

\* If nothing but tabs stands behind the last break, they are n.
Hangs(out, n) ==
  \A i \in 1 .. Len(out) :
    IsBreak(out[i]) /\ (\A m \in i + 1 .. Len(out) : out[m] = Tab) => Len(out) - i = n

Solid(out) == \A n : Hangs(out, n)

LEMMA Atoms ==
  /\ IsBreak(Newline) /\ Newline # Tab /\ IsBreak(Comma("\n")) /\ Comma("\n") # Tab /\ ~IsBreak(Tab)
  /\ \A a : IsInk(a) => ~IsBlank(a)
<1>1. "\n" # "\t"
  BY Zenon
<1>2. /\ Newline.k = "space" /\ Newline.ch = "\n" /\ Comma("\n").k = "comma" /\ Comma("\n").ch = "\n"
      /\ Tab.k = "space" /\ Tab.ch = "\t"
  BY DEF Newline, Comma, Tab, Space
<1>3. \A a : IsInk(a) => a.k # "space" /\ a.k # "comma"
  BY DEF IsInk
<1> QED BY <1>1, <1>2, <1>3, Zenon DEF IsBreak, IsBlank

\* What stands in front does not depend on what comes behind.
LEMMA FrontOpen ==
  ASSUME NEW s, NEW a, IsStack(s), IsStack(a), NEW i \in 0 .. Len(s)
  PROVE  OpenBehind(s \o a, i) = OpenBehind(s, i)
<1>1. \A j \in 1 .. i : (s \o a)[j] = s[j]
  BY StackConcat, StackLen
<1>2. Brackets(s \o a, "open", i) = Brackets(s, "open", i) /\ Brackets(s \o a, "close", i) = Brackets(s, "close", i)
  BY <1>1 DEF Brackets
<1> QED BY <1>2, Zenon DEF OpenBehind

LEMMA FrontIndents ==
  ASSUME NEW s, NEW a, IsStack(s), IsStack(a), Indents(s \o a)
  PROVE  Indents(s)
<1> DEFINE t == s \o a
<1>1. PICK n \in Nat, m \in Nat : n = Len(s) /\ m = Len(a)
  BY StackLen
<1>2. Len(t) = n + m /\ \A i \in 1 .. n : t[i] = s[i]
  BY <1>1, StackConcat
<1>3. \A i \in 0 .. n : OpenBehind(t, i) = OpenBehind(s, i)
  BY <1>1, FrontOpen
<1> HIDE DEF t
<1> SUFFICES ASSUME NEW i \in 1 .. n, IsBreak(s[i]), NEW j \in i + 1 .. n
             PROVE  Tabbed(s, i, j)
  BY <1>1 DEF Indents
<1>4. Tabbed(t, i, j)
  <2>1. i \in 1 .. Len(t) /\ j \in i + 1 .. Len(t) /\ IsBreak(t[i])
    BY <1>2
  <2> QED BY <2>1 DEF Indents, t
<1>5. /\ t[j] = s[j] /\ \A k \in i + 1 .. j - 1 : t[k] = s[k]
      /\ OpenBehind(t, j) = OpenBehind(s, j) /\ OpenBehind(t, j - 1) = OpenBehind(s, j - 1)
  BY <1>2, <1>3
<1> QED BY <1>4, <1>5 DEF Tabbed

\* Blanks need no indentation,
LEMMA BlanksIndent ==
  ASSUME NEW s, NEW a, IsStack(s), IsStack(a), Indents(s), \A i \in 1 .. Len(a) : IsBlank(a[i]) \/ a[i].k = "torn"
  PROVE  Indents(s \o a)
<1> DEFINE t == s \o a
<1>1. PICK n \in Nat, m \in Nat : n = Len(s) /\ m = Len(a)
  BY StackLen
<1>2. Len(t) = n + m /\ \A i \in 1 .. n + m : t[i] = IF i <= n THEN s[i] ELSE a[i - n]
  BY <1>1, StackConcat
<1>3. \A i \in 0 .. n : OpenBehind(t, i) = OpenBehind(s, i)
  BY <1>1, FrontOpen
<1> HIDE DEF t
<1> SUFFICES ASSUME NEW i \in 1 .. n + m, IsBreak(t[i]), NEW j \in i + 1 .. n + m
             PROVE  Tabbed(t, i, j)
  BY <1>2 DEF Indents, t
<1>4. CASE j <= n
  <2>1. Tabbed(s, i, j)
    <3>1. i \in 1 .. Len(s) /\ j \in i + 1 .. Len(s) /\ IsBreak(s[i])
      BY <1>1, <1>2, <1>4
    <3> QED BY <3>1 DEF Indents
  <2>2. /\ t[j] = s[j] /\ \A k \in i + 1 .. j - 1 : t[k] = s[k]
        /\ OpenBehind(t, j) = OpenBehind(s, j) /\ OpenBehind(t, j - 1) = OpenBehind(s, j - 1)
    BY <1>2, <1>3, <1>4
  <2> QED BY <2>1, <2>2 DEF Tabbed
<1>5. CASE ~(j <= n)
  <2>1. t[j] = a[j - n] /\ j - n \in 1 .. m
    BY <1>2, <1>5
  <2>2. IsBlank(t[j]) \/ t[j].k = "torn"
    BY <1>1, <2>1
  <2> QED BY <2>2 DEF IsBlank, Tabbed
<1> QED BY <1>4, <1>5

\* and what is no blank needs what it hangs on.
LEMMA InkIndents ==
  ASSUME NEW s, NEW a, IsStack(s), IsStack(a), Indents(s), a # << >>,
         \A i \in 1 .. Len(a) : IsInk(a[i]),
         \A i \in 1 .. Len(a) : a[i].k \in {"open", "close"} => i = 1,
         Hangs(s, OpenBehind(s \o a, IF a[1].k = "close" THEN Len(s) + 1 ELSE Len(s)))
  PROVE  Indents(s \o a) /\ Solid(s \o a)
<1> DEFINE t == s \o a
<1>1. PICK n \in Nat, m \in Nat : n = Len(s) /\ m = Len(a) /\ m > 0
  BY StackLen
<1>2. Len(t) = n + m /\ \A i \in 1 .. n + m : t[i] = IF i <= n THEN s[i] ELSE a[i - n]
  BY <1>1, StackConcat
<1>3. \A i \in 0 .. n : OpenBehind(t, i) = OpenBehind(s, i)
  BY <1>1, FrontOpen
<1>4. \A i \in n + 1 .. n + m : IsInk(t[i]) /\ t[i] # Tab /\ ~IsBreak(t[i])
  <2> SUFFICES ASSUME NEW i \in n + 1 .. n + m PROVE IsInk(t[i]) /\ t[i] # Tab /\ ~IsBreak(t[i])
    OBVIOUS
  <2>1. t[i] = a[i - n] /\ i - n \in 1 .. m
    BY <1>2
  <2> HIDE DEF t
  <2>2. IsInk(t[i])
    BY <1>1, <2>1
  <2> QED BY <2>2, Atoms DEF IsBlank
<1>5. Hangs(s, OpenBehind(t, IF t[n + 1].k = "close" THEN n + 1 ELSE n))
  <2>1. t[n + 1] = a[1]
    BY <1>1, <1>2
  <2> QED BY <1>1, <2>1
<1> HIDE DEF t
<1>6. Indents(t)
  <2> SUFFICES ASSUME NEW i \in 1 .. n + m, IsBreak(t[i]), NEW j \in i + 1 .. n + m
               PROVE  Tabbed(t, i, j)
    BY <1>2 DEF Indents
  <2>1. i \in 1 .. n
    BY <1>4
  <2>2. CASE j <= n
    <3>1. Tabbed(s, i, j)
      <4>1. i \in 1 .. Len(s) /\ j \in i + 1 .. Len(s) /\ IsBreak(s[i])
        BY <1>1, <1>2, <2>2
      <4> QED BY <4>1 DEF Indents
    <3>2. /\ t[j] = s[j] /\ \A k \in i + 1 .. j - 1 : t[k] = s[k]
          /\ OpenBehind(t, j) = OpenBehind(s, j) /\ OpenBehind(t, j - 1) = OpenBehind(s, j - 1)
      BY <1>2, <1>3, <2>2
    <3> QED BY <3>1, <3>2 DEF Tabbed
  <2>3. CASE j = n + 1
    <3> SUFFICES ASSUME \A k \in i + 1 .. j - 1 : t[k] = Tab
                 PROVE  j - i - 1 = OpenBehind(t, IF t[j].k = "close" THEN j ELSE j - 1)
      BY Zenon DEF Tabbed
    <3>1. \A k \in i + 1 .. n : s[k] = Tab
      BY <1>2, <2>1, <2>3
    <3>2. IsBreak(s[i])
      BY <1>2, <2>1
    <3>3. n - i = OpenBehind(t, IF t[n + 1].k = "close" THEN n + 1 ELSE n)
      BY <1>1, <1>5, <2>1, <3>1, <3>2 DEF Hangs
    <3>4. j - i - 1 = n - i /\ j - 1 = n
      BY <2>1, <2>3
    <3> QED BY <2>3, <3>3, <3>4
  <2>4. CASE j > n + 1
    <3>1. n + 1 \in i + 1 .. j - 1 /\ t[n + 1] # Tab
      BY <1>1, <1>4, <2>1, <2>4
    <3> QED BY <3>1 DEF Tabbed
  <2> QED BY <2>2, <2>3, <2>4
<1>7. Solid(t)
  <2> SUFFICES ASSUME NEW i \in 1 .. n + m, IsBreak(t[i]), \A k \in i + 1 .. n + m : t[k] = Tab
               PROVE  FALSE
    BY <1>2, Zenon DEF Solid, Hangs
  <2>1. i \in 1 .. n
    BY <1>4
  <2>2. n + m \in i + 1 .. n + m /\ n + m \in n + 1 .. n + m
    BY <1>1, <2>1
  <2> QED BY <1>4, <2>2
<1> QED BY <1>6, <1>7 DEF t

\* The line that blanks begin.
LEMMA BlanksHang ==
  ASSUME NEW s, NEW a, IsStack(s), IsStack(a), NEW n \in Nat, n <= Len(a),
         \A i \in 1 .. Len(a) : IF i <= Len(a) - n THEN IsBreak(a[i]) ELSE a[i] = Tab,
         n < Len(a) \/ Solid(s)
  PROVE  Hangs(s \o a, n)
<1> DEFINE t == s \o a
<1>1. PICK p \in Nat, q \in Nat : p = Len(s) /\ q = Len(a)
  BY StackLen
<1>2. Len(t) = p + q /\ \A i \in 1 .. p + q : t[i] = IF i <= p THEN s[i] ELSE a[i - p]
  BY <1>1, StackConcat
<1> HIDE DEF t
<1> SUFFICES ASSUME NEW i \in 1 .. p + q, IsBreak(t[i]), \A k \in i + 1 .. p + q : t[k] = Tab
             PROVE  Len(t) - i = n
  <2>1. Hangs(t, n)
    BY <1>2, Zenon DEF Hangs
  <2> QED BY <2>1 DEF t
<1> SUFFICES p + q - i = n
  BY <1>2
<1>3. CASE n < q
  <2>1. IsBreak(t[p + q - n]) /\ t[p + q - n] # Tab
    <3>1. p + q - n \in 1 .. p + q /\ ~(p + q - n <= p) /\ p + q - n - p = q - n /\ q - n \in 1 .. q
      BY <1>1, <1>3
    <3>2. t[p + q - n] = a[q - n]
      BY <1>2, <3>1
    <3>3. IsBreak(a[q - n])
      <4>1. PICK j \in 1 .. Len(a) : j = q - n /\ j <= Len(a) - n
        BY <1>1, <3>1
      <4>2. IsBreak(a[j])
        BY <4>1
      <4> QED BY <4>1, <4>2, Zenon
    <3> QED BY <3>2, <3>3, Atoms
  <2>2. i >= p + q - n
    <3>1. p + q - n \notin i + 1 .. p + q
      BY <2>1
    <3> QED BY <1>1, <3>1
  <2>3. CASE i > p + q - n
    <3>1. t[i] = a[i - p] /\ i - p \in 1 .. q /\ ~(i - p <= q - n)
      BY <1>1, <1>2, <1>3, <2>3
    <3>2. t[i] = Tab
      BY <1>1, <3>1
    <3>3. FALSE
      BY <3>2, Atoms, Zenon
    <3> QED BY <3>3
  <2>4. n \in Int /\ p \in Int /\ q \in Int /\ i \in Int
    OBVIOUS
  <2>5. ~(i > p + q - n) => p + q - i = n
    BY <2>2, <2>4
  <2> QED BY <2>3, <2>5, Zenon
<1>4. CASE n = q /\ Solid(s)
  <2>1. ASSUME NEW k \in 1 .. q PROVE a[k] = Tab
    BY <1>1, <1>4
  <2>2. i <= p
    <3> SUFFICES ASSUME i > p PROVE FALSE
      OBVIOUS
    <3>1. t[i] = a[i - p] /\ i - p \in 1 .. q
      BY <1>2
    <3> QED BY <2>1, <3>1, Atoms
  <2>3. IsBreak(s[i]) /\ \A k \in i + 1 .. p : s[k] = Tab
    BY <1>2, <2>2
  <2>4. Hangs(s, p + 1)
    BY <1>4 DEF Solid
  <2>5. p - i = p + 1
    BY <1>1, <2>2, <2>3, <2>4 DEF Hangs
  <2> QED BY <2>2, <2>5
<1> QED BY <1>1, <1>3, <1>4

IsLetter(a) == a.k \in {"part", "colon", "double_colon"}

LEMMA OpenIsNumber ==
  ASSUME NEW out, NEW i \in Nat
  PROVE  /\ OpenBehind(out, i) \in Int
         /\ \A k : IsFiniteSet(Brackets(out, k, i)) /\ Cardinality(Brackets(out, k, i)) \in Nat
<1>1. ASSUME NEW k PROVE IsFiniteSet(Brackets(out, k, i)) /\ Cardinality(Brackets(out, k, i)) \in Nat
  <2>1. IsFiniteSet(1 .. i)
    BY FS_Interval
  <2>2. Brackets(out, k, i) \subseteq 1 .. i
    BY DEF Brackets
  <2> QED BY <2>1, <2>2, FS_Subset, FS_CardinalityType
<1>2. /\ Cardinality(Brackets(out, "open", i)) \in Nat
      /\ Cardinality(Brackets(out, "close", i)) \in Nat
  BY <1>1
<1>3. OpenBehind(out, i) \in Int
  BY <1>2 DEF OpenBehind
<1> QED BY <1>1, <1>3

LEMMA OpenKept ==
  ASSUME NEW s, NEW a, IsStack(s), IsStack(a), \A i \in 1 .. Len(a) : a[i].k \notin {"open", "close"}
  PROVE  OpenNow(s \o a) = OpenNow(s)
<1> DEFINE t == s \o a
<1>1. PICK n \in Nat, m \in Nat : n = Len(s) /\ m = Len(a)
  BY StackLen
<1>2. Len(t) = n + m /\ \A i \in 1 .. n + m : t[i] = IF i <= n THEN s[i] ELSE a[i - n]
  BY <1>1, StackConcat
<1> HIDE DEF t
<1>3. ASSUME NEW k \in {"open", "close"}
      PROVE  Brackets(t, k, n + m) = Brackets(s, k, n)
  <2>1. \A i \in 1 .. n + m : t[i].k = k => i <= n
    <3> SUFFICES ASSUME NEW i \in 1 .. n + m, t[i].k = k, i > n PROVE FALSE
      OBVIOUS
    <3>1. t[i] = a[i - n] /\ i - n \in 1 .. m
      BY <1>2
    <3> QED BY <1>1, <3>1
  <2>2. \A i \in 1 .. n : t[i] = s[i] /\ i \in 1 .. n + m
    BY <1>2
  <2>3. \A i \in 1 .. n + m : i <= n => i \in 1 .. n
    OBVIOUS
  <2> QED BY <2>1, <2>2, <2>3, Zenon DEF Brackets
<1>4. OpenBehind(t, n + m) = OpenBehind(s, n)
  BY <1>3, Zenon DEF OpenBehind
<1> QED BY <1>1, <1>2, <1>4, Zenon DEF OpenNow, t

LEMMA BracketCounts ==
  ASSUME NEW s, IsStack(s), NEW a, a.k \in {"open", "close"}
  PROVE  /\ OpenNow(s \o <<a>>) = OpenNow(s) + (IF a.k = "open" THEN 1 ELSE -1)
         /\ OpenBehind(s \o <<a>>, Len(s) + 1) = OpenNow(s \o <<a>>)
<1> DEFINE t == s \o <<a>>
<1>1. PICK n \in Nat : n = Len(s)
  BY StackLen
<1>2. Len(t) = n + 1 /\ t[n + 1] = a /\ \A i \in 1 .. n : t[i] = s[i]
  <2>1. IsStack(<<a>>) /\ Len(<<a>>) = 1 /\ <<a>>[1] = a
    BY Tuples
  <2> QED BY <1>1, <2>1, StackConcat
<1> HIDE DEF t
<1>3. ASSUME NEW k
      PROVE  Cardinality(Brackets(t, k, n + 1)) = Cardinality(Brackets(s, k, n)) + (IF a.k = k THEN 1 ELSE 0)
  <2> DEFINE S == Brackets(s, k, n)
             B == Brackets(t, k, n + 1)
  <2>1. IsFiniteSet(S) /\ Cardinality(S) \in Nat
    BY OpenIsNumber
  <2>2. a.k = k => B = S \cup {n + 1}
    BY <1>2 DEF Brackets
  <2>3. a.k # k => B = S
    BY <1>2 DEF Brackets
  <2>4. n + 1 \notin S
    BY DEF Brackets
  <2> HIDE DEF S, B
  <2>5. Cardinality(S \cup {n + 1}) = Cardinality(S) + 1
    BY <2>1, <2>4, FS_AddElement
  <2>6. Cardinality(B) = Cardinality(S) + (IF a.k = k THEN 1 ELSE 0)
    <3>1. CASE a.k = k
      BY <2>2, <2>5, <3>1
    <3>2. CASE a.k # k
      BY <2>1, <2>3, <3>2
    <3> QED BY <3>1, <3>2
  <2> QED BY <2>6 DEF S, B
<1>4. \A k : Cardinality(Brackets(s, k, n)) \in Nat
  BY OpenIsNumber
<1>5. /\ Cardinality(Brackets(t, "open", n + 1)) =
           Cardinality(Brackets(s, "open", n)) + (IF a.k = "open" THEN 1 ELSE 0)
      /\ Cardinality(Brackets(t, "close", n + 1)) =
           Cardinality(Brackets(s, "close", n)) + (IF a.k = "close" THEN 1 ELSE 0)
  BY <1>3
<1>6. Cardinality(Brackets(s, "open", n)) \in Nat /\ Cardinality(Brackets(s, "close", n)) \in Nat
  BY <1>4
<1>7. OpenBehind(t, n + 1) = OpenBehind(s, n) + (IF a.k = "open" THEN 1 ELSE -1)
  BY <1>5, <1>6 DEF OpenBehind
<1> QED BY <1>1, <1>2, <1>7 DEF OpenNow, t

\* Text goes on where the line begins, or behind other text;
LEMMA LettersIndent ==
  ASSUME NEW s, NEW a, IsStack(s), IsStack(a), Indents(s), Hangs(s, OpenNow(s)),
         \A i \in 1 .. Len(a) : IsLetter(a[i])
  PROVE  /\ Indents(s \o a) /\ OpenNow(s \o a) = OpenNow(s)
         /\ Hangs(s \o a, OpenNow(s))
         /\ a # << >> => Solid(s \o a)
<1>1. CASE a = << >>
  <2>1. s \o a = s
    BY <1>1, ConcatNothing
  <2> QED BY <1>1, <2>1
<1>2. CASE a # << >>
  <2>1. PICK n \in Nat : n = Len(s)
    BY StackLen
  <2>2. OpenNow(s \o a) = OpenNow(s)
    <3>1. \A i \in 1 .. Len(a) : a[i].k \notin {"open", "close"}
      BY DEF IsLetter
    <3> QED BY <3>1, OpenKept
  <2>3. OpenBehind(s \o a, Len(s)) = OpenNow(s)
    <3>1. n \in 0 .. Len(s)
      BY <2>1
    <3> QED BY <2>1, <3>1, FrontOpen DEF OpenNow
  <2>4. /\ \A i \in 1 .. Len(a) : IsInk(a[i]) /\ a[i].k \notin {"open", "close"}
        /\ a[1].k # "close"
    <3>1. 1 \in 1 .. Len(a)
      BY <1>2, StackLen
    <3> QED BY <3>1 DEF IsLetter, IsInk
  <2>5. Hangs(s, OpenBehind(s \o a, IF a[1].k = "close" THEN Len(s) + 1 ELSE Len(s)))
    BY <2>3, <2>4
  <2>6. Indents(s \o a) /\ Solid(s \o a)
    BY <1>2, <2>4, <2>5, InkIndents
  <2> QED BY <2>2, <2>6 DEF Solid
<1> QED BY <1>1, <1>2

\* a bracket opens where the line begins,
LEMMA OpeningIndents ==
  ASSUME NEW s, IsStack(s), Indents(s), Hangs(s, OpenNow(s)), NEW c
  PROVE  LET t == s \o <<Opening(c)>>
         IN  Indents(t) /\ Solid(t) /\ OpenNow(t) = OpenNow(s) + 1
<1> DEFINE a == Opening(c)
           e == <<a>>
<1>1. a.k = "open"
  BY DEF Opening
<1>2. IsStack(e) /\ Len(e) = 1 /\ e[1] = a /\ e # << >>
  BY Tuples
<1>3. IsInk(a)
  BY <1>1 DEF IsInk
<1>4. OpenBehind(s \o e, Len(s)) = OpenNow(s)
  <2>1. Len(s) \in 0 .. Len(s)
    BY StackLen
  <2> QED BY <1>2, <2>1, FrontOpen DEF OpenNow
<1>5. OpenNow(s \o e) = OpenNow(s) + 1
  BY <1>1, BracketCounts
<1> HIDE DEF a, e
<1>6. \A i \in 1 .. Len(e) : IsInk(e[i]) /\ i = 1
  BY <1>2, <1>3
<1>7. Hangs(s, OpenBehind(s \o e, IF e[1].k = "close" THEN Len(s) + 1 ELSE Len(s)))
  BY <1>1, <1>2, <1>4
<1>8. Indents(s \o e) /\ Solid(s \o e)
  BY <1>2, <1>6, <1>7, InkIndents
<1> QED BY <1>5, <1>8 DEF e, a

\* and one closes where the bracket it closes stands.
LEMMA ClosingIndents ==
  ASSUME NEW s, IsStack(s), Indents(s), Hangs(s, OpenNow(s) - 1), NEW c
  PROVE  LET t == s \o <<Closing(c)>>
         IN  Indents(t) /\ Solid(t) /\ OpenNow(t) = OpenNow(s) - 1
<1> DEFINE a == Closing(c)
           e == <<a>>
<1>1. a.k = "close"
  BY DEF Closing
<1>2. IsStack(e) /\ Len(e) = 1 /\ e[1] = a /\ e # << >>
  BY Tuples
<1>3. IsInk(a)
  BY <1>1 DEF IsInk
<1>5. OpenNow(s \o e) = OpenNow(s) - 1 /\ OpenBehind(s \o e, Len(s) + 1) = OpenNow(s \o e)
  <2>1. OpenNow(s) \in Int
    BY StackLen, OpenIsNumber DEF OpenNow
  <2>2. OpenNow(s \o e) = OpenNow(s) + (IF a.k = "open" THEN 1 ELSE -1)
    BY <1>1, BracketCounts
  <2>3. OpenBehind(s \o e, Len(s) + 1) = OpenNow(s \o e)
    BY <1>1, BracketCounts
  <2> QED BY <1>1, <2>1, <2>2, <2>3
<1> HIDE DEF a, e
<1>6. \A i \in 1 .. Len(e) : IsInk(e[i]) /\ i = 1
  BY <1>2, <1>3
<1>7. Hangs(s, OpenBehind(s \o e, IF e[1].k = "close" THEN Len(s) + 1 ELSE Len(s)))
  BY <1>1, <1>2, <1>5
<1>8. Indents(s \o e) /\ Solid(s \o e)
  BY <1>2, <1>6, <1>7, InkIndents
<1> QED BY <1>5, <1>8 DEF e, a

AllTabs(n) == [i \in 1 .. n |-> Tab]

\* Breaks, and tabs behind them.
LEMMA LineBegins ==
  ASSUME NEW s, IsStack(s), Indents(s), NEW front, IsStack(front), \A i \in 1 .. Len(front) : IsBreak(front[i]),
         NEW n \in Nat, front # << >> \/ Solid(s) \/ (n = 0 /\ Hangs(s, 0))
  PROVE  LET a == front \o AllTabs(n)
         IN  IsStack(a) /\ Indents(s \o a) /\ OpenNow(s \o a) = OpenNow(s) /\ Hangs(s \o a, n)
<1> DEFINE tabs == AllTabs(n)
           a == front \o tabs
<1>1. IsStack(tabs) /\ Len(tabs) = n /\ \A i \in 1 .. n : tabs[i] = Tab
  <2>1. tabs \in Seq({Tab}) /\ Len(tabs) = n /\ \A i \in 1 .. n : tabs[i] = Tab
    BY DEF AllTabs
  <2> QED BY <2>1, Zenon DEF IsStack
<1> HIDE DEF tabs
<1>2. PICK m \in Nat : m = Len(front) /\ (front # << >> <=> m > 0)
  BY StackLen
<1>3. IsStack(a) /\ Len(a) = m + n /\ \A i \in 1 .. m + n : a[i] = IF i <= m THEN front[i] ELSE tabs[i - m]
  BY <1>1, <1>2, StackConcat
<1> HIDE DEF a
<1>4. \A i \in 1 .. m + n : IF i <= m THEN IsBreak(a[i]) ELSE a[i] = Tab
  <2> SUFFICES ASSUME NEW i \in 1 .. m + n PROVE IF i <= m THEN IsBreak(a[i]) ELSE a[i] = Tab
    OBVIOUS
  <2>1. CASE i <= m
    <3>1. i \in 1 .. m /\ a[i] = front[i]
      BY <1>3, <2>1
    <3> QED BY <1>2, <2>1, <3>1
  <2>2. CASE ~(i <= m)
    <3>1. i - m \in 1 .. n /\ a[i] = tabs[i - m]
      BY <1>3, <2>2
    <3> QED BY <1>1, <2>2, <3>1
  <2> QED BY <2>1, <2>2
<1>5. \A i \in 1 .. Len(a) : IsBlank(a[i])
  BY <1>3, <1>4 DEF IsBlank
<1>6. Indents(s \o a)
  BY <1>3, <1>5, BlanksIndent
<1>7. OpenNow(s \o a) = OpenNow(s)
  <2>1. \A i \in 1 .. Len(a) : a[i].k \notin {"open", "close"}
    <3>1. Tab.k = "space"
      BY DEF Tab, Space
    <3> QED BY <1>5, <3>1 DEF IsBlank, IsBreak
  <2> QED BY <1>3, <2>1, OpenKept
<1>8. Hangs(s \o a, n)
  <2>1. CASE m > 0 \/ Solid(s)
    <3>1. n <= Len(a) /\ (n < Len(a) \/ Solid(s))
      BY <1>3, <2>1
    <3>2. \A i \in 1 .. Len(a) : IF i <= Len(a) - n THEN IsBreak(a[i]) ELSE a[i] = Tab
      BY <1>3, <1>4
    <3> QED BY <1>3, <3>1, <3>2, BlanksHang
  <2>2. CASE m = 0 /\ n = 0 /\ Hangs(s, 0)
    <3>1. a = << >>
      BY <1>3, <2>2, StackLen
    <3> QED BY <2>2, <3>1, ConcatNothing
  <2> QED BY <1>2, <2>1, <2>2
<1> QED BY <1>3, <1>6, <1>7, <1>8 DEF a, tabs

\* The line the writer is at.
Standing(v) ==
  /\ OpenNow(v.out) = Len(v.ctx)
  /\ Solid(v.out) \/ (v.ctx = << >> /\ Hangs(v.out, 0))

\* Whatever is written, and with no error all of it.
Neatly(v)   == v.pretty => Indents(v.out) /\ (v.err = "nil" /\ v.ret # "io" => Standing(v))
InFlight(v) == v.pretty => Indents(v.out) /\ (v.ret = "nil" => /\ OpenNow(v.out) = Len(v.ctx)
                                                               /\ Hangs(v.out, Len(v.ctx)))

LEMMA SeparatorBreaks ==
  ASSUME NEW v, v.pretty
  PROVE  LET front == Separator(v) \o (IF v.emptyContainer /\ v.pretty THEN <<Newline>> ELSE << >>)
         IN  /\ IsStack(front) /\ \A i \in 1 .. Len(front) : IsBreak(front[i])
             /\ front = << >> => ~v.emptyContainer /\ ~v.needsSeparator
<1> DEFINE x == Separator(v)
           y == IF v.emptyContainer THEN <<Newline>> ELSE << >>
           B(a) == IsStack(a) /\ \A i \in 1 .. Len(a) : IsBreak(a[i])
<1>1. B(<< >>) /\ Len(<< >>) = 0
  BY Tuples
<1>2. ASSUME NEW e, IsBreak(e)
      PROVE  B(<<e>>) /\ Len(<<e>>) = 1
  BY <1>2, Tuples
<1>3. IsBreak(Newline) /\ IsBreak(Comma("\n"))
  BY Atoms
<1>4. B(x) /\ (v.needsSeparator => Len(x) = 1)
  <2>1. (x = << >> /\ ~v.needsSeparator) \/ x = <<Newline>> \/ x = <<Comma("\n")>>
    BY Zenon DEF Separator
  <2> HIDE DEF x, B
  <2> QED BY <1>1, <1>2, <1>3, <2>1
<1>5. B(y) /\ (v.emptyContainer => Len(y) = 1)
  <2> HIDE DEF B
  <2> QED BY <1>1, <1>2, <1>3
<1> HIDE DEF x, y
<1>6. PICK p \in Nat, q \in Nat : p = Len(x) /\ q = Len(y)
  BY <1>4, <1>5, StackLen
<1>7. /\ IsStack(x \o y) /\ Len(x \o y) = p + q
      /\ \A i \in 1 .. p + q : (x \o y)[i] = IF i <= p THEN x[i] ELSE y[i - p]
  BY <1>4, <1>5, <1>6, StackConcat
<1>8. \A i \in 1 .. p + q : IsBreak((x \o y)[i])
  <2> SUFFICES ASSUME NEW i \in 1 .. p + q PROVE IsBreak((x \o y)[i])
    OBVIOUS
  <2>1. CASE i <= p
    <3>1. i \in 1 .. p /\ (x \o y)[i] = x[i]
      BY <1>7, <2>1
    <3> QED BY <1>4, <1>6, <3>1
  <2>2. CASE ~(i <= p)
    <3>1. i - p \in 1 .. q /\ (x \o y)[i] = y[i - p]
      BY <1>7, <2>2
    <3> QED BY <1>5, <1>6, <3>1
  <2> QED BY <2>1, <2>2
<1>9. x \o y = << >> => p + q = 0
  BY <1>1, <1>7
<1>10. x \o y = << >> => ~v.emptyContainer /\ ~v.needsSeparator
  BY <1>4, <1>5, <1>6, <1>9
<1>11. x \o y = Separator(v) \o (IF v.emptyContainer /\ v.pretty THEN <<Newline>> ELSE << >>)
  BY DEF x, y
<1> QED BY <1>7, <1>8, <1>10, <1>11

LEMMA IndentationTabs ==
  ASSUME NEW v, v.pretty
  PROVE  Indentation(v) = AllTabs(v.indent)
BY DEF Indentation, AllTabs, Tab

LEMMA LayoutIndents ==
  ASSUME NEW v, Fit(v), v.pretty, v.err = "nil", Indents(v.out), Standing(v)
  PROVE  LET t == v.out \o Layout(v)
         IN  Indents(t) /\ OpenNow(t) = Len(v.ctx) /\ Hangs(t, Len(v.ctx))
<1> DEFINE front == Separator(v) \o (IF v.emptyContainer /\ v.pretty THEN <<Newline>> ELSE << >>)
<1>1. /\ IsStack(front) /\ \A i \in 1 .. Len(front) : IsBreak(front[i])
  BY SeparatorBreaks
<1>2. Layout(v) = front \o AllTabs(v.indent)
  BY IndentationTabs DEF Layout
<1> HIDE DEF front
<1>3. v.indent = Len(v.ctx) /\ v.indent \in Nat /\ IsStack(v.out)
  BY LenProperties DEF Fit, Loose
<1>4. front # << >> \/ Solid(v.out) \/ (v.indent = 0 /\ Hangs(v.out, 0))
  <2>1. v.ctx = << >> => v.indent = 0
    BY <1>3
  <2> QED BY <2>1 DEF Standing
<1>5. LET a == front \o AllTabs(v.indent)
      IN  Indents(v.out \o a) /\ OpenNow(v.out \o a) = OpenNow(v.out) /\ Hangs(v.out \o a, v.indent)
  BY <1>1, <1>3, <1>4, LineBegins
<1> QED BY <1>2, <1>3, <1>5 DEF Standing

LEMMA EndLayoutIndents ==
  ASSUME NEW v, IsStack(v.out), v.indent \in Nat, v.pretty, Indents(v.out), v.emptyContainer => Solid(v.out)
  PROVE  LET t == v.out \o EndLayout(v)
         IN  IsStack(EndLayout(v)) /\ Indents(t) /\ OpenNow(t) = OpenNow(v.out) /\ Hangs(t, v.indent)
<1>1. CASE v.emptyContainer
  <2>1. EndLayout(v) = << >>
    BY <1>1 DEF EndLayout
  <2>2. v.out \o << >> = v.out /\ IsStack(<< >>)
    BY ConcatNothing, Tuples
  <2> QED BY <1>1, <2>1, <2>2 DEF Solid
<1>2. CASE ~v.emptyContainer
  <2> DEFINE front == <<Newline>>
  <2>1. EndLayout(v) = front \o AllTabs(v.indent)
    BY <1>2, IndentationTabs DEF EndLayout
  <2>2. IsStack(front) /\ front # << >> /\ \A i \in 1 .. Len(front) : IsBreak(front[i])
    BY Atoms, Tuples
  <2> HIDE DEF front
  <2> QED BY <2>1, <2>2, LineBegins
<1> QED BY <1>1, <1>2

\* What is written in part is in order if all of it would be.
LEMMA EmitTidy ==
  ASSUME NEW v, Loose(v), v.err = "nil", NEW atoms, IsStack(atoms), v.pretty => Indents(v.out \o atoms)
  PROVE  LET u == EmitTo(v, atoms)
         IN  u.pretty = v.pretty /\ (v.pretty => Indents(u.out))
<1> DEFINE failing == {i \in 1 .. Len(atoms) : v.writes + i \in v.fault[1] .. v.fault[2]}
           first == MinOf(failing)
           front == SubSeq(atoms, 1, first - 1)
           done  == v.out \o Append(front, Torn)
           u     == EmitTo(v, atoms)
<1>1. failing # {} /\ v.pretty => Indents(done)
  <2> SUFFICES ASSUME failing # {}, v.pretty PROVE Indents(done)
    OBVIOUS
  <2>1. PICK n \in Nat : n = Len(atoms)
    BY StackLen
  <2>2. first \in failing
    <3>1. failing \subseteq Nat
      BY <2>1
    <3> HIDE DEF failing
    <3> QED BY <3>1, LeastNat
  <2>3. first - 1 \in Nat /\ first - 1 <= Len(atoms)
    <3>1. first \in 1 .. n
      BY <2>1, <2>2
    <3> HIDE DEF first
    <3> QED BY <2>1, <3>1
  <2> HIDE DEF first
  <2>4. IsStack(front) /\ Leads(front, atoms)
    BY <2>3, PrefixLeads
  <2> HIDE DEF front
  <2>5. PICK r : IsStack(r) /\ atoms = front \o r
    BY <2>4 DEF Leads
  <2>6. IsStack(v.out) /\ IsStack(v.out \o front)
    BY <2>4, StackConcat DEF Loose
  <2>7. v.out \o atoms = (v.out \o front) \o r
    <3>1. Assoc(v.out, front, r)
      BY <2>4, <2>5, <2>6, Associates
    <3> QED BY <2>5, <3>1, Zenon DEF Assoc
  <2>8. Indents(v.out \o front)
    BY <2>5, <2>6, <2>7, FrontIndents
  <2>9. done = (v.out \o front) \o <<Torn>>
    <3>1. Append(v.out \o front, Torn) = v.out \o Append(front, Torn)
      <4>1. PICK o : o = v.out
        OBVIOUS
      <4>2. IsStack(o) /\ IsStack(front)
        BY <2>4, <2>6, <4>1
      <4>3. Append(o \o front, Torn) = o \o Append(front, Torn)
        BY <4>2, AppendLast
      <4> QED BY <4>1, <4>3, Zenon
    <3>2. Append(v.out \o front, Torn) = (v.out \o front) \o <<Torn>>
      BY <2>6, AppendOne
    <3> QED BY <3>1, <3>2, Zenon
  <2>10. IsStack(<<Torn>>) /\ \A i \in 1 .. Len(<<Torn>>) : <<Torn>>[i].k = "torn"
    BY Tuples DEF Torn
  <2> QED BY <2>6, <2>8, <2>9, <2>10, BlanksIndent
<1>2. /\ failing = {} => u = [v EXCEPT !.out = @ \o atoms, !.writes = @ + Len(atoms), !.ret = "nil"]
      /\ failing # {} => u = [v EXCEPT !.out = done, !.writes = @ + first, !.ret = "io"]
  BY DEF EmitTo
<1> HIDE DEF failing, done, first, u
<1>3. PICK out, writes, ret : /\ u = [v EXCEPT !.out = out, !.writes = writes, !.ret = ret]
                              /\ v.pretty => Indents(out)
  <2>1. CASE failing = {}
    BY <1>2, <2>1
  <2>2. CASE failing # {}
    BY <1>1, <1>2, <2>2
  <2> QED BY <2>1, <2>2
<1> QED BY <1>3 DEF Loose, Fields, u

\* A field name and annotations are letters,
Letters(a) == IsStack(a) /\ \A i \in 1 .. Len(a) : IsLetter(a[i])

LEMMA PartsLetters ==
  ASSUME NEW l, l.calls \in Nat
  PROVE  Letters(Parts(l)) /\ (l.calls # 0 => Parts(l) # << >>)
<1>1. IsStack(Parts(l))
  BY PartsList
<1>2. Len(Parts(l)) = l.calls /\ \A i \in 1 .. l.calls : Parts(l)[i].k = "part"
  BY DEF Parts
<1> QED BY <1>1, <1>2, StackLen DEF Letters, IsLetter

LEMMA NameLetters ==
  ASSUME NEW tok, NEW after, IsLetter(after)
  PROVE  Letters(Append(Parts(SymbolLexeme(tok)), after))
<1> DEFINE a == Parts(SymbolLexeme(tok))
<1>1. Letters(a)
  BY LexemeCalls, PartsLetters
<1> HIDE DEF a
<1>2. PICK n \in Nat : n = Len(a)
  BY <1>1, StackLen DEF Letters
<1> QED BY <1>1, <1>2, StackPushed DEF Letters, a

LEMMA MarkLetters ==
  ASSUME NEW n \in Nat, NEW marks
  PROVE  Letters(Lists!FlattenSeq([i \in 1 .. n |-> Append(Parts(SymbolLexeme(marks[i])), DoubleColon)]))
<1> DEFINE s == [i \in 1 .. n |-> Append(Parts(SymbolLexeme(marks[i])), DoubleColon)]
           S == {a \in {s[i][j] : i \in 1 .. n, j \in Nat} : IsLetter(a)}
<1>1. \A i \in 1 .. n : Letters(s[i])
  BY NameLetters DEF DoubleColon, IsLetter
<1>2. s = [i \in 1 .. n |-> s[i]]
  OBVIOUS
<1> HIDE DEF s
<1>3. \A i \in 1 .. n : ListOf(s[i], S)
  BY <1>1, StackLen DEF ListOf, Letters
<1>4. \A a \in S : IsLetter(a)
  OBVIOUS
<1> HIDE DEF S
<1>5. ListOf(Lists!FlattenSeq([i \in 1 .. n |-> s[i]]), S)
  BY <1>3, FlattenLists
<1>6. Letters(Lists!FlattenSeq(s))
  BY <1>2, <1>4, <1>5 DEF ListOf, Letters
<1> QED BY <1>6 DEF s

\* and what is written of them stands in line.
LEMMA LettersFly ==
  ASSUME NEW v, Fit(v), v.ret = "nil", InFlight(v), NEW a, Letters(a)
  PROVE  LET u == EmitTo(v, a)
         IN  Fit(u) /\ InFlight(u) /\ (u.pretty /\ u.ret = "nil" /\ a # << >> => Solid(u.out))
<1> DEFINE u == EmitTo(v, a)
<1>1. v.err = "nil" /\ IsStack(v.out) /\ IsStack(a)
  BY DEF Fit, Loose, Letters
<1>2. v.pretty => /\ Indents(v.out \o a) /\ OpenNow(v.out \o a) = Len(v.ctx)
                  /\ Hangs(v.out \o a, Len(v.ctx))
                  /\ a # << >> => Solid(v.out \o a)
  BY <1>1, LettersIndent DEF InFlight, Letters
<1>3. Fit(u) /\ u.ctx = v.ctx /\ (u.ret = "nil" => u.out = v.out \o a)
  BY <1>1, EmitFit
<1>4. u.pretty = v.pretty /\ (v.pretty => Indents(u.out))
  BY <1>1, <1>2, EmitTidy DEF Fit
<1> HIDE DEF u
<1> QED BY <1>2, <1>3, <1>4 DEF InFlight, u

LEMMA FailedFlies ==
  ASSUME NEW v, Fit(v), v.pretty => Indents(v.out)
  PROVE  LET u == Return(v, "usage") IN Fit(u) /\ InFlight(u)
<1>1. Fit(Return(v, "usage"))
  BY ReturnFit DEF Errs
<1>2. /\ Return(v, "usage").pretty = v.pretty /\ Return(v, "usage").out = v.out
      /\ Return(v, "usage").ret = "usage"
  BY DEF Return, Fit, Loose, Fields
<1> QED BY <1>1, <1>2 DEF InFlight

LEMMA BeginRestFlies ==
  ASSUME NEW v, Fit(v), Neatly(v), NEW name, NEW marks, IsStack(marks)
  PROVE  LET u == BeginRest(v, name, marks) IN Fit(u) /\ InFlight(u)
<1> DEFINE v1 == LayNext(v)
           v2 == NameNext(v1, name)
           v3 == MarkNext(v2, marks)
<1>1. Fit(v1) /\ InFlight(v1)
  <2>1. CASE v.ret = "nil"
    <3> DEFINE u == EmitTo(v, Layout(v))
    <3>1. v.err = "nil"
      BY <2>1 DEF Fit, Loose
    <3>2. IsStack(Layout(v))
      BY <3>1, LayoutList, LenProperties DEF Fit, Loose
    <3>3. v.pretty => LET t == v.out \o Layout(v)
                      IN  Indents(t) /\ OpenNow(t) = Len(v.ctx) /\ Hangs(t, Len(v.ctx))
      BY <2>1, <3>1, LayoutIndents DEF Neatly
    <3>4. Fit(u) /\ u.ctx = v.ctx /\ (u.ret = "nil" => u.out = v.out \o Layout(v))
      BY <3>1, <3>2, EmitFit
    <3>5. u.pretty = v.pretty /\ (v.pretty => Indents(u.out))
      BY <3>1, <3>2, <3>3, EmitTidy DEF Fit
    <3>6. v1 = u
      BY <2>1 DEF LayNext
    <3> HIDE DEF u, v1
    <3> QED BY <3>3, <3>4, <3>5, <3>6 DEF InFlight
  <2>2. CASE v.ret # "nil"
    BY <2>2 DEF LayNext, InFlight, Neatly
  <2> QED BY <2>1, <2>2
<1> HIDE DEF v1
<1>2. Fit(v2) /\ InFlight(v2)
  <2> DEFINE x == [v1 EXCEPT !.fieldName = name]
             y == [x EXCEPT !.fieldName = NoName]
  <2>1. CASE v1.ret = "nil"
    <3>1. /\ Fit(y) /\ y.ret = "nil" /\ y.pretty = v1.pretty /\ y.out = v1.out /\ y.ctx = v1.ctx
      BY <1>1, <2>1 DEF Fit, Loose, Fields
    <3> HIDE DEF y
    <3>2. InFlight(y)
      BY <1>1, <2>1, <3>1 DEF InFlight
    <3>3. Fit(Return(y, "usage")) /\ InFlight(Return(y, "usage"))
      BY <3>1, <3>2, FailedFlies DEF InFlight
    <3>4. \A a : Letters(a) => Fit(EmitTo(y, a)) /\ InFlight(EmitTo(y, a))
      BY <3>1, <3>2, LettersFly
    <3>5. Letters(Append(Parts(SymbolLexeme(x.fieldName)), Colon))
      BY NameLetters DEF Colon, IsLetter
    <3>6. WriteFieldName(x) \in {Return(y, "usage"), EmitTo(y, Append(Parts(SymbolLexeme(x.fieldName)), Colon))}
      BY DEF WriteFieldName, y
    <3>7. Fit(WriteFieldName(x)) /\ InFlight(WriteFieldName(x))
      BY <3>3, <3>4, <3>5, <3>6
    <3> HIDE DEF x
    <3> QED BY <1>1, <3>7 DEF NameNext, x
  <2>2. CASE v1.ret # "nil"
    BY <1>1, <2>2 DEF NameNext
  <2> QED BY <2>1, <2>2
<1> HIDE DEF v2
<1>3. Fit(v3) /\ InFlight(v3)
  <2>1. CASE v2.ret = "nil"
    <3> DEFINE invalid == {i \in 1 .. Len(marks) : ~Valid(marks[i])}
               n       == IF invalid = {} THEN Len(marks) ELSE MinOf(invalid) - 1
               atoms   == Lists!FlattenSeq([i \in 1 .. n |->
                                   Append(Parts(SymbolLexeme(marks[i])), DoubleColon)])
               x       == EmitTo(v2, atoms)
    <3>1. n \in Nat
      <4>1. Len(marks) \in Nat
        BY StackLen
      <4>2. invalid \subseteq Nat /\ invalid \subseteq 1 .. Len(marks)
        BY <4>1
      <4>3. invalid # {} => MinOf(invalid) \in invalid
        <5> HIDE DEF invalid
        <5> QED BY <4>2, LeastNat
      <4> QED BY <4>1, <4>2, <4>3
    <3>2. WriteAnnotations(v2, marks) \in {x, Return(x, "usage")}
      BY DEF WriteAnnotations
    <3> HIDE DEF n
    <3>3. Letters(atoms)
      BY <3>1, MarkLetters
    <3> HIDE DEF atoms
    <3>4. Fit(x) /\ InFlight(x)
      BY <1>2, <2>1, <3>3, LettersFly
    <3> HIDE DEF x
    <3>5. Fit(Return(x, "usage")) /\ InFlight(Return(x, "usage"))
      BY <3>4, FailedFlies DEF InFlight
    <3>6. v3 = WriteAnnotations(v2, marks)
      BY <2>1 DEF MarkNext
    <3> HIDE DEF v3
    <3> QED BY <3>2, <3>4, <3>5, <3>6
  <2>2. CASE v2.ret # "nil"
    BY <1>2, <2>2 DEF MarkNext
  <2> QED BY <2>1, <2>2
<1> QED BY <1>3 DEF BeginRest, v1, v2, v3

LEMMA StoreNeat ==
  ASSUME NEW v, Fit(v), v.pretty => Indents(v.out), v.ret # "nil"
  PROVE  Fit(Store(v)) /\ Neatly(Store(v))
<1>1. Fit(Store(v)) /\ Store(v).err # "nil"
  BY StoreFit
<1>2. Store(v).pretty = v.pretty /\ Store(v).out = v.out
  BY DEF Store, Fit, Loose, Fields
<1> QED BY <1>1, <1>2 DEF Neatly

LEMMA PutLexemeNeat ==
  ASSUME NEW v, Fit(v), InFlight(v), NEW l, l.calls \in Nat \ {0}
  PROVE  Fit(PutLexeme(v, l)) /\ Neatly(PutLexeme(v, l))
<1> DEFINE v1 == EmitTo(v, Parts(l))
           u  == PutLexeme(v, l)
<1>0. Fit(u)
  BY PutLexemeFit
<1>1. CASE v.ret # "nil"
  <2>1. u = Store(v)
    BY <1>1 DEF PutLexeme
  <2> QED BY <1>1, <2>1, StoreNeat DEF InFlight
<1>2. CASE v.ret = "nil"
  <2>1. Letters(Parts(l)) /\ Parts(l) # << >>
    BY PartsLetters
  <2>2. Fit(v1) /\ InFlight(v1) /\ (v1.pretty /\ v1.ret = "nil" => Solid(v1.out))
    BY <1>2, <2>1, LettersFly
  <2>3. v1.ret \in {"nil", "io"}
    <3>1. v.err = "nil"
      BY <1>2 DEF Fit, Loose
    <3> QED BY <2>1, <3>1, EmitFit DEF Letters
  <2>4. (u = EndValue(v1) /\ v1.ret = "nil") \/ (v1.ret # "nil" /\ u \in {v1, Store(v1)})
    BY <1>2 DEF PutLexeme
  <2> HIDE DEF v1, u
  <2>5. CASE u = EndValue(v1) /\ v1.ret = "nil"
    <3>1. u.pretty = v1.pretty /\ u.out = v1.out /\ u.ctx = v1.ctx
      BY <2>2, <2>5 DEF EndValue, Fit, Loose, Fields
    <3>2. v1.pretty => Indents(v1.out) /\ Standing(v1)
      BY <2>2, <2>5, Zenon DEF Standing, InFlight
    <3>3. Standing(v1) => Standing(u)
      BY <3>1, Zenon DEF Standing
    <3>4. Neatly(u)
      BY <3>1, <3>2, <3>3, Zenon DEF Neatly
    <3> QED BY <1>0, <3>4 DEF u
  <2>6. CASE u = v1 /\ v1.ret # "nil"
    BY <2>2, <2>3, <2>6 DEF Neatly, InFlight, u
  <2>7. CASE u = Store(v1) /\ v1.ret # "nil"
    BY <2>2, <2>7, StoreNeat DEF InFlight, u
  <2> QED BY <2>4, <2>5, <2>6, <2>7
<1> QED BY <1>1, <1>2

LEMMA EnterNeat ==
  ASSUME NEW v, Fit(v), InFlight(v), NEW c \in Contexts
  PROVE  Fit(Enter(v, c)) /\ Neatly(Enter(v, c))
<1> DEFINE v1 == [v EXCEPT !.ctx = Append(@, c), !.indent = @ + 1,
                           !.needsSeparator = FALSE, !.emptyContainer = TRUE]
           v2 == EmitTo(v1, <<Opening(c)>>)
           u  == Enter(v, c)
<1>0. Fit(u)
  BY EnterFit
<1>1. CASE v.ret # "nil"
  <2>1. u = Store(v)
    BY <1>1 DEF Enter
  <2> QED BY <1>1, <2>1, StoreNeat DEF InFlight
<1>2. CASE v.ret = "nil"
  <2>1. v.err = "nil" /\ v.ctx \in Seq(Contexts) /\ v.indent = Len(v.ctx) /\ IsStack(v.out)
    BY <1>2 DEF Fit, Loose
  <2>2. /\ Append(v.ctx, c) \in Seq(Contexts) /\ Len(Append(v.ctx, c)) = Len(v.ctx) + 1
        /\ Append(v.ctx, c) # << >>
    <3>1. Append(v.ctx, c) \in Seq(Contexts) /\ Len(Append(v.ctx, c)) = Len(v.ctx) + 1
      BY <2>1, AppendProperties
    <3>2. Len(v.ctx) \in Nat
      BY <2>1, LenProperties
    <3> QED BY <3>1, <3>2, EmptySeq
  <2>3. /\ Fit(v1) /\ v1.err = "nil" /\ v1.ctx = Append(v.ctx, c) /\ v1.out = v.out
        /\ v1.pretty = v.pretty
    BY <2>1, <2>2 DEF Fit, Loose, Fields
  <2>4. u = Store(v2)
    BY <1>2 DEF Enter
  <2>5. v.pretty => LET t == v.out \o <<Opening(c)>>
                    IN  Indents(t) /\ Solid(t) /\ OpenNow(t) = Len(v1.ctx)
    <3>1. v.pretty => LET t == v.out \o <<Opening(c)>>
                      IN  Indents(t) /\ Solid(t) /\ OpenNow(t) = OpenNow(v.out) + 1
      BY <1>2, <2>1, OpeningIndents DEF InFlight
    <3> QED BY <1>2, <2>2, <2>3, <3>1 DEF InFlight
  <2> HIDE DEF v1, u
  <2>6. Fit(v2) /\ v2.ctx = v1.ctx /\ (v2.ret = "nil" => v2.out = v1.out \o <<Opening(c)>>)
    BY <2>3, Tuples, EmitFit
  <2>7. v2.pretty = v1.pretty /\ (v1.pretty => Indents(v2.out))
    BY <2>3, <2>5, Tuples, EmitTidy DEF Fit
  <2> HIDE DEF v2
  <2>8. /\ Store(v2).pretty = v2.pretty /\ Store(v2).out = v2.out /\ Store(v2).ctx = v2.ctx
        /\ Store(v2).err = v2.ret
    BY <2>6 DEF Store, Fit, Loose, Fields
  <2>9. Neatly(Store(v2))
    <3> DEFINE x == Store(v2)
               t == v.out \o <<Opening(c)>>
    <3>1. x.pretty => v.pretty /\ Indents(x.out)
      BY <2>3, <2>7, <2>8, Zenon
    <3>2. x.err = "nil" => x.out = t /\ x.ctx = v1.ctx
      BY <2>3, <2>6, <2>8, Zenon
    <3>3. v.pretty => Solid(t) /\ OpenNow(t) = Len(v1.ctx)
      BY <2>5
    <3> HIDE DEF x, t
    <3>4. x.pretty /\ x.err = "nil" => Standing(x)
      BY <3>1, <3>2, <3>3, Zenon DEF Standing
    <3>5. Neatly(x)
      BY <3>1, <3>4, Zenon DEF Neatly
    <3> QED BY <3>5 DEF x
  <2> QED BY <1>0, <2>4, <2>9 DEF u
<1> QED BY <1>1, <1>2

LEMMA RefusedNeat ==
  ASSUME NEW v, Fit(v), v.pretty => Indents(v.out)
  PROVE  Neatly(Store(Return(v, "usage"))) /\ (v.err # "nil" => Neatly(Return(v, v.err)))
<1>1. /\ Store(Return(v, "usage")).pretty = v.pretty /\ Store(Return(v, "usage")).out = v.out
      /\ Store(Return(v, "usage")).err = "usage"
  BY DEF Store, Return, Fit, Loose, Fields
<1>2. /\ Return(v, v.err).pretty = v.pretty /\ Return(v, v.err).out = v.out
      /\ Return(v, v.err).err = v.err
  BY DEF Return, Fit, Loose, Fields
<1> QED BY <1>1, <1>2 DEF Neatly

\* Between two calls.
Neat(v) == v.pretty => Indents(v.out) /\ (v.err = "nil" => Standing(v))

LEMMA EndNeat ==
  ASSUME NEW v, Fit(v), Neat(v), NEW c
  PROVE  Neatly(End(v, c))
<1> DEFINE u == End(v, c)
<1>1. CASE v.err # "nil"
  BY <1>1, RefusedNeat DEF End, Neat
<1>2. CASE v.err = "nil" /\ (v.ctx = << >> \/ Top(v.ctx) # c)
  BY <1>2, RefusedNeat DEF End, Neat
<1>3. CASE v.err = "nil" /\ ~(v.ctx = << >> \/ Top(v.ctx) # c)
  <2> DEFINE v0 == [v EXCEPT !.indent = @ - 1]
             a  == Append(EndLayout(v0), Closing(c))
             v1 == EmitTo(v0, a)
             v2 == Clear(v1)
             v3 == [v2 EXCEPT !.ctx = Pop(@)]
  <2>1. u = IF v1.ret # "nil" THEN Store(v1) ELSE EndValue(v3)
    BY <1>3 DEF End, Leave
  <2>2. /\ Loose(v) /\ v.ctx \in Seq(Contexts) /\ v.indent = Len(v.ctx) /\ v.err = "nil"
        /\ v.ctx # << >>
    BY <1>3 DEF Fit, Loose
  <2>3. Pop(v.ctx) \in Seq(Contexts) /\ Len(Pop(v.ctx)) = Len(v.ctx) - 1 /\ Len(Pop(v.ctx)) \in Nat
    BY <2>2 DEF Pop
  <2>4. /\ Loose(v0) /\ v0.ctx = v.ctx /\ v0.err = "nil" /\ v0.indent = Len(Pop(v.ctx))
        /\ v0.emptyContainer = v.emptyContainer /\ v0.out = v.out /\ v0.pretty = v.pretty
    BY <2>2, <2>3 DEF Loose, Fields
  <2> HIDE DEF v0, u
  <2>5. IsStack(EndLayout(v0)) /\ IsStack(a) /\ IsStack(v0.out)
    <3>1. IsStack(EndLayout(v0))
      BY <2>3, <2>4, Tuples, IndentationList, StackConcat DEF EndLayout
    <3> QED BY <2>4, <3>1, StackPushed DEF Loose
  <2>6. v0.pretty => Indents(v0.out \o a) /\ Solid(v0.out \o a) /\ OpenNow(v0.out \o a) = Len(Pop(v.ctx))
    <3> SUFFICES ASSUME v0.pretty
                 PROVE  Indents(v0.out \o a) /\ Solid(v0.out \o a) /\ OpenNow(v0.out \o a) = Len(Pop(v.ctx))
      OBVIOUS
    <3> DEFINE s == v0.out \o EndLayout(v0)
    <3>1. Indents(v0.out) /\ Solid(v0.out) /\ OpenNow(v0.out) = Len(v.ctx)
      BY <2>2, <2>4 DEF Neat, Standing
    <3>2. Indents(s) /\ OpenNow(s) = OpenNow(v0.out) /\ Hangs(s, v0.indent)
      BY <2>3, <2>4, <2>5, <3>1, EndLayoutIndents
    <3>3. v0.out \o a = s \o <<Closing(c)>> /\ IsStack(s)
      <4>1. PICK o, e : o = v0.out /\ e = EndLayout(v0)
        OBVIOUS
      <4>2. IsStack(o) /\ IsStack(e)
        BY <2>5, <4>1
      <4>3. Append(o \o e, Closing(c)) = o \o Append(e, Closing(c)) /\ IsStack(o \o e)
        BY <4>2, AppendLast, StackConcat
      <4>4. Append(o \o e, Closing(c)) = (o \o e) \o <<Closing(c)>>
        BY <4>3, AppendOne
      <4> QED BY <4>1, <4>3, <4>4, Zenon
    <3> HIDE DEF s
    <3>4. Hangs(s, OpenNow(s) - 1) /\ OpenNow(s) - 1 = Len(Pop(v.ctx))
      BY <2>3, <2>4, <3>1, <3>2
    <3>5. LET t == s \o <<Closing(c)>> IN Indents(t) /\ Solid(t) /\ OpenNow(t) = OpenNow(s) - 1
      BY <3>2, <3>3, <3>4, ClosingIndents
    <3> QED BY <3>3, <3>4, <3>5
  <2>7. v1.pretty = v0.pretty /\ (v0.pretty => Indents(v1.out))
    BY <2>4, <2>5, <2>6, EmitTidy
  <2>8. Loose(v1) /\ v1.err = "nil" /\ (v1.ret = "nil" => v1.out = v0.out \o a)
    BY <2>4, <2>5, EmitLoose
  <2>9. v1.ctx = v.ctx
    BY <2>4, <2>5, EmitLoose
  <2> HIDE DEF v1, a
  <2>10. CASE v1.ret # "nil"
    <3>1. u = Store(v1)
      BY <2>1, <2>10
    <3>2. Store(v1).pretty = v1.pretty /\ Store(v1).out = v1.out /\ Store(v1).err = v1.ret
      BY <2>8 DEF Store, Loose, Fields
    <3> QED BY <2>7, <2>10, <3>1, <3>2 DEF Neatly, u
  <2>11. CASE v1.ret = "nil"
    <3>1. u = EndValue(v3)
      BY <2>1, <2>11
    <3>2. Fields \subseteq DOMAIN v3 /\ v3.pretty = v1.pretty /\ v3.ctx = Pop(v.ctx) /\ v3.out = v1.out
      BY <2>8, <2>9 DEF Clear, Fields, Loose
    <3> HIDE DEF v3
    <3>3. u.pretty = v1.pretty /\ u.ctx = Pop(v.ctx) /\ u.out = v1.out
      BY <3>1, <3>2 DEF EndValue, Fields
    <3>4. u.pretty => Indents(u.out) /\ Standing(u)
      <4>1. u.pretty => v0.pretty /\ Indents(u.out)
        BY <2>7, <3>3, Zenon
      <4>2. u.out = v0.out \o a /\ u.ctx = Pop(v.ctx)
        BY <2>8, <2>11, <3>3, Zenon
      <4> QED BY <2>6, <4>1, <4>2, Zenon DEF Standing
    <3>5. Neatly(u)
      BY <3>4, Zenon DEF Neatly
    <3> QED BY <3>5 DEF u
  <2> QED BY <2>10, <2>11
<1> QED BY <1>1, <1>2, <1>3

\* Whoever leaves the output, the contexts and the error as they are.
LEMMA SameNeat ==
  ASSUME NEW v, Neat(v), NEW u, u.pretty = v.pretty, u.out = v.out, u.ctx = v.ctx, u.err = v.err
  PROVE  Neat(u) /\ Neatly(u)
BY DEF Neat, Neatly, Standing

LEMMA FieldNameNeat ==
  ASSUME NEW v, Fit(v), Neat(v), NEW name
  PROVE  Neatly(FieldName(v, name))
<1>1. CASE v.err # "nil"
  BY <1>1, RefusedNeat DEF FieldName, Neat
<1>2. CASE v.err = "nil" /\ ~InStruct(v)
  BY <1>2, RefusedNeat DEF FieldName, Neat
<1>3. CASE v.err = "nil" /\ InStruct(v)
  <2> DEFINE u == FieldName(v, name)
  <2>1. u.pretty = v.pretty /\ u.out = v.out /\ u.ctx = v.ctx /\ u.err = v.err
    BY <1>3 DEF FieldName, Fit, Loose, Fields
  <2> HIDE DEF u
  <2>2. Neatly(u)
    BY <2>1, SameNeat
  <2> QED BY <2>2 DEF u
<1> QED BY <1>1, <1>2, <1>3

LEMMA AnnotationsNeat ==
  ASSUME NEW v, Fit(v), Neat(v), NEW marks
  PROVE  Neatly(Annotations(v, marks))
<1>1. CASE v.err # "nil"
  BY <1>1, RefusedNeat DEF Annotations, Neat
<1>2. CASE v.err = "nil"
  <2> DEFINE u == Annotations(v, marks)
  <2>1. u.pretty = v.pretty /\ u.out = v.out /\ u.ctx = v.ctx /\ u.err = v.err
    BY <1>2 DEF Annotations, Fit, Loose, Fields
  <2> HIDE DEF u
  <2>2. Neatly(u)
    BY <2>1, SameNeat
  <2> QED BY <2>2 DEF u
<1> QED BY <1>1, <1>2

LEMMA ClearNeat ==
  ASSUME NEW v, Fit(v), Neat(v)
  PROVE  Fit(Clear(v)) /\ Neat(Clear(v)) /\ Clear(v).err = v.err
<1>1. /\ Clear(v).pretty = v.pretty /\ Clear(v).out = v.out /\ Clear(v).ctx = v.ctx
      /\ Clear(v).err = v.err
  BY DEF Clear, Fit, Loose, Fields
<1>2. Neat(Clear(v))
  BY <1>1, SameNeat
<1> QED BY <1>1, <1>2, ClearFit

\* The calls of the table.
LEMMA DoNextNeat ==
  ASSUME NEW v, Fit(v), Neatly(v), NEW call, Proper(call)
  PROVE  Fit(DoNext(v, call)) /\ Neatly(DoNext(v, call))
<1>0. Fit(DoNext(v, call))
  BY DoNextFit
<1>1. CASE v.ret # "nil"
  BY <1>1 DEF DoNext
<1>2. CASE v.ret = "nil"
  <2>1. Neat(v)
    BY <1>2 DEF Neat, Neatly
  <2>2. Fit(Clear(v)) /\ Neatly(Clear(v))
    <3>1. Fit(Clear(v)) /\ Neat(Clear(v))
      BY <2>1, ClearNeat
    <3> QED BY <3>1 DEF Neat, Neatly
  <2>3. Fit(BeginNext(v)) /\ InFlight(BeginNext(v))
    BY <2>2, BeginRestFlies DEF BeginNext, Fit, Loose
  <2>4. Neatly(Do(v, call))
    <3>1. CASE call.e = "annotation"
      BY <2>1, <3>1, AnnotationsNeat DEF Do
    <3>2. CASE call.e = "field"
      BY <2>1, <3>2, FieldNameNeat DEF Do
    <3>3. CASE call.e = "begin"
      BY <2>3, <3>3, EnterNeat DEF Do, Proper
    <3>4. CASE call.e = "scalar"
      BY <2>3, <3>4, PutLexemeNeat DEF Do, Proper
    <3>5. CASE call.e \notin {"annotation", "field", "begin", "scalar"}
      BY <2>1, <3>5, EndNeat DEF Do
    <3> QED BY <3>1, <3>2, <3>3, <3>4, <3>5
  <2> QED BY <1>0, <1>2, <2>4 DEF DoNext
<1> QED BY <1>1, <1>2, <1>0

LEMMA RunCallsNeat ==
  ASSUME NEW v, Fit(v), Neatly(v), NEW calls, ProperCalls(calls)
  PROVE  Fit(RunCalls(v, calls)) /\ Neatly(RunCalls(v, calls))
<1>1. PICK n \in Nat : n = Len(calls)
  BY StackLen DEF ProperCalls
<1>2. PICK f : Runs(f, v, calls, n) /\ RunCalls(v, calls) = f[n]
  BY <1>1, RunCallsRuns
<1> DEFINE S == {k \in 0 .. n : Fit(f[k]) /\ Neatly(f[k])}
<1>3. 0 \in S
  BY <1>2 DEF Runs
<1>4. ASSUME NEW k \in 1 .. n, k - 1 \in S
      PROVE  k \in S
  <2>1. f[k] = DoNext(f[k - 1], calls[k])
    BY <1>2 DEF Runs
  <2>2. Proper(calls[k])
    BY <1>1 DEF ProperCalls
  <2>3. Fit(DoNext(f[k - 1], calls[k])) /\ Neatly(DoNext(f[k - 1], calls[k]))
    BY <1>4, <2>2, DoNextNeat
  <2> QED BY <2>1, <2>3
<1> HIDE DEF S
<1>5. n \in S
  BY <1>3, <1>4, Induction
<1> QED BY <1>2, <1>5 DEF S

LEMMA BeginValueFlies ==
  ASSUME NEW v, Fit(v), v.err = "nil", Neat(v)
  PROVE  Fit(BeginValue(v)) /\ InFlight(BeginValue(v))
<1> DEFINE v0 == Clear(v)
           v1 == Return(v0, "nil")
           v2 == [v1 EXCEPT !.wroteLST = TRUE]
           v3 == WriteTable(v1)
<1>1. Fit(v0) /\ v0.err = "nil" /\ Neat(v0)
  BY ClearNeat
<1> HIDE DEF v0
<1>2. Fit(v1) /\ v1.pretty = v0.pretty /\ v1.out = v0.out /\ v1.ctx = v0.ctx /\ v1.err = v0.err
  <2>1. Fit(v1)
    BY <1>1, ReturnFit DEF Errs
  <2> QED BY <1>1, <2>1 DEF Return, Fit, Loose, Fields
<1>3. Neatly(v1)
  BY <1>1, <1>2, SameNeat
<1> HIDE DEF v1
<1>4. Fit(v2) /\ v2.pretty = v1.pretty /\ v2.out = v1.out /\ v2.ctx = v1.ctx /\ v2.err = v1.err /\ v2.ret = v1.ret
  BY <1>2 DEF Fit, Loose, Fields
<1>5. Neatly(v2)
  <2> HIDE DEF v2
  <2> QED BY <1>3, <1>4 DEF Neatly, Standing
<1>6. ProperCalls(TableCalls(v1.tbl))
  BY <1>2, TableCallsProper DEF Fit, Loose
<1> HIDE DEF v2
<1>7. Fit(v3) /\ Neatly(v3)
  BY <1>2, <1>3, <1>4, <1>5, <1>6, RunCallsNeat DEF WriteTable, v2
<1> HIDE DEF v3
<1>8. LET u == BeginRest(v3, v.fieldName, v.annotations) IN Fit(u) /\ InFlight(u)
  BY <1>7, BeginRestFlies DEF Fit, Loose
<1> QED BY <1>8 DEF BeginValue, v0, v1, v3

LEMMA WriteLexemeNeat ==
  ASSUME NEW v, Fit(v), Neat(v), NEW l, l.calls \in Nat \ {0}
  PROVE  Neatly(WriteLexeme(v, l))
<1>1. CASE v.err # "nil"
  BY <1>1, RefusedNeat DEF WriteLexeme, Neat
<1>2. CASE v.err = "nil"
  BY <1>2, BeginValueFlies, PutLexemeNeat DEF WriteLexeme
<1> QED BY <1>1, <1>2

LEMMA WriteSymbolNeat ==
  ASSUME NEW v, Fit(v), Neat(v), NEW tok
  PROVE  Neatly(WriteSymbol(v, tok))
<1>1. CASE v.err # "nil"
  BY <1>1, RefusedNeat DEF WriteSymbol, Neat
<1>2. CASE v.err = "nil"
  <2> DEFINE v1 == BeginValue(v)
             v2 == IF v1.ret = "nil" THEN Return(v1, "usage") ELSE v1
  <2>1. WriteSymbol(v, tok) = IF Valid(tok) THEN PutLexeme(v1, SymbolLexeme(tok)) ELSE Store(v2)
    BY <1>2 DEF WriteSymbol
  <2>2. Fit(v1) /\ InFlight(v1)
    BY <1>2, BeginValueFlies
  <2> HIDE DEF v1
  <2>3. Neatly(PutLexeme(v1, SymbolLexeme(tok)))
    BY <2>2, LexemeCalls, PutLexemeNeat
  <2>4. /\ Fit(Return(v1, "usage")) /\ Return(v1, "usage").ret = "usage"
        /\ Return(v1, "usage").out = v1.out /\ Return(v1, "usage").pretty = v1.pretty
    <3>1. Fit(Return(v1, "usage"))
      BY <2>2, ReturnFit DEF Errs
    <3> QED BY <2>2, <3>1 DEF Return, Fit, Loose, Fields
  <2>5. Fit(v2) /\ v2.ret # "nil" /\ (v2.pretty => Indents(v2.out))
    BY <2>2, <2>4 DEF InFlight
  <2> HIDE DEF v2
  <2>6. Neatly(Store(v2))
    BY <2>5, StoreNeat
  <2> QED BY <2>1, <2>3, <2>6
<1> QED BY <1>1, <1>2

LEMMA BeginNeat ==
  ASSUME NEW v, Fit(v), Neat(v), NEW c \in Contexts
  PROVE  Neatly(Begin(v, c))
<1>1. CASE v.err # "nil"
  BY <1>1, RefusedNeat DEF Begin, Neat
<1>2. CASE v.err = "nil"
  BY <1>2, BeginValueFlies, EnterNeat DEF Begin
<1> QED BY <1>1, <1>2

\* Finish ends the line, with no container open.
LEMMA FinishNeat ==
  ASSUME NEW v, Fit(v), Neat(v)
  PROVE  Neatly(Finish(v))
<1> DEFINE u == Finish(v)
<1>1. CASE v.err # "nil"
  BY <1>1, RefusedNeat DEF Finish, Neat
<1>2. CASE v.err = "nil" /\ (v.ctx # << >> \/ v.emptyStream \/ v.quiet)
  <2>1. u \in {Return(v, "usage"), Clear(Return(v, "nil"))}
    BY <1>2 DEF Finish
  <2>2. u.pretty = v.pretty /\ u.out = v.out /\ u.ctx = v.ctx /\ u.err = v.err
    <3> HIDE DEF u
    <3>1. CASE u = Return(v, "usage")
      BY <3>1 DEF Return, Fit, Loose, Fields
    <3>2. CASE u = Clear(Return(v, "nil"))
      BY <3>2 DEF Return, Clear, Fit, Loose, Fields
    <3> QED BY <2>1, <3>1, <3>2
  <2> HIDE DEF u
  <2>3. Neatly(u)
    BY <2>2, SameNeat
  <2> QED BY <2>3 DEF u
<1>3. CASE v.err = "nil" /\ v.ctx = << >> /\ ~v.emptyStream /\ ~v.quiet
  <2> DEFINE e  == <<Newline>>
             v1 == EmitTo(v, e)
             v2 == Clear(v1)
             v3 == [v2 EXCEPT !.needsSeparator = FALSE, !.emptyStream = TRUE]
  <2>1. u = IF v1.ret # "nil" THEN Store(v1) ELSE v3
    BY <1>3 DEF Finish
  <2>2. IsStack(e) /\ e # << >> /\ Len(e) = 1 /\ e[1] = Newline
    BY Tuples
  <2> HIDE DEF e
  <2>3. v.pretty => Indents(v.out \o e) /\ OpenNow(v.out \o e) = Len(v.ctx) /\ Hangs(v.out \o e, 0)
    <3>1. IsStack(v.out)
      BY DEF Fit, Loose
    <3>2. \A i \in 1 .. Len(e) : IsBreak(e[i])
      BY <2>2, Atoms
    <3>3. AllTabs(0) = << >>
      BY DEF AllTabs
    <3>4. e \o AllTabs(0) = e
      BY <2>2, <3>3, ConcatNothing
    <3>5. v.pretty => Indents(v.out \o e) /\ OpenNow(v.out \o e) = OpenNow(v.out) /\ Hangs(v.out \o e, 0)
      <4>1. 0 \in Nat
        OBVIOUS
      <4>2. v.pretty => LET a == e \o AllTabs(0)
                        IN  Indents(v.out \o a) /\ OpenNow(v.out \o a) = OpenNow(v.out) /\ Hangs(v.out \o a, 0)
        BY <2>2, <3>1, <3>2, <4>1, LineBegins DEF Neat
      <4> QED BY <3>4, <4>2
    <3> QED BY <1>3, <3>5 DEF Neat, Standing
  <2>4. /\ Fit(v1) /\ v1.ctx = v.ctx /\ v1.err = v.err
        /\ v1.ret = "nil" => v1.out = v.out \o e
    BY <1>3, <2>2, EmitFit
  <2>5. v1.pretty = v.pretty /\ (v.pretty => Indents(v1.out))
    BY <1>3, <2>2, <2>3, EmitTidy DEF Fit
  <2> HIDE DEF v1, u
  <2>6. CASE v1.ret # "nil"
    BY <2>1, <2>4, <2>5, <2>6, StoreNeat DEF u
  <2>7. CASE v1.ret = "nil"
    <3>1. v3.pretty = v1.pretty /\ v3.out = v1.out /\ v3.ctx = v1.ctx
      BY <2>4 DEF Clear, Fit, Loose, Fields
    <3> HIDE DEF v3
    <3>2. v3.out = v.out \o e /\ v3.ctx = v.ctx /\ v3.pretty = v.pretty
      BY <2>4, <2>5, <2>7, <3>1, Zenon
    <3>3. v3.pretty => Indents(v3.out) /\ OpenNow(v3.out) = Len(v3.ctx) /\ Hangs(v3.out, 0)
      BY <2>3, <3>2, Zenon
    <3>4. v3.ctx = << >>
      BY <1>3, <3>2, Zenon
    <3>5. Neatly(v3)
      BY <3>3, <3>4, Zenon DEF Neatly, Standing
    <3> QED BY <2>1, <2>7, <3>5 DEF u
  <2> QED BY <2>6, <2>7
<1> QED BY <1>1, <1>2, <1>3

\* As long as no error was forgotten, the lines are indented.
LinesFit == kept => Neat(w)

LEMMA InitLines == Init => LinesFit
<1> SUFFICES ASSUME Init
             PROVE  Neat(w)
  BY DEF LinesFit
<1>1. w.out = << >> /\ w.ctx = << >> /\ Len(<< >>) = 0
  BY DEF Init, NewTextWriter
<1> DEFINE none == << >>
<1>2. Indents(none) /\ Hangs(none, 0)
  BY DEF Indents, Hangs
<1>3. OpenNow(none) = 0
  <2>1. Brackets(none, "open", 0) = {} /\ Brackets(none, "close", 0) = {}
    BY DEF Brackets
  <2>2. OpenBehind(none, 0) = 0
    <3>1. Cardinality({}) = 0
      BY FS_EmptySet
    <3>2. OpenBehind(none, 0) = Cardinality({}) - Cardinality({})
      BY <2>1, Zenon DEF OpenBehind
    <3> QED BY <3>1, <3>2
  <2>3. OpenNow(none) = OpenBehind(none, 0)
    BY <1>1 DEF OpenNow
  <2> QED BY <2>2, <2>3
<1>4. w.out = none /\ w.ctx = none /\ Len(w.ctx) = 0
  BY <1>1
<1> HIDE DEF none
<1>5. Standing(w)
  BY <1>1, <1>2, <1>3, <1>4 DEF Standing
<1> QED BY <1>2, <1>4, <1>5 DEF Neat

LEMMA CallLines ==
  ASSUME WriterFit, LinesFit, NEW u, NEW events, Call(u, events), Neat(w) => Neatly(u)
  PROVE  LinesFit'
<1>1. w' = u /\ (kept' => kept /\ (u.ret = "io" => u.err = "io"))
  BY DEF Call
<1>2. kept' => Neat(u)
  BY <1>1 DEF LinesFit, Neat, Neatly
<1>3. Neat(w)' = Neat(u)
  BY <1>1 DEF Neat, Standing
<1> QED BY <1>2, <1>3 DEF LinesFit

LEMMA NextLines ==
  ASSUME WriterFit, LinesFit, Next
  PROVE  LinesFit'
<1>1. Fit(w)
  BY DEF WriterFit
<1>2. CASE CallFieldName
  BY <1>1, <1>2, FieldNameNeat, CallLines DEF CallFieldName
<1>3. CASE CallAnnotations
  BY <1>1, <1>3, AnnotationsNeat, CallLines DEF CallAnnotations
<1>4. CASE CallScalar
  BY <1>1, <1>4, ScalarsAssumption, WriteLexemeNeat, CallLines DEF CallScalar
<1>5. CASE CallSymbol
  BY <1>1, <1>5, WriteSymbolNeat, CallLines DEF CallSymbol
<1>6. CASE CallSymbolFromString
  BY <1>1, <1>6, LexemeCalls, WriteLexemeNeat, CallLines
     DEF CallSymbolFromString, WriteSymbolFromString
<1>7. CASE CallBegin
  BY <1>1, <1>7, KindsAssumption, BeginNeat, CallLines DEF CallBegin
<1>8. CASE CallEnd
  BY <1>1, <1>8, EndNeat, CallLines DEF CallEnd
<1>9. CASE CallFinish
  BY <1>1, <1>9, FinishNeat, CallLines DEF CallFinish
<1> QED BY <1>2, <1>3, <1>4, <1>5, <1>6, <1>7, <1>8, <1>9 DEF Next

LEMMA LinesFitStep == WriterFit /\ LinesFit /\ [Next]_vars => LinesFit'
<1>1. CASE Next
  BY <1>1, NextLines
<1>2. CASE UNCHANGED vars
  BY <1>2 DEF vars, LinesFit, Neat, Standing
<1> QED BY <1>1, <1>2

\* Every line that pretty output begins starts with a tab for each container that is
\* open there, whatever was finished, refused or failed before, and whatever table
\* went out in front (textwriter.go:331, 458).
THEOREM LinesAreIndented == Spec => []Indented
<1>1. LinesFit => Indented
  <2> SUFFICES ASSUME LinesFit, w.pretty, kept
               PROVE  Indented
    BY DEF Indented
  <2>1. Indents(w.out)
    BY DEF LinesFit, Neat
  <2>2. ASSUME NEW i \in 1 .. Len(w.out), w.out[i].k \in {"space", "comma"} /\ w.out[i].ch = "\n",
               NEW j \in i + 1 .. Len(w.out)
        PROVE  Tabbed(w.out, i, j)
    BY <2>1, <2>2 DEF Indents, IsBreak
  <2>3. \A i \in Nat :
          OpenBehind(w.out, i) = Cardinality({j \in 1 .. i : w.out[j].k = "open"})
                               - Cardinality({j \in 1 .. i : w.out[j].k = "close"})
    BY Zenon DEF OpenBehind, Brackets
  <2> QED BY <2>2, <2>3 DEF Tabbed, Indented, IsBreak, Tab, OpenBehind, Brackets
<1> QED BY <1>1, InitFit, WriterFitStep, InitLines, LinesFitStep, PTL DEF Spec
=============================================================================
