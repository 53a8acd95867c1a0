------------------------------- MODULE Lemmas -------------------------------
(***************************************************************************)
(* What the proofs share: induction over numbers, values computed in       *)
(* steps, and sequences of anything.                                       *)
(*                                                                         *)
(* Induction is stated for a set of numbers and not for a predicate, so    *)
(* that it can be cited: it says that the set has no least gap.            *)
(***************************************************************************)
EXTENDS Integers, SequenceTheorems, WellFoundedInduction, TLAPS

\* A sequence, of whatever.
IsStack(s) == \E S : s \in Seq(S)

\* Every set of natural numbers but the empty one has a least member.
LEMMA Least ==
  ASSUME NEW T \in SUBSET Nat, T # {}
  PROVE  \E x \in T : \A y \in T : ~(y < x)
<1> DEFINE R == {ss \in Nat \X Nat : ss[1] < ss[2]}
<1>1. IsWellFoundedOn(R, Nat)
  BY NatLessThanWellFounded DEF OpToRel
<1>2. PICK x \in T : \A y \in T : <<y, x>> \notin R
  BY <1>1, WFMin
<1> QED BY <1>2

\* What 0 has, and every number up to n has if the one before it has it, they all
\* have.
LEMMA Induction ==
  ASSUME NEW S, NEW n \in Nat, 0 \in S, \A i \in 1 .. n : i - 1 \in S => i \in S
  PROVE  \A i \in 0 .. n : i \in S
<1> DEFINE T == {i \in 0 .. n : i \notin S}
<1>1. T \in SUBSET Nat
  OBVIOUS
<1>2. ASSUME T # {}
      PROVE  FALSE
  <2>1. PICK x \in T : \A y \in T : ~(y < x)
    <3> HIDE DEF T
    <3> QED BY <1>1, <1>2, Least
  <2>2. x \in 1 .. n /\ x - 1 \in 0 .. n /\ x - 1 < x
    BY <2>1
  <2>3. x - 1 \in S
    BY <2>1, <2>2
  <2> QED BY <2>1, <2>2, <2>3
<1> QED BY <1>2

\* f computes a value in n steps, from a on, each by h from the one before it.
Computation(f, n, a, h) ==
  /\ f = [i \in 0 .. n |-> f[i]]
  /\ f[0] = a
  /\ \A i \in 1 .. n : f[i] = h[<<f[i - 1], i>>]

\* Such a computation exists, so a recursive function over 0 .. n is what its
\* definition says.
LEMMA Steps ==
  ASSUME NEW n \in Nat, NEW a, NEW h
  PROVE  \E f : Computation(f, n, a, h)
<1> DEFINE Computes(f, k) == f = [i \in 0 .. k |-> IF i = 0 THEN a ELSE h[<<f[i - 1], i>>]]
           S == {k \in 0 .. n : \E f : Computes(f, k)}
<1>1. 0 \in S
  <2>1. Computes([i \in 0 .. 0 |-> a], 0)
    OBVIOUS
  <2> HIDE DEF Computes
  <2> QED BY <2>1
<1>2. ASSUME NEW k \in 1 .. n, k - 1 \in S
      PROVE  k \in S
  <2>1. PICK f : Computes(f, k - 1)
    BY <1>2
  <2> DEFINE g == [i \in 0 .. k |-> IF i = k THEN h[<<f[k - 1], k>>] ELSE f[i]]
  <2>2. \A i \in 0 .. k : g[i] = IF i = 0 THEN a ELSE h[<<g[i - 1], i>>]
    <3>1. ASSUME NEW i \in 0 .. k
          PROVE  g[i] = IF i = 0 THEN a ELSE h[<<g[i - 1], i>>]
      <4>1. CASE i = k
        <5>1. g[i] = h[<<f[k - 1], k>>] /\ g[i - 1] = f[k - 1]
          BY <4>1
        <5> QED BY <4>1, <5>1
      <4>2. CASE i = 0
        BY <2>1, <4>2
      <4>3. CASE i # k /\ i # 0
        <5>1. i \in 0 .. k - 1 /\ i - 1 \in 0 .. k - 1 /\ i - 1 # k /\ i - 1 \in 0 .. k
          BY <4>3
        <5>2. g[i] = f[i] /\ g[i - 1] = f[i - 1]
          BY <4>3, <5>1
        <5>3. f[i] = IF i = 0 THEN a ELSE h[<<f[i - 1], i>>]
          BY <2>1, <5>1
        <5> QED BY <5>2, <5>3
      <4> QED BY <4>1, <4>2, <4>3
    <3> QED BY <3>1
  <2>3. Computes(g, k)
    <3>1. g = [i \in 0 .. k |-> g[i]]
      OBVIOUS
    <3> HIDE DEF g
    <3> QED BY <2>2, <3>1
  <2> HIDE DEF Computes
  <2> QED BY <2>3
<1>3. \A k \in 0 .. n : k \in S
  <2> HIDE DEF S
  <2> QED BY <1>1, <1>2, Induction
<1>4. PICK f : Computes(f, n)
  <2> HIDE DEF Computes
  <2> QED BY <1>3
<1>5. f[0] = a /\ \A i \in 1 .. n : f[i] = h[<<f[i - 1], i>>]
  BY <1>4
<1>6. f = [i \in 0 .. n |-> f[i]]
  BY <1>4
<1> QED BY <1>5, <1>6 DEF Computation
-----------------------------------------------------------------------------
(***************************************************************************)
(* Sequences.                                                              *)
(***************************************************************************)
\* The length of a stack is a number.
LEMMA StackLen ==
  ASSUME NEW s, IsStack(s)
  PROVE  /\ Len(s) \in Nat
         /\ s # << >> <=> Len(s) > 0
BY LenProperties, EmptySeq DEF IsStack

\* The first n members of a sequence.
LEMMA StackPrefix ==
  ASSUME NEW S, NEW s, NEW n \in Nat, \A i \in 1 .. n : s[i] \in S
  PROVE  /\ SubSeq(s, 1, n) \in Seq(S)
         /\ Len(SubSeq(s, 1, n)) = n
         /\ \A i \in 1 .. n : SubSeq(s, 1, n)[i] = s[i]
<1>1. /\ SubSeq(s, 1, n) \in Seq(S)
      /\ Len(SubSeq(s, 1, n)) = IF 1 <= n THEN n - 1 + 1 ELSE 0
      /\ \A i \in 1 .. n - 1 + 1 : SubSeq(s, 1, n)[i] = s[1 + i - 1]
  BY SubSeqProperties
<1>2. Len(SubSeq(s, 1, n)) = n
  BY <1>1
<1>3. \A i \in 1 .. n : SubSeq(s, 1, n)[i] = s[i]
  BY <1>1
<1> QED BY <1>1, <1>2, <1>3

\* One member more.
LEMMA StackPushed ==
  ASSUME NEW s, NEW b, IsStack(s)
  PROVE  /\ IsStack(Append(s, b)) /\ Len(Append(s, b)) = Len(s) + 1
         /\ \A i \in 1 .. Len(s) : Append(s, b)[i] = s[i]
         /\ Append(s, b)[Len(s) + 1] = b
<1>1. PICK S : s \in Seq(S)
  BY DEF IsStack
<1>2. s \in Seq(S \cup {b}) /\ b \in S \cup {b}
  BY <1>1, SeqMonotonic
<1>3. /\ Append(s, b) \in Seq(S \cup {b})
      /\ Len(Append(s, b)) = Len(s) + 1
      /\ \A i \in 1 .. Len(s) : Append(s, b)[i] = s[i]
      /\ Append(s, b)[Len(s) + 1] = b
  BY <1>2, AppendProperties
<1> QED BY <1>3 DEF IsStack

\* Two sequences in a row.
LEMMA StackConcat ==
  ASSUME NEW a, NEW b, IsStack(a), IsStack(b)
  PROVE  /\ IsStack(a \o b) /\ Len(a \o b) = Len(a) + Len(b)
         /\ \A i \in 1 .. Len(a) + Len(b) :
              (a \o b)[i] = IF i <= Len(a) THEN a[i] ELSE b[i - Len(a)]
<1>1. PICK S, T : a \in Seq(S) /\ b \in Seq(T)
  BY DEF IsStack
<1>2. a \in Seq(S \cup T) /\ b \in Seq(S \cup T)
  BY <1>1, SeqMonotonic
<1>3. /\ a \o b \in Seq(S \cup T) /\ Len(a \o b) = Len(a) + Len(b)
      /\ \A i \in 1 .. Len(a) + Len(b) :
              (a \o b)[i] = IF i <= Len(a) THEN a[i] ELSE b[i - Len(a)]
  BY <1>2, ConcatProperties
<1> QED BY <1>3 DEF IsStack
-----------------------------------------------------------------------------
(***************************************************************************)
(* Concatenation, and sequences that lead others.                          *)
(***************************************************************************)
\* Written down, a sequence is one.
LEMMA Tuples ==
  /\ IsStack(<< >>)
  /\ \A a : IsStack(<<a>>)
  /\ \A a, b : IsStack(<<a, b>>)
  /\ \A a, b, c, d : IsStack(<<a, b, c, d>>)
  /\ \A a, b, c, d, e, f, g, h : IsStack(<<a, b, c, d, e, f, g, h>>)
<1>1. << >> \in Seq({})
  OBVIOUS
<1>2. \A a : <<a>> \in Seq({a})
  OBVIOUS
<1>3. \A a, b : <<a, b>> \in Seq({a, b})
  OBVIOUS
<1>4. \A a, b, c, d : <<a, b, c, d>> \in Seq({a, b, c, d})
  OBVIOUS
<1>5. \A a, b, c, d, e, f, g, h : <<a, b, c, d, e, f, g, h>> \in Seq({a, b, c, d, e, f, g, h})
  OBVIOUS
<1> QED BY <1>1, <1>2, <1>3, <1>4, <1>5, Zenon DEF IsStack

\* The values of a function, in order.
LEMMA FunctionList ==
  ASSUME NEW n \in Nat, NEW s
  PROVE  IsStack([i \in 1 .. n |-> s[i]])
<1>1. [i \in 1 .. n |-> s[i]] \in Seq({s[i] : i \in 1 .. n})
  OBVIOUS
<1> QED BY <1>1, Zenon DEF IsStack

\* A sequence with nothing behind it or in front of it.
LEMMA ConcatNothing ==
  ASSUME NEW a, IsStack(a)
  PROVE  a \o << >> = a /\ << >> \o a = a
BY ConcatEmptySeq DEF IsStack

\* Concatenation is associative,
LEMMA ConcatTwice ==
  ASSUME NEW a, NEW b, NEW c, IsStack(a), IsStack(b), IsStack(c)
  PROVE  (a \o b) \o c = a \o (b \o c)
<1>1. PICK S : a \in Seq(S)
  BY DEF IsStack
<1>2. PICK T : b \in Seq(T)
  BY DEF IsStack
<1>3. PICK U : c \in Seq(U)
  BY DEF IsStack
<1>4. a \in Seq(S \cup T \cup U) /\ b \in Seq(S \cup T \cup U) /\ c \in Seq(S \cup T \cup U)
  BY <1>1, <1>2, <1>3, SeqMonotonic
<1> QED BY <1>4, ConcatAssociative

Assoc(a, b, c) == (a \o b) \o c = a \o (b \o c)

\* as an operator to cite,
LEMMA Associates ==
  ASSUME NEW a, NEW b, NEW c, IsStack(a), IsStack(b), IsStack(c)
  PROVE  Assoc(a, b, c)
BY ConcatTwice DEF Assoc

\* To append is to concatenate one,
LEMMA AppendOne ==
  ASSUME NEW a, NEW e, IsStack(a)
  PROVE  Append(a, e) = a \o <<e>>
<1>1. PICK S : a \in Seq(S)
  BY DEF IsStack
<1>2. a \in Seq(S \cup {e})
  BY <1>1, SeqMonotonic
<1> QED BY <1>2, AppendIsConcat

\* and appending behind a concatenation appends to its second part.
LEMMA AppendLast ==
  ASSUME NEW a, NEW b, NEW e, IsStack(a), IsStack(b)
  PROVE  Append(a \o b, e) = a \o Append(b, e)
<1>1. IsStack(a \o b) /\ IsStack(<<e>>)
  BY StackConcat, Tuples
<1>2. Append(a \o b, e) = (a \o b) \o <<e>> /\ Append(b, e) = b \o <<e>>
  BY <1>1, AppendOne
<1>3. (a \o b) \o <<e>> = a \o (b \o <<e>>)
  <2>1. Assoc(a, b, <<e>>)
    BY <1>1, Associates, Zenon
  <2> QED BY <2>1, Zenon DEF Assoc
<1> QED BY <1>2, <1>3, Zenon

Leads(p, F) == \E r : IsStack(r) /\ F = p \o r

\* A sequence leads itself; nothing leads everything.
LEMMA LeadsItself ==
  ASSUME NEW p, IsStack(p)
  PROVE  Leads(p, p) /\ Leads(<< >>, p) /\ \A e : Leads(p, Append(p, e))
<1>1. p = p \o << >> /\ p = << >> \o p /\ IsStack(<< >>)
  BY Tuples, ConcatNothing
<1>2. Leads(p, p) /\ Leads(<< >>, p)
  BY <1>1 DEF Leads
<1>3. ASSUME NEW e
      PROVE  Leads(p, Append(p, e))
  BY AppendOne, Tuples, Zenon DEF Leads
<1> QED BY <1>2, <1>3

\* Leading is transitive,
LEMMA LeadsOn ==
  ASSUME NEW p, NEW q, NEW F, IsStack(p), Leads(p, q), Leads(q, F)
  PROVE  Leads(p, F)
<1>1. PICK r : IsStack(r) /\ q = p \o r
  BY DEF Leads
<1>2. PICK s : IsStack(s) /\ F = q \o s
  BY DEF Leads
<1>3. (p \o r) \o s = p \o (r \o s)
  BY <1>1, <1>2, ConcatTwice
<1>4. F = p \o (r \o s)
  BY <1>1, <1>2, <1>3, Zenon
<1> QED BY <1>1, <1>2, <1>4, StackConcat DEF Leads

\* and stays when something is put in front of both.
LEMMA LeadsBehind ==
  ASSUME NEW p, NEW F, NEW G, IsStack(p), IsStack(F), IsStack(G), Leads(p, F)
  PROVE  Leads(p, F \o G)
<1>1. Leads(F, F \o G)
  BY Zenon DEF Leads
<1> QED BY <1>1, LeadsOn

\* The sequence that leads is a part of the other.
LEMMA LeadsIsPart ==
  ASSUME NEW p, NEW F, IsStack(p), Leads(p, F)
  PROVE  Len(p) <= Len(F) /\ p = SubSeq(F, 1, Len(p))
<1>1. PICK r : IsStack(r) /\ F = p \o r
  BY DEF Leads
<1>2. PICK n \in Nat, m \in Nat : n = Len(p) /\ m = Len(r)
  BY <1>1, StackLen
<1>3. Len(F) = n + m /\ \A i \in 1 .. n : F[i] = p[i]
  BY <1>1, <1>2, StackConcat
<1> DEFINE S == {p[i] : i \in 1 .. n}
<1>4. \A i \in 1 .. n : F[i] \in S
  BY <1>3
<1>5. \A i \in 1 .. n : p[i] \in S
  OBVIOUS
<1> HIDE DEF S
<1>6. /\ SubSeq(F, 1, n) \in Seq(S) /\ Len(SubSeq(F, 1, n)) = n
      /\ \A i \in 1 .. n : SubSeq(F, 1, n)[i] = F[i]
  BY <1>4, StackPrefix
<1>7. PICK T : p \in Seq(T)
  BY DEF IsStack
<1>8. p \in Seq(S \cup T) /\ SubSeq(F, 1, n) \in Seq(S \cup T)
  BY <1>6, <1>7, SeqMonotonic
<1>9. SubSeq(F, 1, n) = p
  BY <1>2, <1>3, <1>6, <1>8, SeqEqual
<1> QED BY <1>2, <1>3, <1>9

\* The first part leads.
LEMMA PrefixLeads ==
  ASSUME NEW s, IsStack(s), NEW k \in Nat, k <= Len(s)
  PROVE  IsStack(SubSeq(s, 1, k)) /\ Leads(SubSeq(s, 1, k), s)
<1>1. PICK n \in Nat : n = Len(s)
  BY StackLen
<1>2. PICK S : s \in Seq(S)
  BY DEF IsStack
<1>3. \A i \in 1 .. n : s[i] \in S
  BY <1>1, <1>2, ElementOfSeq
<1>4. PICK m \in Nat : m = n - k /\ k + m = n
  <2> DEFINE x == n - k
  <2>1. x \in Nat /\ k + x = n
    BY <1>1
  <2> QED BY <2>1, Zenon
<1> DEFINE p == SubSeq(s, 1, k)
           q == [i \in 1 .. m |-> s[k + i]]
<1>5. p \in Seq(S) /\ Len(p) = k /\ \A i \in 1 .. k : p[i] = s[i]
  <2>1. \A i \in 1 .. k : s[i] \in S
    BY <1>1, <1>3
  <2> QED BY <2>1, StackPrefix
<1>6. q \in Seq(S) /\ Len(q) = m /\ \A i \in 1 .. m : q[i] = s[k + i]
  <2>1. \A i \in 1 .. m : s[k + i] \in S
    BY <1>3, <1>4
  <2>2. q \in Seq(S)
    BY <2>1
  <2> QED BY <2>2
<1> HIDE DEF p, q
<1>7. /\ p \o q \in Seq(S) /\ Len(p \o q) = n
      /\ \A i \in 1 .. n : (p \o q)[i] = IF i <= k THEN p[i] ELSE q[i - k]
  <2>1. /\ p \o q \in Seq(S) /\ Len(p \o q) = Len(p) + Len(q)
        /\ \A i \in 1 .. Len(p) + Len(q) : (p \o q)[i] = IF i <= Len(p) THEN p[i] ELSE q[i - Len(p)]
    BY <1>5, <1>6, ConcatProperties
  <2> QED BY <1>4, <1>5, <1>6, <2>1
<1>8. \A i \in 1 .. n : s[i] = (p \o q)[i]
  <2> SUFFICES ASSUME NEW i \in 1 .. n
               PROVE  s[i] = (p \o q)[i]
    OBVIOUS
  <2>1. CASE i <= k
    BY <1>5, <1>7, <2>1
  <2>2. CASE ~(i <= k)
    <3>1. i - k \in 1 .. m /\ k + (i - k) = i
      BY <1>4, <2>2
    <3>2. q[i - k] = s[k + (i - k)]
      BY <1>6, <3>1
    <3> QED BY <1>7, <2>2, <3>1, <3>2
  <2> QED BY <2>1, <2>2
<1>9. s = p \o q
  BY <1>1, <1>2, <1>7, <1>8, SeqEqual
<1>10. IsStack(p) /\ IsStack(q)
  BY <1>5, <1>6, Zenon DEF IsStack
<1> QED BY <1>9, <1>10, Zenon DEF Leads, p
=============================================================================
