------------------------- MODULE BinaryWriterProofs -------------------------
(***************************************************************************)
(* What the binary writer keeps of its stacks, its lengths and its         *)
(* tables, for every caller, every table and every way the io.Writer may   *)
(* fail.                                                                   *)
(*                                                                         *)
(* The first part is about stacks: what Mirrors becomes when a buffer is   *)
(* pushed, popped or written into.  While a value is being written there   *)
(* may be a wrapper on top, still empty of its container (MirrorsOpen).    *)
(* The second part says of each operator of the writer what it does to     *)
(* the two stacks, and the third puts these together, one action at a      *)
(* time.                                                                   *)
(*                                                                         *)
(* The fourth part is about lengths.  The writer counts the bytes of each  *)
(* buffer as it writes them; that the count is the size of the atoms       *)
(* holds between the parts of an operation too, so each part is shown to   *)
(* keep it. That a given table stays as it is, and that a field name is    *)
(* pending in a struct only, need the same lemmas, one for each operator.  *)
(***************************************************************************)
EXTENDS BinaryWriter, Lemmas, FiniteSetTheorems

\* t has the codes of s.
SameCodes(s, t) ==
  /\ IsStack(s) /\ IsStack(t) /\ Len(t) = Len(s)
  /\ \A i \in 1 .. Len(s) : t[i].code = s[i].code

\* t has the codes of s and one more on top.
OneMore(s, t, code) ==
  /\ IsStack(s) /\ IsStack(t) /\ Len(t) = Len(s) + 1
  /\ \A i \in 1 .. Len(s) : t[i].code = s[i].code
  /\ t[Len(t)].code = code

\* As Mirrors, but there may be a wrapper on top.
MirrorsOpen(bufs, ctx) ==
  /\ \A i \in 1 .. Len(bufs) : bufs[i].code \in Containers \cup {Datagram, Wrapper}
  /\ \A i \in 1 .. Len(bufs) : bufs[i].code = Wrapper => i = Len(bufs) \/ IsContainer(i + 1, bufs)
  /\ \A i \in 1 .. Len(bufs) : bufs[i].code = Datagram =>
       i = 1 /\ Cardinality(Above(1, bufs)) = Len(ctx)
  /\ Cardinality(Above(1, bufs)) <= Len(ctx)
  /\ \A i \in 1 .. Len(bufs) : IsContainer(i, bufs) =>
       bufs[i].code = CodeOf[ctx[Len(ctx) + 1 - Cardinality(Above(i, bufs))]]
-----------------------------------------------------------------------------
(***************************************************************************)
(* Stacks.                                                                 *)
(***************************************************************************)
\* The codes of containers are neither the datagram's nor the wrapper's.
LEMMA Codes ==
  /\ Datagram \notin Containers /\ Wrapper \notin Containers /\ Datagram # Wrapper
  /\ \A c \in Contexts : CodeOf[c] \in Containers
BY DEF Datagram, Wrapper, Containers, Contexts, CodeOf

\* Pushing a buffer.
LEMMA StackPush ==
  ASSUME NEW s, NEW b, IsStack(s)
  PROVE  OneMore(s, Append(s, b), b.code)
<1>1. PICK S : s \in Seq(S)
  BY DEF IsStack
<1>2. s \in Seq(S \cup {b})
  BY <1>1, SeqMonotonic
<1>3. b \in S \cup {b}
  OBVIOUS
<1>4. /\ Append(s, b) \in Seq(S \cup {b})
      /\ Len(Append(s, b)) = Len(s) + 1
      /\ \A i \in 1 .. Len(s) : Append(s, b)[i] = s[i]
      /\ Append(s, b)[Len(s) + 1] = b
  BY <1>2, <1>3, AppendProperties
<1> QED BY <1>1, <1>4 DEF OneMore, IsStack

\* Popping a buffer.
LEMMA StackPop ==
  ASSUME NEW s, IsStack(s), s # << >>
  PROVE  OneMore(Pop(s), s, Top(s).code)
<1>1. PICK S : s \in Seq(S)
  BY DEF IsStack
<1>2. /\ Len(s) \in Nat /\ Len(s) - 1 \in Nat
      /\ \A i \in 1 .. Len(s) : s[i] \in S
  BY <1>1, StackLen, ElementOfSeq
<1>3. PICK n \in Nat : n = Len(s) - 1
  BY <1>2
<1>4. \A i \in 1 .. n : s[i] \in S
  BY <1>2, <1>3
<1>5. /\ SubSeq(s, 1, n) \in Seq(S)
      /\ Len(SubSeq(s, 1, n)) = n
      /\ \A i \in 1 .. n : SubSeq(s, 1, n)[i] = s[i]
  BY <1>4, StackPrefix
<1>6. Pop(s) = SubSeq(s, 1, n)
  BY <1>3 DEF Pop
<1>7. IsStack(Pop(s))
  BY <1>5, <1>6 DEF IsStack
<1>8. /\ Len(s) = Len(Pop(s)) + 1
      /\ \A i \in 1 .. Len(Pop(s)) : s[i].code = Pop(s)[i].code
  BY <1>2, <1>3, <1>5, <1>6
<1> QED BY <1>7, <1>8 DEF OneMore, Top

\* Writing into the buffer on top.
LEMMA StackTop ==
  ASSUME NEW s, NEW b, IsStack(s), s # << >>, b.code = Top(s).code
  PROVE  SameCodes(s, [s EXCEPT ![Len(s)] = b])
<1>1. PICK S : s \in Seq(S)
  BY DEF IsStack
<1>2. s \in Seq(S \cup {b}) /\ b \in S \cup {b}
  BY <1>1, SeqMonotonic
<1>3. Len(s) \in 1 .. Len(s)
  BY StackLen
<1>4. /\ [s EXCEPT ![Len(s)] = b] \in Seq(S \cup {b})
      /\ Len([s EXCEPT ![Len(s)] = b]) = Len(s)
      /\ \A j \in 1 .. Len(s) : [s EXCEPT ![Len(s)] = b][j] = IF j = Len(s) THEN b ELSE s[j]
  BY <1>2, <1>3, ExceptSeq
<1> QED BY <1>1, <1>4 DEF SameCodes, IsStack, Top

\* The containers above a position are finitely many.
LEMMA AboveFinite ==
  ASSUME NEW s, IsStack(s), NEW i \in Nat
  PROVE  IsFiniteSet(Above(i, s)) /\ Cardinality(Above(i, s)) \in Nat
<1>1. IsFiniteSet(i .. Len(s))
  BY StackLen, FS_Interval
<1>2. Above(i, s) \in SUBSET (i .. Len(s))
  BY DEF Above
<1> QED BY <1>1, <1>2, FS_Subset, FS_CardinalityType

\* Above depends on the codes alone.
LEMMA AboveSame ==
  ASSUME NEW s, NEW t, SameCodes(s, t), NEW i \in Nat
  PROVE  Above(i, t) = Above(i, s)
BY DEF Above, IsContainer, SameCodes

\* What one more buffer on top adds to Above.
LEMMA AboveOneMore ==
  ASSUME NEW s, NEW t, NEW code, OneMore(s, t, code), NEW i \in 1 .. Len(t)
  PROVE  /\ code \notin Containers => Above(i, t) = Above(i, s)
         /\ code \in Containers => Cardinality(Above(i, t)) = Cardinality(Above(i, s)) + 1
<1>1. Len(s) \in Nat /\ Len(t) = Len(s) + 1 /\ i \in Nat
  BY StackLen DEF OneMore
<1>2. \A j \in 1 .. Len(s) : IsContainer(j, t) <=> IsContainer(j, s)
  BY <1>1 DEF OneMore, IsContainer
<1>3. IsContainer(Len(t), t) <=> code \in Containers
  BY <1>1 DEF OneMore, IsContainer
<1>4. Above(i, t) = IF code \in Containers THEN Above(i, s) \cup {Len(t)} ELSE Above(i, s)
  BY <1>1, <1>2, <1>3 DEF Above
<1>5. Len(t) \notin Above(i, s)
  BY <1>1 DEF Above
<1>6. IsFiniteSet(Above(i, s))
  BY <1>1, AboveFinite DEF OneMore
<1>7. CASE code \in Containers
  BY <1>4, <1>5, <1>6, <1>7, FS_AddElement
<1>8. CASE code \notin Containers
  BY <1>4, <1>8
<1> QED BY <1>7, <1>8
-----------------------------------------------------------------------------
(***************************************************************************)
(* What pushes and pops make of Mirrors.                                   *)
(***************************************************************************)
\* Writing into buffers does not disturb it.
LEMMA MirrorsSame ==
  ASSUME NEW s, NEW t, NEW ctx, SameCodes(s, t), Mirrors(s, ctx)
  PROVE  Mirrors(t, ctx)
<1>1. Len(t) = Len(s) /\ Len(s) \in Nat
  BY StackLen DEF SameCodes
<1>2. \A i \in 1 .. Len(s) : t[i].code = s[i].code
  BY DEF SameCodes
<1>3. \A i \in Nat : Above(i, t) = Above(i, s)
  BY AboveSame
<1>4. \A i \in Nat : IsContainer(i, t) <=> IsContainer(i, s)
  BY <1>1, <1>2 DEF IsContainer
<1> QED BY <1>1, <1>2, <1>3, <1>4 DEF Mirrors

\* the same with a wrapper on top.
LEMMA MirrorsOpenSame ==
  ASSUME NEW s, NEW t, NEW ctx, SameCodes(s, t), MirrorsOpen(s, ctx)
  PROVE  MirrorsOpen(t, ctx)
<1>1. Len(t) = Len(s) /\ Len(s) \in Nat
  BY StackLen DEF SameCodes
<1>2. \A i \in 1 .. Len(s) : t[i].code = s[i].code
  BY DEF SameCodes
<1>3. \A i \in Nat : Above(i, t) = Above(i, s)
  BY AboveSame
<1>4. \A i \in Nat : IsContainer(i, t) <=> IsContainer(i, s)
  BY <1>1, <1>2 DEF IsContainer
<1> QED BY <1>1, <1>2, <1>3, <1>4 DEF MirrorsOpen

\* A wrapper may be pushed,
LEMMA MirrorsPushWrapper ==
  ASSUME NEW s, NEW t, NEW ctx, OneMore(s, t, Wrapper), Mirrors(s, ctx)
  PROVE  MirrorsOpen(t, ctx)
<1>1. Len(t) = Len(s) + 1 /\ Len(s) \in Nat
  BY StackLen DEF OneMore
<1>2. \A i \in 1 .. Len(s) : t[i].code = s[i].code
  BY DEF OneMore
<1>3. t[Len(t)].code = Wrapper
  BY DEF OneMore
<1>4. \A i \in 1 .. Len(t) : Above(i, t) = Above(i, s)
  BY AboveOneMore, Codes
<1>5. \A i \in 1 .. Len(s) : IsContainer(i, t) <=> IsContainer(i, s)
  BY <1>1, <1>2 DEF IsContainer
<1>6. ~IsContainer(Len(t), t)
  BY <1>3, Codes DEF IsContainer
<1>7. \A i \in 1 .. Len(s) : s[i].code = Wrapper => i + 1 \in 1 .. Len(s)
  BY DEF Mirrors, IsContainer
<1>8. 1 \in 1 .. Len(t)
  BY <1>1
<1>9. ASSUME NEW i \in 1 .. Len(t)
      PROVE  /\ t[i].code \in Containers \cup {Datagram, Wrapper}
             /\ t[i].code = Wrapper => i = Len(t) \/ IsContainer(i + 1, t)
             /\ t[i].code = Datagram => i = 1 /\ Cardinality(Above(1, t)) = Len(ctx)
             /\ IsContainer(i, t) =>
                  t[i].code = CodeOf[ctx[Len(ctx) + 1 - Cardinality(Above(i, t))]]
  <2>1. CASE i = Len(t)
    BY <1>3, <1>6, <2>1, Codes
  <2>2. CASE i \in 1 .. Len(s)
    BY <1>2, <1>4, <1>5, <1>7, <1>8, <2>2 DEF Mirrors
  <2> QED BY <1>1, <2>1, <2>2
<1>10. Cardinality(Above(1, t)) <= Len(ctx)
  BY <1>4, <1>8 DEF Mirrors
<1> QED BY <1>9, <1>10 DEF MirrorsOpen

\* and is gone again when it is popped.
LEMMA MirrorsPopWrapper ==
  ASSUME NEW s, NEW t, NEW ctx, OneMore(s, t, Wrapper), MirrorsOpen(t, ctx)
  PROVE  Mirrors(s, ctx)
<1>1. Len(t) = Len(s) + 1 /\ Len(s) \in Nat
  BY StackLen DEF OneMore
<1>2. \A i \in 1 .. Len(s) : t[i].code = s[i].code
  BY DEF OneMore
<1>3. t[Len(t)].code = Wrapper
  BY DEF OneMore
<1>4. \A i \in 1 .. Len(t) : Above(i, t) = Above(i, s)
  BY AboveOneMore, Codes
<1>5. \A i \in 1 .. Len(s) : IsContainer(i, t) <=> IsContainer(i, s)
  BY <1>1, <1>2 DEF IsContainer
<1>6. ~IsContainer(Len(t), t)
  BY <1>3, Codes DEF IsContainer
<1>7. 1 \in 1 .. Len(t)
  BY <1>1
<1>8. ASSUME NEW i \in 1 .. Len(s)
      PROVE  /\ s[i].code \in Containers \cup {Datagram, Wrapper}
             /\ s[i].code = Wrapper => IsContainer(i + 1, s)
             /\ s[i].code = Datagram => i = 1 /\ Cardinality(Above(1, s)) = Len(ctx)
             /\ IsContainer(i, s) =>
                  s[i].code = CodeOf[ctx[Len(ctx) + 1 - Cardinality(Above(i, s))]]
  <2>1. i \in 1 .. Len(t) /\ i # Len(t)
    BY <1>1
  <2>2. s[i].code = Wrapper => IsContainer(i + 1, s)
    <3>1. s[i].code = Wrapper => IsContainer(i + 1, t)
      BY <1>2, <2>1 DEF MirrorsOpen
    <3>2. i + 1 = Len(t) \/ i + 1 \in 1 .. Len(s)
      BY <1>1
    <3> QED BY <3>1, <3>2, <1>5, <1>6
  <2> QED BY <1>2, <1>4, <1>5, <1>7, <2>1, <2>2 DEF MirrorsOpen
<1>9. Cardinality(Above(1, s)) <= Len(ctx)
  BY <1>4, <1>7 DEF MirrorsOpen
<1> QED BY <1>8, <1>9 DEF Mirrors

\* Without a wrapper on top, nothing is open.
LEMMA MirrorsClosed ==
  ASSUME NEW s, NEW ctx, IsStack(s), MirrorsOpen(s, ctx),
         s = << >> \/ Top(s).code # Wrapper
  PROVE  Mirrors(s, ctx)
<1>1. \A i \in 1 .. Len(s) : s[i].code = Wrapper => i # Len(s)
  BY StackLen DEF Top
<1> QED BY <1>1 DEF Mirrors, MirrorsOpen

\* and conversely
LEMMA MirrorsIsOpen ==
  ASSUME NEW s, NEW ctx, Mirrors(s, ctx)
  PROVE  /\ MirrorsOpen(s, ctx)
         /\ IsStack(s) /\ s # << >> => Top(s).code # Wrapper
<1>1. MirrorsOpen(s, ctx)
  BY DEF Mirrors, MirrorsOpen
<1>2. IsStack(s) /\ s # << >> => Top(s).code # Wrapper
  BY StackLen DEF Mirrors, IsContainer, Top
<1> QED BY <1>1, <1>2

\* A buffer pushed with its context, in or without a wrapper.
LEMMA MirrorsPush ==
  ASSUME NEW s, NEW t, NEW ctx \in Seq(Contexts), NEW c \in Contexts,
         OneMore(s, t, CodeOf[c]), MirrorsOpen(s, ctx)
  PROVE  Mirrors(t, Append(ctx, c))
<1> DEFINE cx == Append(ctx, c)
<1>1. Len(t) = Len(s) + 1 /\ Len(s) \in Nat /\ Len(ctx) \in Nat
  BY StackLen, LenProperties DEF OneMore
<1>2. /\ Len(cx) = Len(ctx) + 1
      /\ \A i \in 1 .. Len(ctx) : cx[i] = ctx[i]
      /\ cx[Len(ctx) + 1] = c
  BY AppendProperties
<1> HIDE DEF cx
<1>3. \A i \in 1 .. Len(s) : t[i].code = s[i].code
  BY DEF OneMore
<1>4. t[Len(t)].code = CodeOf[c] /\ CodeOf[c] \in Containers
  BY Codes DEF OneMore
<1>5. \A i \in 1 .. Len(t) : Cardinality(Above(i, t)) = Cardinality(Above(i, s)) + 1
  BY <1>4, AboveOneMore
<1>6. \A i \in 1 .. Len(s) : IsContainer(i, t) <=> IsContainer(i, s)
  BY <1>1, <1>3 DEF IsContainer
<1>7. IsContainer(Len(t), t)
  BY <1>1, <1>4 DEF IsContainer
<1>8. \A i \in 1 .. Len(t) : Cardinality(Above(i, s)) \in Nat
  BY AboveFinite DEF OneMore
<1>9. ASSUME NEW i \in 1 .. Len(s)
      PROVE  /\ t[i].code \in Containers \cup {Datagram, Wrapper}
             /\ t[i].code = Wrapper => IsContainer(i + 1, t)
             /\ t[i].code = Datagram => i = 1 /\ Cardinality(Above(1, t)) = Len(cx)
             /\ IsContainer(i, t) =>
                  t[i].code = CodeOf[cx[Len(cx) + 1 - Cardinality(Above(i, t))]]
  <2>1. i \in 1 .. Len(t) /\ 1 \in 1 .. Len(t)
    BY <1>1
  <2>2. t[i].code = Wrapper => IsContainer(i + 1, t)
    <3>1. t[i].code = Wrapper => i = Len(s) \/ IsContainer(i + 1, s)
      BY <1>3 DEF MirrorsOpen
    <3>2. IsContainer(i + 1, s) => i + 1 \in 1 .. Len(s)
      BY DEF IsContainer
    <3> QED BY <1>1, <1>6, <1>7, <3>1, <3>2
  <2>3. t[i].code = Datagram => i = 1 /\ Cardinality(Above(1, t)) = Len(cx)
    BY <1>2, <1>3, <1>5, <2>1 DEF MirrorsOpen
  <2>4. ASSUME IsContainer(i, t)
        PROVE  t[i].code = CodeOf[cx[Len(cx) + 1 - Cardinality(Above(i, t))]]
    <3> DEFINE k == Len(ctx) + 1 - Cardinality(Above(i, s))
    <3>1. IsContainer(i, s)
      BY <1>6, <2>4
    <3>2. s[i].code = CodeOf[ctx[k]]
      BY <3>1 DEF MirrorsOpen
    <3>3. k \in 1 .. Len(ctx)
      <4>1. i \in Above(i, s) /\ Above(i, s) \subseteq Above(1, s)
        BY <1>1, <3>1 DEF Above
      <4>2. IsFiniteSet(Above(1, s)) /\ IsFiniteSet(Above(i, s))
        BY AboveFinite DEF OneMore
      <4>3. Cardinality(Above(i, s)) # 0
        BY <4>1, <4>2, FS_EmptySet
      <4>4. Cardinality(Above(i, s)) <= Cardinality(Above(1, s))
        BY <4>1, <4>2, FS_Subset
      <4>5. Cardinality(Above(1, s)) <= Len(ctx)
        BY DEF MirrorsOpen
      <4> QED BY <1>1, <1>8, <2>1, <4>3, <4>4, <4>5
    <3>4. Len(cx) + 1 - Cardinality(Above(i, t)) = k
      <4>1. /\ Cardinality(Above(i, t)) = Cardinality(Above(i, s)) + 1
            /\ Cardinality(Above(i, s)) \in Nat
        BY <1>5, <1>8, <2>1
      <4>2. Len(cx) = Len(ctx) + 1 /\ Len(ctx) \in Nat
        BY <1>1, <1>2
      <4> QED BY <4>1, <4>2
    <3>5. CodeOf[cx[k]] = CodeOf[ctx[k]]
      BY <1>2, <3>3
    <3>6. t[i].code = CodeOf[cx[k]]
      BY <1>3, <3>2, <3>5
    <3> QED BY <3>4, <3>6
  <2>5. t[i].code \in Containers \cup {Datagram, Wrapper}
    BY <1>3 DEF MirrorsOpen
  <2> QED BY <2>2, <2>3, <2>4, <2>5
<1>10. /\ Cardinality(Above(1, t)) <= Len(cx)
       /\ t[Len(t)].code = CodeOf[cx[Len(cx) + 1 - Cardinality(Above(Len(t), t))]]
  <2>1. 1 \in 1 .. Len(t) /\ Len(t) \in 1 .. Len(t)
    BY <1>1
  <2>2. Above(Len(t), s) = {}
    BY <1>1 DEF Above
  <2>3. Cardinality(Above(Len(t), t)) = 1
    <3>1. Cardinality(Above(Len(t), t)) = Cardinality(Above(Len(t), s)) + 1
      BY <1>5, <2>1
    <3>2. Cardinality(Above(Len(t), s)) = 0
      BY <2>2, FS_EmptySet
    <3> QED BY <3>1, <3>2
  <2>4. Cardinality(Above(1, s)) <= Len(ctx)
    BY DEF MirrorsOpen
  <2>5. Cardinality(Above(1, t)) <= Len(cx)
    BY <1>1, <1>2, <1>5, <1>8, <2>1, <2>4
  <2>6. Len(cx) + 1 - Cardinality(Above(Len(t), t)) = Len(ctx) + 1
    BY <1>1, <1>2, <2>3
  <2> QED BY <1>2, <1>4, <2>5, <2>6
<1>11. ASSUME NEW i \in 1 .. Len(t)
       PROVE  /\ t[i].code \in Containers \cup {Datagram, Wrapper}
              /\ t[i].code = Wrapper => IsContainer(i + 1, t)
              /\ t[i].code = Datagram => i = 1 /\ Cardinality(Above(1, t)) = Len(cx)
              /\ IsContainer(i, t) =>
                   t[i].code = CodeOf[cx[Len(cx) + 1 - Cardinality(Above(i, t))]]
  <2>1. CASE i \in 1 .. Len(s)
    BY <1>9, <2>1
  <2>2. CASE i = Len(t)
    BY <1>4, <1>10, <2>2, Codes
  <2> QED BY <1>1, <2>1, <2>2
<1>12. Mirrors(t, cx)
  BY <1>10, <1>11 DEF Mirrors
<1> QED BY <1>12 DEF cx

\* A container popped with its context; a wrapper it was in is open again.
LEMMA MirrorsPop ==
  ASSUME NEW s, NEW t, NEW ctx \in Seq(Contexts), ctx # << >>, NEW code \in Containers,
         OneMore(s, t, code), Mirrors(t, ctx)
  PROVE  MirrorsOpen(s, Pop(ctx))
<1>1. Len(t) = Len(s) + 1 /\ Len(s) \in Nat /\ Len(ctx) \in Nat /\ Len(ctx) > 0
  BY StackLen, LenProperties, EmptySeq DEF OneMore
<1>2. PICK n \in Nat : n = Len(ctx) - 1
  BY <1>1
<1>3. Len(Pop(ctx)) = n /\ \A i \in 1 .. n : Pop(ctx)[i] = ctx[i]
  <2>1. \A i \in 1 .. n : ctx[i] \in Contexts
    BY <1>1, <1>2, ElementOfSeq
  <2>2. Pop(ctx) = SubSeq(ctx, 1, n)
    BY <1>2 DEF Pop
  <2> QED BY <2>1, <2>2, StackPrefix
<1>4. \A i \in 1 .. Len(s) : t[i].code = s[i].code
  BY DEF OneMore
<1>5. \A i \in 1 .. Len(t) : Cardinality(Above(i, t)) = Cardinality(Above(i, s)) + 1
  BY AboveOneMore
<1>6. \A i \in 1 .. Len(s) : IsContainer(i, t) <=> IsContainer(i, s)
  BY <1>1, <1>4 DEF IsContainer
<1>7. \A i \in 1 .. Len(t) : Cardinality(Above(i, s)) \in Nat
  BY AboveFinite DEF OneMore
<1>8. Cardinality(Above(1, s)) <= n
  BY <1>1, <1>2, <1>5, <1>7 DEF Mirrors
<1>9. ASSUME NEW i \in 1 .. Len(s)
      PROVE  /\ s[i].code \in Containers \cup {Datagram, Wrapper}
             /\ s[i].code = Wrapper => i = Len(s) \/ IsContainer(i + 1, s)
             /\ s[i].code = Datagram => i = 1 /\ Cardinality(Above(1, s)) = n
             /\ IsContainer(i, s) =>
                  s[i].code = CodeOf[Pop(ctx)[n + 1 - Cardinality(Above(i, s))]]
  <2>1. i \in 1 .. Len(t) /\ 1 \in 1 .. Len(t)
    BY <1>1
  <2>2. s[i].code = Wrapper => i = Len(s) \/ IsContainer(i + 1, s)
    <3>1. s[i].code = Wrapper => IsContainer(i + 1, t)
      BY <1>4, <2>1 DEF Mirrors
    <3>2. i = Len(s) \/ i + 1 \in 1 .. Len(s)
      BY <1>1
    <3> QED BY <1>6, <3>1, <3>2
  <2>3. s[i].code = Datagram => i = 1 /\ Cardinality(Above(1, s)) = n
    BY <1>1, <1>2, <1>4, <1>5, <1>7, <2>1 DEF Mirrors
  <2>4. ASSUME IsContainer(i, s)
        PROVE  s[i].code = CodeOf[Pop(ctx)[n + 1 - Cardinality(Above(i, s))]]
    <3> DEFINE k == n + 1 - Cardinality(Above(i, s))
    <3>1. IsContainer(i, t)
      BY <1>6, <2>4
    <3>2. t[i].code = CodeOf[ctx[Len(ctx) + 1 - Cardinality(Above(i, t))]]
      BY <2>1, <3>1 DEF Mirrors
    <3>3. Len(ctx) + 1 - Cardinality(Above(i, t)) = k
      BY <1>1, <1>2, <1>5, <1>7, <2>1
    <3>4. k \in 1 .. n
      <4>1. i \in Above(i, s) /\ Above(i, s) \subseteq Above(1, s)
        BY <1>1, <2>4 DEF Above
      <4>2. IsFiniteSet(Above(1, s)) /\ IsFiniteSet(Above(i, s))
        BY AboveFinite DEF OneMore
      <4>3. Cardinality(Above(i, s)) # 0
        BY <4>1, <4>2, FS_EmptySet
      <4>4. Cardinality(Above(i, s)) <= Cardinality(Above(1, s))
        BY <4>1, <4>2, FS_Subset
      <4> QED BY <1>7, <1>8, <2>1, <4>3, <4>4
    <3> HIDE DEF k
    <3>5. s[i].code = CodeOf[Pop(ctx)[k]]
      BY <1>3, <1>4, <3>2, <3>3, <3>4
    <3> QED BY <3>5 DEF k
  <2> QED BY <1>4, <2>1, <2>2, <2>3, <2>4 DEF Mirrors
<1> QED BY <1>3, <1>8, <1>9 DEF MirrorsOpen
-----------------------------------------------------------------------------
(***************************************************************************)
(* What the operators of the writer do to the two stacks.                  *)
(***************************************************************************)
Fields == {"given", "tbl", "bufs", "fault", "writes", "out", "ctx", "err", "ret",
           "fieldName", "annotations", "wroteLST"}

\* A writer, between any two steps of a method.
IsWriter(v) ==
  /\ DOMAIN v = Fields
  /\ IsStack(v.bufs) /\ v.ctx \in Seq(Contexts)
  /\ v.err \in Errors /\ v.ret \in Errors
  /\ v.given \in BOOLEAN /\ v.wroteLST \in BOOLEAN /\ (v.wroteLST => v.given)

\* A writer between two calls, and one that is writing a value.
Closed(v) == IsWriter(v) /\ Mirrors(v.bufs, v.ctx)
Opened(v) == IsWriter(v) /\ MirrorsOpen(v.bufs, v.ctx)

\* An emit writes into the top buffer, or fails for want of one.
LEMMA EmitKeeps ==
  ASSUME NEW v, IsWriter(v), NEW atoms, NEW len
  PROVE  /\ IsWriter(Emit(v, atoms, len))
         /\ SameCodes(v.bufs, Emit(v, atoms, len).bufs)
         /\ Emit(v, atoms, len).ctx = v.ctx
         /\ v.bufs # << >> => Emit(v, atoms, len).ret = "nil"
<1>1. CASE v.bufs = << >>
  <2>1. /\ DOMAIN EmitTo(v, atoms) = Fields
        /\ EmitTo(v, atoms).ret \in {"nil", "io"}
        /\ \A f \in Fields \ {"ret", "out", "writes"} : EmitTo(v, atoms)[f] = v[f]
    BY DEF IsWriter, EmitTo, Fields
  <2>2. SameCodes(v.bufs, v.bufs)
    BY DEF IsWriter, SameCodes
  <2> QED BY <1>1, <2>1, <2>2 DEF IsWriter, Emit, Fields, Errors
<1>2. CASE v.bufs # << >>
  <2> DEFINE top == Top(v.bufs)
             b   == [code |-> top.code, len |-> top.len + len, atoms |-> top.atoms \o atoms]
             bs  == [v.bufs EXCEPT ![Len(v.bufs)] = b]
  <2>1. Emit(v, atoms, len) = [v EXCEPT !.bufs = bs, !.ret = "nil"]
    BY <1>2 DEF Emit
  <2>2. SameCodes(v.bufs, bs)
    <3>1. b.code = Top(v.bufs).code
      OBVIOUS
    <3> HIDE DEF b
    <3> QED BY <1>2, <3>1, StackTop DEF IsWriter
  <2>3. IsStack(bs)
    BY <2>2 DEF SameCodes
  <2> HIDE DEF bs
  <2>4. /\ DOMAIN Emit(v, atoms, len) = Fields
        /\ Emit(v, atoms, len).bufs = bs /\ Emit(v, atoms, len).ret = "nil"
        /\ \A f \in Fields \ {"bufs", "ret"} : Emit(v, atoms, len)[f] = v[f]
    BY <2>1 DEF IsWriter, Fields
  <2> QED BY <2>2, <2>3, <2>4 DEF IsWriter, Fields, Errors
<1> QED BY <1>1, <1>2

\* So it keeps the stacks as they are.
LEMMA EmitClosed ==
  ASSUME NEW v, Closed(v), NEW atoms, NEW len
  PROVE  Closed(Emit(v, atoms, len))
BY EmitKeeps, MirrorsSame DEF Closed

\* Changing any other field does not matter.
LEMMA OtherFields ==
  ASSUME NEW v, NEW u, IsWriter(v), DOMAIN u = Fields,
         u.bufs = v.bufs, u.ctx = v.ctx, u.given = v.given,
         u.err \in Errors, u.ret \in Errors,
         u.wroteLST = v.wroteLST \/ u.wroteLST = FALSE \/ (u.wroteLST = TRUE /\ v.given)
  PROVE  /\ IsWriter(u)
         /\ Closed(v) => Closed(u)
         /\ Opened(v) => Opened(u)
BY DEF IsWriter, Closed, Opened

\* The table of the writer is written without disturbing the stacks.
LEMMA WriteLSTKeeps ==
  ASSUME NEW v, IsWriter(v)
  PROVE  /\ IsWriter(WriteLST(v))
         /\ SameCodes(v.bufs, WriteLST(v).bufs)
         /\ WriteLST(v).ctx = v.ctx
<1> DEFINE v1 == Write(v, Bvm)
           v2 == Write(v1, TableAtom(v.tbl))
<1>1. IsWriter(v1) /\ SameCodes(v.bufs, v1.bufs) /\ v1.ctx = v.ctx
  BY EmitKeeps DEF Write
<1>2. IsWriter(v2) /\ SameCodes(v1.bufs, v2.bufs) /\ v2.ctx = v1.ctx
  BY <1>1, EmitKeeps DEF Write
<1>3. WriteLST(v) = v1 \/ WriteLST(v) = Store(v2)
  BY DEF WriteLST
<1> HIDE DEF v1, v2
<1>4. SameCodes(v.bufs, v2.bufs)
  BY <1>1, <1>2 DEF SameCodes
<1>5. IsWriter(Store(v2)) /\ Store(v2).bufs = v2.bufs /\ Store(v2).ctx = v2.ctx
  BY <1>2 DEF IsWriter, Store, Fields
<1> QED BY <1>1, <1>2, <1>3, <1>4, <1>5

\* A pop that emits what it popped: what is below is as it was, and a failure
\* leaves nothing.
LEMMA PopAndEmitKeeps ==
  ASSUME NEW v, IsWriter(v), v.bufs # << >>
  PROVE  /\ IsWriter(PopAndEmit(v))
         /\ SameCodes(Pop(v.bufs), PopAndEmit(v).bufs)
         /\ PopAndEmit(v).ctx = v.ctx
         /\ PopAndEmit(v).ret # "nil" => PopAndEmit(v).bufs = << >>
<1> DEFINE b  == Top(v.bufs)
           v1 == [v EXCEPT !.bufs = Pop(@)]
<1>1. PopAndEmit(v) = Emit(v1, NodeAtoms(b), NodeLen(b))
  BY DEF PopAndEmit
<1>2. IsStack(Pop(v.bufs))
  BY StackPop DEF IsWriter, OneMore
<1>3. v1.bufs = Pop(v.bufs) /\ v1.ctx = v.ctx /\ IsWriter(v1)
  BY <1>2 DEF IsWriter, Fields
<1> HIDE DEF b, v1
<1>4. /\ IsWriter(PopAndEmit(v)) /\ SameCodes(v1.bufs, PopAndEmit(v).bufs)
      /\ PopAndEmit(v).ctx = v1.ctx
      /\ v1.bufs # << >> => PopAndEmit(v).ret = "nil"
  BY <1>1, <1>3, EmitKeeps
<1>5. v1.bufs = << >> => PopAndEmit(v).bufs = << >>
  BY <1>4, StackLen DEF SameCodes
<1> QED BY <1>3, <1>4, <1>5

\* EndValue closes what a value may have left open.
LEMMA EndValueCloses ==
  ASSUME NEW v, Opened(v)
  PROVE  Closed(EndValue(v))
<1>1. CASE v.bufs # << >> /\ Top(v.bufs).code = Wrapper
  <2>1. EndValue(v) = PopAndEmit(v)
    BY <1>1 DEF EndValue
  <2>2. OneMore(Pop(v.bufs), v.bufs, Wrapper)
    BY <1>1, StackPop DEF Opened, IsWriter
  <2>3. Mirrors(Pop(v.bufs), v.ctx)
    BY <2>2, MirrorsPopWrapper DEF Opened
  <2> QED BY <1>1, <2>1, <2>3, PopAndEmitKeeps, MirrorsSame DEF Opened, Closed
<1>2. CASE ~(v.bufs # << >> /\ Top(v.bufs).code = Wrapper)
  <2>1. EndValue(v) = [v EXCEPT !.ret = "nil"]
    BY <1>2 DEF EndValue, Return
  <2>2. Closed(v)
    BY <1>2, MirrorsClosed DEF Opened, Closed, IsWriter
  <2>3. Closed([v EXCEPT !.ret = "nil"])
    BY <2>2, OtherFields DEF Closed, IsWriter, Fields, Errors
  <2> QED BY <2>1, <2>3
<1> QED BY <1>1, <1>2

\* A field name is written into the struct, or refused.
LEMMA WriteFieldNameKeeps ==
  ASSUME NEW v, Closed(v), NEW name
  PROVE  /\ Closed(WriteFieldName(v, name))
         /\ WriteFieldName(v, name).ctx = v.ctx
<1> DEFINE r  == ResolveName(v, name)
           v1 == [v EXCEPT !.tbl = r.tbl]
<1>1. Closed(Return(v, "usage")) /\ Return(v, "usage").ctx = v.ctx
  BY OtherFields DEF Return, Closed, IsWriter, Fields, Errors
<1>2. Closed(v1) /\ v1.ctx = v.ctx
  BY OtherFields DEF Closed, IsWriter, Fields
<1>3. WriteFieldName(v, name) \in {Return(v, "usage"), Write(v1, FieldAtom(r.id, r.text))}
  BY DEF WriteFieldName, WriteName
<1> HIDE DEF v1
<1> QED BY <1>1, <1>2, <1>3, EmitClosed, EmitKeeps DEF Write, Closed

\* Annotations leave a wrapper open, or are refused.
LEMMA WriteAnnotationsOpens ==
  ASSUME NEW v, Closed(v), NEW marks
  PROVE  /\ Opened(WriteAnnotations(v, marks))
         /\ WriteAnnotations(v, marks).ctx = v.ctx
         /\ WriteAnnotations(v, marks).ret # "nil" => Closed(WriteAnnotations(v, marks))
<1> DEFINE r  == ResolveMarks(v, marks)
           v1 == [v EXCEPT !.tbl = r.tbl]
           v2 == [v1 EXCEPT !.bufs = Append(@, Buffer(Wrapper))]
           u  == Write(v2, AnnotationAtom(r.ids, r.texts))
<1>1. Closed(v1) /\ v1.ctx = v.ctx
  BY OtherFields DEF Closed, IsWriter, Fields
<1>2. Closed(Return(v1, "usage")) /\ Return(v1, "usage").ctx = v.ctx
  BY <1>1, OtherFields DEF Return, Closed, IsWriter, Fields, Errors
<1> HIDE DEF v1
<1>3. OneMore(v1.bufs, Append(v1.bufs, Buffer(Wrapper)), Wrapper)
  BY <1>1, StackPush DEF Buffer, Closed, IsWriter
<1>4. /\ v2.bufs = Append(v1.bufs, Buffer(Wrapper)) /\ v2.ctx = v1.ctx
      /\ IsWriter(v2)
  BY <1>1, <1>3 DEF Closed, IsWriter, Fields, OneMore
<1> HIDE DEF v2
<1>5. MirrorsOpen(v2.bufs, v2.ctx)
  BY <1>1, <1>3, <1>4, MirrorsPushWrapper DEF Closed
<1>6. v2.bufs # << >>
  <2>1. IsStack(v1.bufs) /\ IsStack(v2.bufs) /\ Len(v2.bufs) = Len(v1.bufs) + 1
    BY <1>3, <1>4 DEF OneMore
  <2>2. Len(v2.bufs) > 0
    BY <2>1, StackLen
  <2> QED BY <2>1, <2>2, StackLen
<1>7. IsWriter(u) /\ SameCodes(v2.bufs, u.bufs) /\ u.ctx = v2.ctx /\ u.ret = "nil"
  <2> DEFINE a == AnnotationAtom(r.ids, r.texts)
  <2>1. u = Emit(v2, <<a>>, a.size)
    BY DEF Write
  <2> HIDE DEF a, u
  <2>2. /\ IsWriter(Emit(v2, <<a>>, a.size))
        /\ SameCodes(v2.bufs, Emit(v2, <<a>>, a.size).bufs)
        /\ Emit(v2, <<a>>, a.size).ctx = v2.ctx
        /\ Emit(v2, <<a>>, a.size).ret = "nil"
    <3>1. IsWriter(v2)
      BY <1>4
    <3> QED BY <1>6, <3>1, EmitKeeps
  <2> QED BY <2>1, <2>2
<1>8. WriteAnnotations(v, marks) \in {Return(v1, "usage"), u}
  BY DEF WriteAnnotations, WriteMarks, v1, v2
<1> HIDE DEF u
<1>9. Opened(u)
  BY <1>5, <1>7, MirrorsOpenSame DEF Opened
<1> QED BY <1>1, <1>2, <1>4, <1>7, <1>8, <1>9, MirrorsIsOpen DEF Opened, Closed

\* So does the beginning of a value.
LEMMA BeginValueOpens ==
  ASSUME NEW v, Closed(v)
  PROVE  /\ Opened(BeginValue(v))
         /\ BeginValue(v).ctx = v.ctx
         /\ BeginValue(v).ret # "nil" => Closed(BeginValue(v))
<1> DEFINE v1 == Return(Clear(v), "nil")
           v2 == BeginTable(v1)
           v3 == BeginName(v2, v.fieldName)
           v4 == BeginMarks(v3, v.annotations)
<1>1. Closed(v1) /\ v1.ctx = v.ctx
  <2>1. Closed(Clear(v)) /\ Clear(v).ctx = v.ctx
    BY OtherFields DEF Clear, Closed, IsWriter, Fields
  <2> QED BY <2>1, OtherFields DEF Return, Closed, IsWriter, Fields, Errors
<1> HIDE DEF v1
<1>2. Closed(v2) /\ v2.ctx = v.ctx
  <2>1. ASSUME v1.given
        PROVE  LET u == [v1 EXCEPT !.wroteLST = TRUE]
               IN  Closed(WriteLST(u)) /\ WriteLST(u).ctx = v1.ctx
    <3> DEFINE u == [v1 EXCEPT !.wroteLST = TRUE]
    <3>1. Closed(u) /\ u.ctx = v1.ctx
      BY <1>1, <2>1, OtherFields DEF Closed, IsWriter, Fields
    <3> HIDE DEF u
    <3>2. Closed(WriteLST(u)) /\ WriteLST(u).ctx = v1.ctx
      BY <3>1, WriteLSTKeeps, MirrorsSame DEF Closed
    <3> QED BY <3>2 DEF u
  <2> QED BY <1>1, <2>1 DEF BeginTable
<1> HIDE DEF v2
<1>3. Closed(v3) /\ v3.ctx = v.ctx
  BY <1>2, WriteFieldNameKeeps DEF BeginName
<1> HIDE DEF v3
<1>4. Opened(v3)
  BY <1>3, MirrorsIsOpen DEF Opened, Closed
<1>5. Opened(v4) /\ v4.ctx = v.ctx /\ (v4.ret # "nil" => Closed(v4))
  BY <1>3, <1>4, WriteAnnotationsOpens DEF BeginMarks
<1>6. BeginValue(v) = v4
  BY DEF BeginValue, v1, v2, v3, v4
<1> QED BY <1>5, <1>6

\* Storing the error of a method does not disturb the stacks.
LEMMA StoreKeeps ==
  ASSUME NEW v, Closed(v)
  PROVE  Closed(Store(v))
BY OtherFields DEF Store, Closed, IsWriter, Fields

\* Returning one does not either.
LEMMA ReturnKeeps ==
  ASSUME NEW v, Closed(v), NEW err \in Errors
  PROVE  Closed(Return(v, err)) /\ Return(v, err).ctx = v.ctx
BY OtherFields DEF Return, Closed, IsWriter, Fields

\* No buffers mirror any contexts.
LEMMA NoBuffers ==
  ASSUME NEW bufs, bufs = << >>, NEW ctx \in Seq(Contexts)
  PROVE  Mirrors(bufs, ctx)
<1>1. Len(bufs) = 0 /\ Len(ctx) \in Nat
  BY LenProperties
<1>2. Above(1, bufs) = {}
  BY <1>1 DEF Above
<1>3. Cardinality(Above(1, bufs)) = 0
  BY <1>2, FS_EmptySet
<1> QED BY <1>1, <1>3 DEF Mirrors

\* The contexts without the innermost.
LEMMA PopContexts ==
  ASSUME NEW ctx \in Seq(Contexts), ctx # << >>
  PROVE  Pop(ctx) \in Seq(Contexts)
<1>1. Len(ctx) \in Nat /\ Len(ctx) > 0 /\ \A i \in 1 .. Len(ctx) : ctx[i] \in Contexts
  BY LenProperties, EmptySeq, ElementOfSeq
<1>2. PICK n \in Nat : n = Len(ctx) - 1
  BY <1>1
<1>3. \A i \in 1 .. n : ctx[i] \in Contexts
  BY <1>1, <1>2
<1>4. SubSeq(ctx, 1, n) \in Seq(Contexts)
  BY <1>3, StackPrefix
<1> QED BY <1>2, <1>4 DEF Pop
-----------------------------------------------------------------------------
(***************************************************************************)
(* The methods.                                                            *)
(***************************************************************************)
LEMMA WriteValueKeeps ==
  ASSUME NEW v, Closed(v), NEW atoms
  PROVE  Closed(WriteValue(v, atoms))
<1> DEFINE v1 == BeginValue(v)
           v2 == EmitNext(v1, atoms)
           v3 == EndNext(v2)
<1>1. CASE v.err # "nil"
  BY <1>1, ReturnKeeps DEF WriteValue, Closed, IsWriter
<1>2. CASE v.err = "nil"
  <2>1. Opened(v1) /\ (v1.ret # "nil" => Closed(v1))
    BY BeginValueOpens
  <2> HIDE DEF v1
  <2>2. Opened(v2) /\ (v2.ret # "nil" => Closed(v2))
    <3>1. CASE v1.ret # "nil"
      BY <2>1, <3>1 DEF EmitNext
    <3>2. CASE v1.ret = "nil"
      <4>1. /\ IsWriter(v2) /\ SameCodes(v1.bufs, v2.bufs) /\ v2.ctx = v1.ctx
            /\ v1.bufs # << >> => v2.ret = "nil"
        BY <2>1, <3>2, EmitKeeps DEF Opened, EmitNext
      <4> HIDE DEF v2
      <4>2. Opened(v2)
        BY <2>1, <4>1, MirrorsOpenSame DEF Opened
      <4>3. ASSUME v2.ret # "nil"
            PROVE  Closed(v2)
        <5>1. v2.bufs = << >>
          BY <4>1, <4>3, StackLen DEF SameCodes
        <5> QED BY <4>1, <5>1, NoBuffers DEF Closed, IsWriter
      <4> QED BY <4>2, <4>3
    <3> QED BY <3>1, <3>2
  <2> HIDE DEF v2
  <2>3. Closed(v3)
    BY <2>2, EndValueCloses DEF EndNext
  <2>4. WriteValue(v, atoms) = Store(v3)
    BY <1>2 DEF WriteValue, v1, v2, v3
  <2> HIDE DEF v3
  <2> QED BY <2>3, <2>4, StoreKeeps
<1> QED BY <1>1, <1>2

LEMMA BeginKeeps ==
  ASSUME NEW v, Closed(v), NEW c \in Contexts
  PROVE  Closed(Begin(v, c))
<1> DEFINE v1 == BeginValue(v)
           v2 == [v1 EXCEPT !.ctx = Append(@, c), !.bufs = Append(@, Buffer(CodeOf[c]))]
<1>1. CASE v.err # "nil"
  BY <1>1, ReturnKeeps DEF Begin, Closed, IsWriter
<1>2. CASE v.err = "nil"
  <2>1. Opened(v1) /\ (v1.ret # "nil" => Closed(v1))
    BY BeginValueOpens
  <2>2. Begin(v, c) = Store(IF v1.ret # "nil" THEN v1 ELSE v2)
    BY <1>2 DEF Begin, EnterNext
  <2> HIDE DEF v1
  <2>3. OneMore(v1.bufs, Append(v1.bufs, Buffer(CodeOf[c])), CodeOf[c])
    BY <2>1, StackPush DEF Buffer, Opened, IsWriter
  <2>4. Append(v1.ctx, c) \in Seq(Contexts)
    BY <2>1, AppendProperties DEF Opened, IsWriter
  <2>5. Mirrors(Append(v1.bufs, Buffer(CodeOf[c])), Append(v1.ctx, c))
    BY <2>1, <2>3, MirrorsPush DEF Opened, IsWriter
  <2>6. /\ v2.bufs = Append(v1.bufs, Buffer(CodeOf[c])) /\ v2.ctx = Append(v1.ctx, c)
        /\ IsWriter(v2)
    BY <2>1, <2>3, <2>4 DEF Opened, IsWriter, Fields, OneMore
  <2>7. Closed(v2)
    BY <2>5, <2>6 DEF Closed
  <2> HIDE DEF v2
  <2> QED BY <2>1, <2>2, <2>7, StoreKeeps
<1> QED BY <1>1, <1>2

\* In a context there is no other buffer on top than a container's.
LEMMA TopIsContainer ==
  ASSUME NEW bufs, NEW ctx \in Seq(Contexts), IsStack(bufs), Mirrors(bufs, ctx),
         bufs # << >>, ctx # << >>
  PROVE  Top(bufs).code \in Containers
<1>1. Len(bufs) \in 1 .. Len(bufs) /\ Len(ctx) > 0
  BY StackLen, LenProperties, EmptySeq
<1>2. Top(bufs).code \in Containers \cup {Datagram, Wrapper} /\ Top(bufs).code # Wrapper
  BY <1>1, MirrorsIsOpen DEF Mirrors, Top
<1>3. ASSUME Top(bufs).code = Datagram
      PROVE  FALSE
  <2>1. Len(bufs) = 1 /\ Cardinality(Above(1, bufs)) = Len(ctx)
    BY <1>1, <1>3 DEF Mirrors, Top
  <2>2. Above(1, bufs) = {}
    BY <1>3, <2>1, Codes DEF Above, IsContainer, Top
  <2>3. Cardinality(Above(1, bufs)) = 0
    BY <2>2, FS_EmptySet
  <2> QED BY <1>1, <2>1, <2>3
<1> QED BY <1>2, <1>3

LEMMA EndKeeps ==
  ASSUME NEW v, Closed(v), NEW c
  PROVE  Closed(End(v, c))
<1> DEFINE v1 == IF v.bufs # << >> THEN PopAndEmit(v) ELSE Return(v, "nil")
           v2 == [Clear(v1) EXCEPT !.ctx = Pop(@)]
<1>1. CASE v.err # "nil"
  BY <1>1, ReturnKeeps DEF End, Closed, IsWriter
<1>2. CASE v.err = "nil" /\ (v.ctx = << >> \/ Top(v.ctx) # c)
  BY <1>2, ReturnKeeps, StoreKeeps DEF End, Errors
<1>3. CASE v.err = "nil" /\ ~(v.ctx = << >> \/ Top(v.ctx) # c)
  <2>1. /\ IsWriter(v1) /\ v1.ctx = v.ctx /\ MirrorsOpen(v1.bufs, Pop(v.ctx))
        /\ v1.ret # "nil" => v1.bufs = << >>
    <3>1. CASE v.bufs = << >>
      <4>1. v1 = Return(v, "nil")
        BY <3>1
      <4>2. IsWriter(v1) /\ v1.ctx = v.ctx /\ v1.bufs = << >>
        BY <3>1, <4>1 DEF Return, Closed, IsWriter, Fields, Errors
      <4>3. Pop(v.ctx) \in Seq(Contexts)
        BY <1>3, PopContexts DEF Closed, IsWriter
      <4> QED BY <4>2, <4>3, NoBuffers, MirrorsIsOpen
    <3>2. CASE v.bufs # << >>
      <4>1. v1 = PopAndEmit(v)
        BY <3>2
      <4>2. Top(v.bufs).code \in Containers
        BY <1>3, <3>2, TopIsContainer DEF Closed, IsWriter
      <4>3. MirrorsOpen(Pop(v.bufs), Pop(v.ctx))
        BY <1>3, <3>2, <4>2, StackPop, MirrorsPop DEF Closed, IsWriter
      <4> HIDE DEF v1
      <4> QED BY <3>2, <4>1, <4>3, PopAndEmitKeeps, MirrorsOpenSame DEF Closed
    <3> QED BY <3>1, <3>2
  <2>2. End(v, c) = Store(IF v1.ret # "nil" THEN v1 ELSE EndValue(v2))
    BY <1>3 DEF End
  <2> HIDE DEF v1
  <2>3. v1.ret # "nil" => Closed(v1)
    BY <2>1, NoBuffers DEF Closed, IsWriter
  <2>4. v2.bufs = v1.bufs /\ v2.ctx = Pop(v1.ctx) /\ IsWriter(v2)
    <3>1. Pop(v1.ctx) \in Seq(Contexts)
      BY <1>3, <2>1, PopContexts DEF Closed, IsWriter
    <3> QED BY <2>1, <3>1 DEF Clear, IsWriter, Fields
  <2> HIDE DEF v2
  <2>5. Closed(EndValue(v2))
    BY <2>1, <2>4, EndValueCloses DEF Opened
  <2> QED BY <2>2, <2>3, <2>5, StoreKeeps
<1> QED BY <1>1, <1>2, <1>3

LEMMA FieldNameKeeps ==
  ASSUME NEW v, Closed(v), NEW name
  PROVE  Closed(FieldName(v, name))
<1>1. CASE v.err # "nil"
  BY <1>1, ReturnKeeps DEF FieldName, Closed, IsWriter
<1>2. CASE v.err = "nil" /\ ~InStruct(v)
  BY <1>2, ReturnKeeps, StoreKeeps DEF FieldName, Errors
<1>3. CASE v.err = "nil" /\ InStruct(v)
  BY <1>3, OtherFields DEF FieldName, Closed, IsWriter, Fields, Errors
<1> QED BY <1>1, <1>2, <1>3

LEMMA AnnotationsKeeps ==
  ASSUME NEW v, Closed(v), NEW marks
  PROVE  Closed(Annotations(v, marks))
<1>1. CASE v.err # "nil"
  BY <1>1, ReturnKeeps DEF Annotations, Closed, IsWriter
<1>2. CASE v.err = "nil"
  BY <1>2, OtherFields DEF Annotations, Closed, IsWriter, Fields, Errors
<1> QED BY <1>1, <1>2

LEMMA WriteResolvedKeeps ==
  ASSUME NEW v, Closed(v), NEW r, r.err \in Errors
  PROVE  Closed(WriteResolved(v, r))
<1> DEFINE v1 == [v EXCEPT !.tbl = r.tbl, !.err = r.err]
<1>1. Closed(v1)
  BY OtherFields DEF Closed, IsWriter, Fields
<1>2. WriteResolved(v, r) \in {Return(v1, r.err), WriteValue(v1, <<SymbolAtom(r.id, r.text)>>)}
  BY DEF WriteResolved
<1> HIDE DEF v1
<1> QED BY <1>1, <1>2, ReturnKeeps, WriteValueKeeps

\* A lookup ends with a symbol or a usage error.
LEMMA ResolveFromTableErrors ==
  ASSUME NEW v, NEW t
  PROVE  ResolveFromTable(v, t).err \in Errors
BY DEF ResolveFromTable, Resolved, Errors

LEMMA ResolveErrors ==
  ASSUME NEW v, NEW t
  PROVE  Resolve(v, t).err \in Errors
BY ResolveFromTableErrors DEF Resolve, Resolved, Errors

LEMMA WriteSymbolFromStringKeeps ==
  ASSUME NEW v, Closed(v), NEW s
  PROVE  Closed(WriteSymbolFromString(v, s))
BY ResolveErrors, WriteResolvedKeeps DEF WriteSymbolFromString

LEMMA WriteSymbolKeeps ==
  ASSUME NEW v, Closed(v), NEW tok
  PROVE  Closed(WriteSymbol(v, tok))
<1>1. Closed(WriteValue(v, <<SymbolAtom(tok.sid, NoText)>>))
  BY WriteValueKeeps
<1>2. Closed(WriteResolved(v, ResolveFromTable(v, tok.text)))
  BY ResolveFromTableErrors, WriteResolvedKeeps
<1>3. Closed(Return(v, "usage"))
  BY ReturnKeeps DEF Errors
<1> QED BY <1>1, <1>2, <1>3 DEF WriteSymbol

\* At top level there is at most one buffer, the datagram.
LEMMA DatagramAlone ==
  ASSUME NEW bufs, IsStack(bufs), bufs # << >>, Mirrors(bufs, << >>)
  PROVE  Len(bufs) = 1
<1>1. Len(bufs) \in Nat /\ Len(bufs) > 0
  BY StackLen
<1>2. Above(1, bufs) = {}
  <2>1. Cardinality(Above(1, bufs)) <= 0
    BY DEF Mirrors
  <2>2. IsFiniteSet(Above(1, bufs)) /\ Cardinality(Above(1, bufs)) \in Nat
    BY AboveFinite
  <2> QED BY <2>1, <2>2, FS_EmptySet
<1>3. \A i \in Nat : ~IsContainer(i, bufs)
  BY <1>1, <1>2 DEF Above, IsContainer
<1>4. Len(bufs) \in 1 .. Len(bufs)
  BY <1>1
<1>5. bufs[Len(bufs)].code = Datagram
  BY <1>3, <1>4, Codes DEF Mirrors, IsContainer
<1> QED BY <1>4, <1>5 DEF Mirrors

\* Nothing is left once it is popped.
LEMMA PopAlone ==
  ASSUME NEW s, IsStack(s), Len(s) = 1
  PROVE  IsStack(Pop(s)) /\ Pop(s) = << >>
<1>1. s # << >>
  BY StackLen
<1>2. IsStack(Pop(s)) /\ Len(s) = Len(Pop(s)) + 1
  BY <1>1, StackPop DEF OneMore
<1> DEFINE p == Pop(s)
<1>3. IsStack(p) /\ Len(p) + 1 = 1
  BY <1>2
<1> HIDE DEF p
<1>4. p = << >>
  BY <1>3, StackLen
<1> QED BY <1>3, <1>4 DEF p

LEMMA FinishKeeps ==
  ASSUME NEW v, Closed(v)
  PROVE  Closed(Finish(v))
<1>1. CASE v.err # "nil"
  BY <1>1, ReturnKeeps DEF Finish, Closed, IsWriter
<1>2. CASE v.err = "nil" /\ v.ctx # << >>
  BY <1>2, ReturnKeeps DEF Finish, Errors
<1>3. CASE v.err = "nil" /\ v.ctx = << >>
  <2> DEFINE v1  == [Clear(v) EXCEPT !.wroteLST = FALSE]
             seq == Top(v.bufs)
             v2  == [v1 EXCEPT !.bufs = Pop(@)]
             v3  == WriteLST(v2)
             v4  == Emit(v3, NodeAtoms(seq), NodeLen(seq))
  <2>1. Closed(v1) /\ v1.bufs = v.bufs /\ v1.ctx = v.ctx
    BY OtherFields DEF Clear, Closed, IsWriter, Fields
  <2>2. /\ v.bufs = << >> => Finish(v) = Return(v1, "nil")
        /\ v.bufs # << >> /\ Len(v.bufs) <= 1 => Finish(v) \in {v3, Store(v4)}
    <3>1. Len(v.bufs) \in Nat
      BY StackLen DEF Closed, IsWriter
    <3> HIDE DEF v4
    <3>2. Finish(v) = IF v.bufs = << >> THEN Return(v1, "nil")
                      ELSE IF Len(v.bufs) > 1 THEN Return(v2, "panic")
                      ELSE IF v3.ret # "nil" THEN v3 ELSE Store(v4)
      BY <1>3 DEF Finish, v4
    <3> HIDE DEF v1, v2, v3
    <3> QED BY <3>1, <3>2
  <2> HIDE DEF v1
  <2>3. CASE v.bufs = << >>
    BY <2>1, <2>2, <2>3, ReturnKeeps DEF Errors
  <2>4. CASE v.bufs # << >>
    <3>1. IsStack(v.bufs) /\ Len(v.bufs) = 1
      BY <1>3, <2>4, DatagramAlone DEF Closed, IsWriter
    <3>2. IsStack(Pop(v.bufs)) /\ Pop(v.bufs) = << >>
      BY <3>1, PopAlone
    <3>4. v2.bufs = << >> /\ IsWriter(v2)
      BY <2>1, <3>2 DEF Closed, IsWriter, Fields
    <3> HIDE DEF v2
    <3>5. Mirrors(v2.bufs, v2.ctx)
      BY <3>4, NoBuffers DEF IsWriter
    <3>6. Closed(v3)
      BY <3>4, <3>5, WriteLSTKeeps, MirrorsSame DEF Closed
    <3> HIDE DEF v3
    <3>7. Closed(Store(v4))
      BY <3>6, EmitClosed, StoreKeeps
    <3> HIDE DEF v4
    <3> QED BY <2>2, <2>4, <3>1, <3>6, <3>7
  <2> QED BY <2>3, <2>4
<1> QED BY <1>1, <1>2, <1>3
-----------------------------------------------------------------------------
(***************************************************************************)
(* The theorems.                                                           *)
(***************************************************************************)
\* Between two calls the writer is closed: the inductive invariant.
IInv == Closed(w)

\* The stacks of a new writer.
LEMMA NewStacks ==
  /\ IsStack(<<Buffer(Datagram)>>) /\ IsStack(<< >>)
  /\ << >> \in Seq(Contexts)
<1>1. <<Buffer(Datagram)>> \in Seq({Buffer(Datagram)}) /\ << >> \in Seq(Contexts)
  OBVIOUS
<1> QED BY <1>1 DEF IsStack

LEMMA MirrorsDatagram == Mirrors(<<Buffer(Datagram)>>, << >>)
<1> DEFINE d == <<Buffer(Datagram)>>
<1>1. Len(d) = 1 /\ d[1].code = Datagram
  BY DEF Buffer
<1> HIDE DEF d
<1>2. Above(1, d) = {}
  BY <1>1, Codes DEF Above, IsContainer
<1>3. Cardinality(Above(1, d)) = 0
  BY <1>2, FS_EmptySet
<1>4. ~IsContainer(1, d) /\ \A i \in 1 .. Len(d) : i = 1
  BY <1>1, Codes DEF IsContainer
<1>5. Len(<< >>) = 0
  OBVIOUS
<1>6. Mirrors(d, << >>)
  BY <1>1, <1>3, <1>4, <1>5, Codes DEF Mirrors
<1> QED BY <1>6 DEF d

LEMMA NewWriterClosed ==
  ASSUME NEW given \in BOOLEAN, NEW tbl, NEW bufs, NEW fault,
         IsStack(bufs), Mirrors(bufs, << >>)
  PROVE  Closed(NewWriter(given, tbl, bufs, fault))
<1> DEFINE v == NewWriter(given, tbl, bufs, fault)
<1>1. /\ DOMAIN v = Fields
      /\ v.bufs = bufs /\ v.given = given /\ v.wroteLST = FALSE
      /\ v.ctx = << >> /\ v.err = "nil" /\ v.ret = "nil"
  BY DEF NewWriter, Fields
<1> HIDE DEF v
<1>2. Closed(v)
  BY <1>1, NewStacks DEF Closed, IsWriter, Errors
<1> QED BY <1>2 DEF v

LEMMA InitIInv == Init => IInv
<1> SUFFICES ASSUME Init PROVE IInv
  OBVIOUS
<1>1. PICK fault \in Faults :
        \/ w = NewWriter(FALSE, NewBuilder(Imports), <<Buffer(Datagram)>>, fault)
        \/ w = NewWriter(TRUE, Table, << >>, fault)
  BY DEF Init
<1>2. CASE w = NewWriter(FALSE, NewBuilder(Imports), <<Buffer(Datagram)>>, fault)
  BY <1>2, NewWriterClosed, MirrorsDatagram, NewStacks DEF IInv
<1>3. CASE w = NewWriter(TRUE, Table, << >>, fault)
  <2>1. Mirrors(<< >>, << >>)
    BY NewStacks, NoBuffers
  <2> QED BY <1>3, <2>1, NewWriterClosed, NewStacks DEF IInv
<1> QED BY <1>1, <1>2, <1>3

LEMMA NextIInv == IInv /\ [Next]_vars => IInv'
<1> SUFFICES ASSUME IInv, [Next]_vars PROVE IInv'
  OBVIOUS
<1> USE DEF Call
<1>1. CASE CallFieldName
  <2>1. PICK n \in Names : w' = FieldName(w, n)
    BY <1>1 DEF CallFieldName
  <2> QED BY <2>1, FieldNameKeeps DEF IInv
<1>2. CASE CallAnnotations
  <2>1. PICK m \in Marks : w' = Annotations(w, <<m>>)
    BY <1>2 DEF CallAnnotations
  <2> QED BY <2>1, AnnotationsKeeps DEF IInv
<1>3. CASE CallScalar
  <2>1. PICK s \in Scalars : w' = WriteValue(w, ScalarAtoms(s))
    BY <1>3 DEF CallScalar
  <2> QED BY <2>1, WriteValueKeeps DEF IInv
<1>4. CASE CallSymbol
  <2>1. PICK t \in Symbols : w' = WriteSymbol(w, t)
    BY <1>4 DEF CallSymbol
  <2> QED BY <2>1, WriteSymbolKeeps DEF IInv
<1>5. CASE CallSymbolFromString
  <2>1. PICK s \in Strings : w' = WriteSymbolFromString(w, s)
    BY <1>5 DEF CallSymbolFromString
  <2> QED BY <2>1, WriteSymbolFromStringKeeps DEF IInv
<1>6. CASE CallBegin
  <2>1. PICK c \in Kinds : w' = Begin(w, c)
    BY <1>6 DEF CallBegin
  <2>2. c \in Contexts
    BY KindsAssumption
  <2> QED BY <2>1, <2>2, BeginKeeps DEF IInv
<1>7. CASE CallEnd
  <2>1. PICK c \in Kinds : w' = End(w, c)
    BY <1>7 DEF CallEnd
  <2> QED BY <2>1, EndKeeps DEF IInv
<1>8. CASE CallFinish
  <2>1. w' = Finish(w)
    BY <1>8 DEF CallFinish
  <2> QED BY <2>1, FinishKeeps DEF IInv
<1>9. CASE UNCHANGED vars
  BY <1>9 DEF vars, IInv, Closed, IsWriter
<1> QED BY <1>1, <1>2, <1>3, <1>4, <1>5, <1>6, <1>7, <1>8, <1>9 DEF Next

LEMMA Invariant == Spec => []IInv
BY InitIInv, NextIInv, PTL DEF Spec

\* The writer's record, its contexts and its errors are what the code's types
\* allow, and a table is only announced when the writer has one of its own
\* (binarywriter.go:27-36, 491).
THEOREM TypeCorrect == Spec => []TypeOK
<1>1. IInv => TypeOK
  BY DEF IInv, Closed, IsWriter, TypeOK
<1> QED BY <1>1, Invariant, PTL

\* Whatever is called, with whatever values, tables and failing Writes, the
\* buffers mirror the contexts between two calls: an End pops the buffer of its
\* own Begin and Finish finds the datagram alone (binarywriter.go:421, 563, 598).
THEOREM StacksAgree == Spec => []StackDiscipline
<1>1. IInv => StackDiscipline
  BY DEF IInv, Closed, StackDiscipline
<1> QED BY <1>1, Invariant, PTL

\* No sequence of calls makes the writer panic (binarywriter.go:423).
THEOREM NeverPanics == Spec => []NoPanic
<1>1. IInv => NoPanic
  BY DEF IInv, Closed, IsWriter, NoPanic, Errors
<1> QED BY <1>1, Invariant, PTL
-----------------------------------------------------------------------------
\* s is the running sum of the first n members of f.
Sums(s, f, n) == s[0] = 0 /\ \A i \in 1 .. n : s[i] = s[i - 1] + f[i]

\* The first n members of f are numbers.
Naturals(f, n) == \A i \in 1 .. n : f[i] \in Nat

\* SumTo is the last of the running sums.
LEMMA SumIsComputed ==
  ASSUME NEW n \in Nat, NEW f, Naturals(f, n)
  PROVE  \E s : Sums(s, f, n) /\ s[n] = SumTo(f, n) /\ \A i \in 0 .. n : s[i] \in Nat
<1> DEFINE h == [p \in Nat \X (1 .. n) |-> p[1] + f[p[2]]]
           IsSum(g) == g = [i \in 0 .. n |-> IF i = 0 THEN 0 ELSE g[i - 1] + f[i]]
<1>1. PICK g : Computation(g, n, 0, h)
  <2> HIDE DEF h
  <2> QED BY Steps, Zenon
<1>2. \A i \in 0 .. n : i \in {k \in 0 .. n : g[k] \in Nat}
  <2> DEFINE S == {k \in 0 .. n : g[k] \in Nat}
  <2>1. 0 \in S
    BY <1>1 DEF Computation
  <2>2. ASSUME NEW k \in 1 .. n, k - 1 \in S
        PROVE  k \in S
    <3>1. g[k] = h[<<g[k - 1], k>>]
      BY <1>1 DEF Computation
    <3>2. <<g[k - 1], k>> \in Nat \X (1 .. n)
      BY <2>2
    <3>3. g[k] = g[k - 1] + f[k]
      BY <3>1, <3>2
    <3> QED BY <2>2, <3>3 DEF Naturals
  <2> HIDE DEF S
  <2>3. \A i \in 0 .. n : i \in S
    BY <2>1, <2>2, Induction
  <2> QED BY <2>3 DEF S
<1>3. \A i \in 1 .. n : h[<<g[i - 1], i>>] = g[i - 1] + f[i]
  BY <1>2
<1>4. IsSum(g)
  <2> HIDE DEF h
  <2>1. \A i \in 0 .. n : g[i] = IF i = 0 THEN 0 ELSE g[i - 1] + f[i]
    <3>1. \A i \in 1 .. n : g[i] = g[i - 1] + f[i]
      BY <1>1, <1>3 DEF Computation
    <3> QED BY <1>1, <3>1 DEF Computation
  <2> QED BY <1>1, <2>1 DEF Computation
<1> DEFINE s == CHOOSE t : IsSum(t)
<1> HIDE DEF h
<1>5. IsSum(s) /\ SumTo(f, n) = s[n]
  <2>1. SumTo(f, n) = s[n]
    BY DEF SumTo
  <2> HIDE DEF IsSum
  <2>2. IsSum(s)
    BY <1>4
  <2> QED BY <2>1, <2>2
<1> HIDE DEF s
<1>6. Sums(s, f, n)
  BY <1>5 DEF Sums
<1>7. \A i \in 0 .. n : i \in {k \in 0 .. n : s[k] \in Nat}
  <2> DEFINE S == {k \in 0 .. n : s[k] \in Nat}
  <2>1. 0 \in S /\ \A k \in 1 .. n : k - 1 \in S => k \in S
    BY <1>6 DEF Sums, Naturals
  <2> HIDE DEF S
  <2>2. \A i \in 0 .. n : i \in S
    BY <2>1, Induction
  <2> QED BY <2>2 DEF S
<1> QED BY <1>5, <1>6, <1>7

\* There is but one running sum.
LEMMA SumIsUnique ==
  ASSUME NEW n \in Nat, NEW f, Naturals(f, n), NEW s, Sums(s, f, n)
  PROVE  s[n] = SumTo(f, n) /\ s[n] \in Nat
<1>1. PICK t : Sums(t, f, n) /\ t[n] = SumTo(f, n) /\ \A i \in 0 .. n : t[i] \in Nat
  BY SumIsComputed
<1> DEFINE S == {k \in 0 .. n : s[k] = t[k]}
<1>2. 0 \in S /\ \A k \in 1 .. n : k - 1 \in S => k \in S
  BY <1>1 DEF Sums
<1> HIDE DEF S
<1>3. \A i \in 0 .. n : i \in S
  BY <1>2, Induction
<1> QED BY <1>1, <1>3 DEF S

\* So the sum may be taken one member at a time.
LEMMA SumOfOneMore ==
  ASSUME NEW n \in Nat, NEW f, Naturals(f, n)
  PROVE  /\ SumTo(f, 0) = 0 /\ SumTo(f, n) \in Nat
         /\ \A i \in 1 .. n : SumTo(f, i) = SumTo(f, i - 1) + f[i]
         /\ \A i \in 0 .. n : SumTo(f, i) \in Nat
<1>1. PICK s : Sums(s, f, n)
  BY SumIsComputed
<1>2. ASSUME NEW i \in 0 .. n
      PROVE  s[i] = SumTo(f, i) /\ s[i] \in Nat
  <2>1. Sums(s, f, i) /\ Naturals(f, i) /\ i \in Nat
    BY <1>1 DEF Sums, Naturals
  <2> QED BY <2>1, SumIsUnique
<1> QED BY <1>1, <1>2 DEF Sums

\* Atoms with a size each.
Sized(atoms) == IsStack(atoms) /\ \A i \in 1 .. Len(atoms) : atoms[i].size \in Nat

\* What the atoms of a buffer take, one by one.
Sizes(atoms) == [i \in 1 .. Len(atoms) |-> atoms[i].size]

\* The size of a sequence of atoms is the sum of these.
LEMMA SizesAreNaturals ==
  ASSUME NEW a, Sized(a)
  PROVE  /\ Len(a) \in Nat /\ Naturals(Sizes(a), Len(a))
         /\ SizeOf(a) = SumTo(Sizes(a), Len(a)) /\ SizeOf(a) \in Nat
<1>1. Len(a) \in Nat /\ Naturals(Sizes(a), Len(a))
  BY StackLen DEF Sized, Naturals, Sizes
<1>2. SizeOf(a) = SumTo(Sizes(a), Len(a))
  BY DEF SizeOf, Sizes
<1> QED BY <1>1, <1>2, SumOfOneMore

\* The size of what is written in two parts.
LEMMA SizeOfConcat ==
  ASSUME NEW a, NEW b, Sized(a), Sized(b)
  PROVE  Sized(a \o b) /\ SizeOf(a \o b) = SizeOf(a) + SizeOf(b)
<1> DEFINE m == Len(a)
           k == Len(b)
           A == Sizes(a)
           B == Sizes(b)
           C == Sizes(a \o b)
           s == [i \in 0 .. m + k |-> IF i <= m THEN SumTo(A, i)
                                      ELSE SumTo(A, m) + SumTo(B, i - m)]
<1>1. m \in Nat /\ k \in Nat /\ Naturals(A, m) /\ Naturals(B, k)
  BY SizesAreNaturals
<1>2. /\ Len(a \o b) = m + k
      /\ \A i \in 1 .. m + k : (a \o b)[i] = IF i <= m THEN a[i] ELSE b[i - m]
      /\ IsStack(a \o b)
  BY StackConcat DEF Sized
<1>3. \A i \in 1 .. m + k : C[i] = IF i <= m THEN A[i] ELSE B[i - m]
  BY <1>1, <1>2 DEF Sizes
<1>4. Sized(a \o b)
  BY <1>1, <1>2 DEF Sized
<1>5. SizeOf(a) = SumTo(A, m) /\ SizeOf(b) = SumTo(B, k) /\ SizeOf(a \o b) = SumTo(C, m + k)
  BY <1>2, <1>4, SizesAreNaturals
<1>6. Naturals(C, m + k)
  BY <1>2, <1>4, SizesAreNaturals
<1> HIDE DEF m, k, A, B, C
<1>7. /\ SumTo(A, 0) = 0 /\ SumTo(B, 0) = 0
      /\ \A i \in 1 .. m : SumTo(A, i) = SumTo(A, i - 1) + A[i]
      /\ \A i \in 1 .. k : SumTo(B, i) = SumTo(B, i - 1) + B[i]
      /\ \A i \in 0 .. m : SumTo(A, i) \in Nat
      /\ \A i \in 0 .. k : SumTo(B, i) \in Nat
      /\ \A i \in 1 .. m : A[i] \in Nat
      /\ \A i \in 1 .. k : B[i] \in Nat
  BY <1>1, SumOfOneMore DEF Naturals
<1>8. Sums(s, C, m + k)
  <2>1. s[0] = 0
    BY <1>1, <1>7
  <2>2. ASSUME NEW i \in 1 .. m + k
        PROVE  s[i] = s[i - 1] + C[i]
    <3>1. CASE i <= m
      <4>1. s[i] = SumTo(A, i) /\ s[i - 1] = SumTo(A, i - 1) /\ C[i] = A[i]
        BY <1>1, <1>3, <3>1
      <4> QED BY <1>1, <1>7, <3>1, <4>1
    <3>2. CASE i > m
      <4>1. s[i] = SumTo(A, m) + SumTo(B, i - m) /\ C[i] = B[i - m]
        BY <1>1, <1>3, <3>2
      <4>2. PICK j \in 1 .. k : j = i - m
        BY <1>1, <3>2
      <4>3. SumTo(B, j) = SumTo(B, j - 1) + B[j] /\ SumTo(B, j - 1) \in Nat /\ B[j] \in Nat
        BY <1>1, <1>7
      <4>4. s[i - 1] = SumTo(A, m) + SumTo(B, j - 1)
        <5>1. CASE j = 1
          <6>1. i - 1 = m /\ m \in 0 .. m + k /\ m \in 0 .. m
            BY <1>1, <4>2, <5>1
          <6>2. s[m] = SumTo(A, m) /\ SumTo(A, m) \in Nat
            BY <1>1, <1>7, <6>1
          <6> QED BY <1>7, <5>1, <6>1, <6>2
        <5>2. CASE j # 1
          <6>1. i - 1 > m /\ i - 1 - m = j - 1 /\ i - 1 \in 0 .. m + k
            BY <1>1, <4>2, <5>2
          <6> QED BY <6>1, <1>1
        <5> QED BY <5>1, <5>2
      <4>5. SumTo(A, m) \in Nat
        BY <1>1, <1>7
      <4> QED BY <4>1, <4>2, <4>3, <4>4, <4>5
    <3> QED BY <1>1, <3>1, <3>2
  <2> QED BY <2>1, <2>2 DEF Sums
<1>9. s[m + k] = SumTo(A, m) + SumTo(B, k)
  <2>1. CASE k = 0
    BY <1>1, <1>7, <2>1
  <2>2. CASE k # 0
    BY <1>1, <2>2
  <2> QED BY <2>1, <2>2
<1> HIDE DEF s
<1>10. s[m + k] = SumTo(C, m + k)
  BY <1>1, <1>6, <1>8, SumIsUnique
<1> QED BY <1>4, <1>5, <1>9, <1>10
-----------------------------------------------------------------------------
(***************************************************************************)
(* The sizes of the atoms.                                                 *)
(***************************************************************************)
\* How often a value can be shifted by g bits.
LEMMA ShiftsIsNat ==
  ASSUME NEW v, NEW g \in Nat \ {0}
  PROVE  Shifts(v, g) \in Nat
<1> DEFINE S == {k \in 1 .. WordBits \div g : Shr(v, k * g) > 0}
<1>1. WordBits \div g \in Int
  BY BitsAssumption
<1>2. IsFiniteSet(1 .. WordBits \div g)
  BY <1>1, FS_Interval
<1>3. S \subseteq 1 .. WordBits \div g
  OBVIOUS
<1>4. Shifts(v, g) = Cardinality(S)
  BY DEF Shifts
<1> HIDE DEF S
<1> QED BY <1>2, <1>3, <1>4, FS_Subset, FS_CardinalityType

\* The bytes of a VarUInt are as many as announced, whatever the value.
LEMMA VarUintBytes ==
  ASSUME NEW v
  PROVE  Len(appendVarUint(v)) = varUintLen(v) /\ varUintLen(v) \in Nat /\ IsStack(appendVarUint(v))
<1>1. Group \in Nat \ {0}
  BY BitsAssumption DEF Group
<1>2. PICK n \in Nat : n = 1 + Shifts(v, Group)
  BY <1>1, ShiftsIsNat
<1> DEFINE d == Digits(v, Group, n)
<1>3. Len(d) = n
  BY DEF Digits
<1> HIDE DEF d
<1>4. Ended(d) = [i \in 1 .. n |-> d[i] + (IF i = n THEN Flag ELSE 0)]
  BY <1>3 DEF Ended
<1>5. appendVarUint(v) = Ended(d)
  BY <1>2 DEF appendVarUint, d
<1> DEFINE e(i) == d[i] + (IF i = n THEN Flag ELSE 0)
<1> HIDE DEF e
<1>6. Ended(d) = [i \in 1 .. n |-> e(i)]
  BY <1>4 DEF e
<1>7. [i \in 1 .. n |-> e(i)] \in Seq({e(i) : i \in 1 .. n}) /\ Len([i \in 1 .. n |-> e(i)]) = n
  OBVIOUS
<1> QED BY <1>2, <1>5, <1>6, <1>7 DEF varUintLen, IsStack

\* The bytes of a UInt can be counted.
LEMMA UintBytes ==
  ASSUME NEW v
  PROVE  Len(appendUint(v)) \in Nat
<1>1. ByteBits \in Nat \ {0}
  BY BitsAssumption
<1>2. PICK n \in Nat : n = 1 + Shifts(v, ByteBits)
  BY <1>1, ShiftsIsNat
<1>3. Len(Digits(v, ByteBits, n)) = n
  BY DEF Digits
<1> QED BY <1>2, <1>3 DEF appendUint

\* The bytes of a tag are those container.Len counts in front of the contents.
LEMMA TagBytes ==
  ASSUME NEW code, NEW len
  PROVE  /\ Len(appendTag(code, len)) \in Nat
         /\ len \in Nat => containerLen(len) = Len(appendTag(code, len)) + len
<1>1. Len(<<code + len>>) = 1 /\ Len(<<code + 14>>) = 1 /\ IsStack(<<code + 14>>)
  <2>1. <<code + 14>> \in Seq({code + 14})
    OBVIOUS
  <2> QED BY <2>1 DEF IsStack
<1>2. Len(<<code + 14>> \o appendVarUint(len)) = 1 + varUintLen(len)
  BY <1>1, VarUintBytes, StackConcat
<1>3. varUintLen(len) \in Nat
  BY VarUintBytes
<1> QED BY <1>1, <1>2, <1>3 DEF appendTag, containerLen
-----------------------------------------------------------------------------
(***************************************************************************)
(* The stack of buffers.                                                   *)
(***************************************************************************)
\* The length a buffer keeps count of is that of what was written to it.
Measured(b) == Sized(b.atoms) /\ b.len = SizeOf(b.atoms)

\* And so for every buffer of a stack.
AllMeasured(bufs) == \A i \in 1 .. Len(bufs) : Measured(bufs[i])

\* One atom, and none.
LEMMA SizeOfOne ==
  ASSUME NEW a, a.size \in Nat
  PROVE  Sized(<<a>>) /\ SizeOf(<<a>>) = a.size
<1>1. <<a>> \in Seq({a}) /\ Len(<<a>>) = 1 /\ <<a>>[1] = a
  OBVIOUS
<1>2. Sized(<<a>>)
  <2> DEFINE one == <<a>>
  <2>1. IsStack(one) /\ Len(one) = 1 /\ one[1] = a
    BY <1>1 DEF IsStack
  <2> HIDE DEF one
  <2>2. Sized(one)
    BY <2>1 DEF Sized
  <2> QED BY <2>2 DEF one
<1> DEFINE f == Sizes(<<a>>)
<1>3. f[1] = a.size
  BY <1>1 DEF Sizes
<1>4. SizeOf(<<a>>) = SumTo(f, 1) /\ Naturals(f, 1)
  BY <1>1, <1>2, SizesAreNaturals
<1> HIDE DEF f
<1>5. SumTo(f, 0) = 0 /\ SumTo(f, 1) = SumTo(f, 0) + f[1]
  BY <1>4, SumOfOneMore
<1> QED BY <1>2, <1>3, <1>4, <1>5

\* No atoms take no bytes.
LEMMA SizeOfNone == Sized(<< >>) /\ SizeOf(<< >>) = 0
<1> DEFINE e == << >>
<1>1. e \in Seq({}) /\ Len(e) = 0
  OBVIOUS
<1> HIDE DEF e
<1>2. Sized(e)
  BY <1>1 DEF Sized, IsStack
<1>3. SizeOf(e) = SumTo(Sizes(e), 0)
  BY <1>1, <1>2, SizesAreNaturals
<1>4. SumTo(Sizes(e), 0) = 0
  BY SumOfOneMore DEF Naturals
<1> QED BY <1>2, <1>3, <1>4 DEF e

\* A buffer that was just opened.
LEMMA EmptyMeasured ==
  ASSUME NEW code
  PROVE  Measured(Buffer(code))
BY SizeOfNone DEF Measured, Buffer

\* Buffers stay measured when one is pushed, popped or replaced at the top.
LEMMA MeasuredPush ==
  ASSUME NEW s, NEW b, IsStack(s), AllMeasured(s), Measured(b)
  PROVE  IsStack(Append(s, b)) /\ AllMeasured(Append(s, b))
<1>1. Len(s) \in Nat
  BY StackLen
<1> QED BY <1>1, StackPushed DEF AllMeasured

\* The buffer popped is measured, and those that are left.
LEMMA MeasuredPop ==
  ASSUME NEW s, IsStack(s), AllMeasured(s), s # << >>
  PROVE  IsStack(Pop(s)) /\ AllMeasured(Pop(s)) /\ Measured(Top(s))
<1>1. PICK S : s \in Seq(S)
  BY DEF IsStack
<1>2. PICK n \in Nat : n = Len(s) - 1
  <2>1. Len(s) \in Nat /\ Len(s) > 0
    BY StackLen
  <2>2. Len(s) - 1 \in Nat
    BY <2>1
  <2> QED BY <2>2
<1>3. \A i \in 1 .. n : s[i] \in S
  BY <1>1, <1>2, ElementOfSeq
<1>4. /\ SubSeq(s, 1, n) \in Seq(S) /\ Len(SubSeq(s, 1, n)) = n
      /\ \A i \in 1 .. n : SubSeq(s, 1, n)[i] = s[i]
  BY <1>3, StackPrefix
<1>5. Pop(s) = SubSeq(s, 1, n) /\ n + 1 = Len(s)
  BY <1>2 DEF Pop
<1> QED BY <1>4, <1>5 DEF IsStack, AllMeasured, Top

\* The top may be replaced by another measured buffer.
LEMMA MeasuredTop ==
  ASSUME NEW s, NEW b, IsStack(s), AllMeasured(s), s # << >>, Measured(b)
  PROVE  IsStack([s EXCEPT ![Len(s)] = b]) /\ AllMeasured([s EXCEPT ![Len(s)] = b])
<1>1. PICK S : s \in Seq(S)
  BY DEF IsStack
<1>2. s \in Seq(S \cup {b}) /\ b \in S \cup {b}
  BY <1>1, SeqMonotonic
<1>3. Len(s) \in 1 .. Len(s)
  BY StackLen
<1>4. /\ [s EXCEPT ![Len(s)] = b] \in Seq(S \cup {b})
      /\ Len([s EXCEPT ![Len(s)] = b]) = Len(s)
      /\ \A j \in 1 .. Len(s) : [s EXCEPT ![Len(s)] = b][j] = IF j = Len(s) THEN b ELSE s[j]
  BY <1>2, <1>3, ExceptSeq
<1> QED BY <1>4 DEF IsStack, AllMeasured

\* A finished buffer is emitted with the length it was announced with.
LEMMA NodeMeasured ==
  ASSUME NEW b, Measured(b)
  PROVE  Sized(NodeAtoms(b)) /\ NodeLen(b) = SizeOf(NodeAtoms(b))
<1>1. SizeOf(b.atoms) \in Nat
  BY SizesAreNaturals DEF Measured
<1> DEFINE t == TagAtom(b.code, b.len)
<1>2. t.size \in Nat /\ containerLen(b.len) = t.size + b.len
  BY <1>1, TagBytes DEF TagAtom, Measured
<1> HIDE DEF t
<1>3. Sized(<<t>>) /\ SizeOf(<<t>>) = t.size
  BY <1>2, SizeOfOne
<1>4. Sized(<<t>> \o b.atoms) /\ SizeOf(<<t>> \o b.atoms) = t.size + b.len
  BY <1>3, SizeOfConcat DEF Measured
<1> QED BY <1>2, <1>4 DEF NodeAtoms, NodeLen, Measured, t
-----------------------------------------------------------------------------
(***************************************************************************)
(* The symbols of the annotations, one after the other.                    *)
(***************************************************************************)
\* ResolveMarks before its first mark.
NoMarks(v) == [err |-> "nil", ids |-> << >>, texts |-> << >>, tbl |-> v.tbl]

\* The step of ResolveMarks.
NextMark(v, marks, x, i) ==
  IF x.err # "nil" THEN x
  ELSE LET r == ResolveMark([v EXCEPT !.tbl = x.tbl], marks[i])
       IN  [err   |-> r.err, tbl |-> r.tbl,
            ids   |-> Append(x.ids, r.id), texts |-> Append(x.texts, r.text)]

\* f[i] is what resolving the first i marks comes to.
Marking(f, v, marks, n) ==
  f = [i \in 0 .. n |-> IF i = 0 THEN NoMarks(v) ELSE NextMark(v, marks, f[i - 1], i)]

\* There is such a function, so ResolveMarks is its last value.
LEMMA MarkingExists ==
  ASSUME NEW v, NEW marks, NEW n \in Nat
  PROVE  \E f : Marking(f, v, marks, n)
<1> DEFINE S == {k \in 0 .. n : \E f : Marking(f, v, marks, k)}
<1>1. 0 \in S
  <2>1. Marking([i \in 0 .. 0 |-> NoMarks(v)], v, marks, 0)
    BY DEF Marking
  <2> QED BY <2>1
<1>2. ASSUME NEW k \in 1 .. n, k - 1 \in S
      PROVE  k \in S
  <2>1. PICK f : Marking(f, v, marks, k - 1)
    BY <1>2
  <2> DEFINE g == [i \in 0 .. k |-> IF i = k THEN NextMark(v, marks, f[k - 1], k) ELSE f[i]]
  <2>2. ASSUME NEW i \in 0 .. k
        PROVE  g[i] = IF i = 0 THEN NoMarks(v) ELSE NextMark(v, marks, g[i - 1], i)
    <3>1. CASE i = k
      <4>1. g[i] = NextMark(v, marks, f[k - 1], k) /\ g[i - 1] = f[k - 1]
        BY <3>1
      <4> QED BY <3>1, <4>1
    <3>2. CASE i = 0
      BY <2>1, <3>2 DEF Marking
    <3>3. CASE i # k /\ i # 0
      <4>1. i \in 0 .. k - 1 /\ i - 1 \in 0 .. k /\ i - 1 # k
        BY <3>3
      <4>2. g[i] = f[i] /\ g[i - 1] = f[i - 1]
        BY <3>3, <4>1
      <4>3. f[i] = IF i = 0 THEN NoMarks(v) ELSE NextMark(v, marks, f[i - 1], i)
        BY <2>1, <4>1 DEF Marking
      <4> QED BY <4>2, <4>3
    <3> QED BY <3>1, <3>2, <3>3
  <2>3. g = [i \in 0 .. k |-> g[i]]
    OBVIOUS
  <2> HIDE DEF g
  <2>4. Marking(g, v, marks, k)
    BY <2>2, <2>3 DEF Marking
  <2> QED BY <2>4
<1> HIDE DEF S
<1>3. n \in S
  BY <1>1, <1>2, Induction
<1> QED BY <1>3 DEF S

\* A lookup of one mark in the table that the marks before it have left.
LookUp(v, tbl, mark) == ResolveMark([v EXCEPT !.tbl = tbl], mark)

\* A lookup leaves a table that was given as it is.
LEMMA ResolveKeepsTable ==
  ASSUME NEW v, DOMAIN v = Fields, v.given, NEW tbl, NEW mark, NEW name, NEW t
  PROVE  /\ ResolveFromTable(v, t).tbl = v.tbl /\ Resolve(v, t).tbl = v.tbl
         /\ ResolveName(v, name).tbl = v.tbl
         /\ LookUp(v, tbl, mark).tbl = tbl
<1> DEFINE u == [v EXCEPT !.tbl = tbl]
<1>1. u.given = v.given /\ u.tbl = tbl
  BY DEF Fields
<1> HIDE DEF u
<1>2. \A s : ResolveFromTable(v, s).tbl = v.tbl /\ ResolveFromTable(u, s).tbl = u.tbl
  BY <1>1 DEF ResolveFromTable, Resolved
<1>3. \A s : Resolve(v, s).tbl = v.tbl /\ Resolve(u, s).tbl = u.tbl
  BY <1>2 DEF Resolve, Resolved
<1>4. ResolveName(v, name).tbl = v.tbl /\ ResolveMark(u, mark).tbl = u.tbl
  BY <1>3 DEF ResolveName, ResolveMark, Resolved
<1> QED BY <1>1, <1>2, <1>3, <1>4 DEF LookUp, u

\* The ids of annotations are a sequence, and a table that was given stays.
LEMMA ResolveMarksKeeps ==
  ASSUME NEW v, DOMAIN v = Fields, NEW marks, IsStack(marks)
  PROVE  /\ IsStack(ResolveMarks(v, marks).ids)
         /\ v.given => ResolveMarks(v, marks).tbl = v.tbl
<1>1. PICK n \in Nat : n = Len(marks)
  BY StackLen
<1> DEFINE f == CHOOSE g : Marking(g, v, marks, n)
<1>2. Marking(f, v, marks, n)
  BY MarkingExists
<1>3. ResolveMarks(v, marks) = f[n]
  BY <1>1 DEF ResolveMarks, Marking, NoMarks, NextMark
<1> HIDE DEF f
<1> DEFINE S == {k \in 0 .. n : IsStack(f[k].ids) /\ (v.given => f[k].tbl = v.tbl)}
<1>4. 0 \in S
  <2>1. f[0] = NoMarks(v)
    BY <1>2 DEF Marking
  <2> QED BY <2>1, NewStacks DEF NoMarks
<1>5. ASSUME NEW k \in 1 .. n, k - 1 \in S
      PROVE  k \in S
  <2> DEFINE x == f[k - 1]
             r == LookUp(v, x.tbl, marks[k])
  <2>1. f[k] = NextMark(v, marks, x, k)
    BY <1>2 DEF Marking
  <2>2. IsStack(x.ids) /\ (v.given => x.tbl = v.tbl)
    BY <1>5
  <2>3. IsStack(Append(x.ids, r.id))
    BY <2>2, StackPushed
  <2>4. v.given => r.tbl = x.tbl
    BY ResolveKeepsTable
  <2>5. f[k] = x \/ (f[k].ids = Append(x.ids, r.id) /\ f[k].tbl = r.tbl)
    BY <2>1 DEF NextMark, LookUp
  <2> HIDE DEF x, r
  <2>6. CASE f[k] = x
    BY <2>2, <2>6
  <2>7. CASE f[k].ids = Append(x.ids, r.id) /\ f[k].tbl = r.tbl
    <3>1. IsStack(f[k].ids)
      BY <2>3, <2>7
    <3>2. v.given => f[k].tbl = v.tbl
      BY <2>2, <2>4, <2>7
    <3> QED BY <3>1, <3>2
  <2> QED BY <2>5, <2>6, <2>7
<1> HIDE DEF S
<1>6. n \in S
  BY <1>4, <1>5, Induction
<1> QED BY <1>3, <1>6 DEF S
-----------------------------------------------------------------------------
(***************************************************************************)
(* What the operators of the writer keep.                                  *)
(***************************************************************************)
\* What every operation of the writer keeps, between its parts as well: buffers
\* measured, a given table in place, and no name pending outside a struct.
Sound(v) ==
  /\ DOMAIN v = Fields
  /\ IsStack(v.bufs) /\ AllMeasured(v.bufs)
  /\ IsStack(v.annotations)
  /\ v.given => v.tbl = Table
  /\ v.fieldName # NoName => InStruct(v)

\* u follows v: sound, in the same context, with the same pending name.
Follows(v, u) == Sound(u) /\ u.ctx = v.ctx /\ u.fieldName = v.fieldName

\* Only the buffers, the annotations, the table, the context and the name count.
LEMMA OtherFieldsSound ==
  ASSUME NEW v, NEW u, Sound(v), DOMAIN u = Fields,
         u.bufs = v.bufs, u.annotations = v.annotations, u.given = v.given,
         u.tbl = v.tbl, u.ctx = v.ctx, u.fieldName = v.fieldName
  PROVE  Follows(v, u)
BY DEF Sound, Follows, InStruct

\* What an operation returns, and what of it the writer remembers.
LEMMA ReturnSound ==
  ASSUME NEW v, Sound(v), NEW err
  PROVE  Follows(v, Return(v, err)) /\ Follows(v, Store(v))
<1>1. /\ DOMAIN Return(v, err) = Fields /\ DOMAIN Store(v) = Fields
      /\ \A f \in Fields \ {"ret"} : Return(v, err)[f] = v[f]
      /\ \A f \in Fields \ {"err"} : Store(v)[f] = v[f]
  BY DEF Return, Store, Sound, Fields
<1> QED BY <1>1, OtherFieldsSound DEF Fields

\* The pending name and annotations are forgotten.
LEMMA ClearSound ==
  ASSUME NEW v, Sound(v)
  PROVE  /\ Sound(Clear(v)) /\ Clear(v).ctx = v.ctx /\ Clear(v).fieldName = NoName
         /\ Clear(v).bufs = v.bufs /\ Clear(v).given = v.given /\ Clear(v).tbl = v.tbl
<1>1. /\ DOMAIN Clear(v) = Fields /\ Clear(v).fieldName = NoName /\ Clear(v).annotations = << >>
      /\ \A f \in Fields \ {"fieldName", "annotations"} : Clear(v)[f] = v[f]
  BY DEF Clear, Sound, Fields
<1> QED BY <1>1, NewStacks DEF Sound, Fields

\* Bytes of a known length reach the buffer on top, or the output.
LEMMA EmitSound ==
  ASSUME NEW v, Sound(v), NEW atoms, NEW len, Sized(atoms), len = SizeOf(atoms)
  PROVE  Follows(v, Emit(v, atoms, len))
<1>1. CASE v.bufs = << >>
  <2>1. /\ DOMAIN EmitTo(v, atoms) = Fields
        /\ \A f \in Fields \ {"ret", "out", "writes"} : EmitTo(v, atoms)[f] = v[f]
    BY DEF Sound, EmitTo, Fields
  <2>2. Emit(v, atoms, len) = EmitTo(v, atoms)
    BY <1>1 DEF Emit
  <2> QED BY <2>1, <2>2, OtherFieldsSound DEF Fields
<1>2. CASE v.bufs # << >>
  <2> DEFINE top == Top(v.bufs)
             b   == [code |-> top.code, len |-> top.len + len, atoms |-> top.atoms \o atoms]
             bs  == [v.bufs EXCEPT ![Len(v.bufs)] = b]
             u   == Emit(v, atoms, len)
  <2>1. Emit(v, atoms, len) = [v EXCEPT !.bufs = bs, !.ret = "nil"]
    BY <1>2 DEF Emit
  <2>2. Measured(b)
    <3>1. Measured(top)
      BY <1>2, MeasuredPop DEF Sound
    <3>2. Sized(top.atoms \o atoms) /\ SizeOf(top.atoms \o atoms) = top.len + len
      BY <3>1, SizeOfConcat DEF Measured
    <3>3. b.len = top.len + len /\ b.atoms = top.atoms \o atoms
      OBVIOUS
    <3> HIDE DEF b
    <3> QED BY <3>2, <3>3 DEF Measured
  <2> HIDE DEF b
  <2>3. IsStack(bs) /\ AllMeasured(bs)
    BY <1>2, <2>2, MeasuredTop DEF Sound
  <2> HIDE DEF bs
  <2>4. /\ DOMAIN u = Fields /\ u.bufs = bs
        /\ \A f \in Fields \ {"bufs", "ret"} : u[f] = v[f]
    BY <2>1 DEF Sound, Fields
  <2> HIDE DEF u
  <2>5. Follows(v, u)
    BY <2>3, <2>4 DEF Sound, Follows, InStruct, Fields
  <2> QED BY <2>5 DEF u
<1> QED BY <1>1, <1>2

\* As do single atoms,
LEMMA WriteSound ==
  ASSUME NEW v, Sound(v), NEW atom, atom.size \in Nat
  PROVE  Follows(v, Write(v, atom))
BY SizeOfOne, EmitSound DEF Write

\* the local symbol table in front of a datagram,
LEMMA WriteLSTSound ==
  ASSUME NEW v, Sound(v)
  PROVE  Follows(v, WriteLST(v))
<1> DEFINE v1 == Write(v, Bvm)
           v2 == Write(v1, TableAtom(v.tbl))
<1>1. Bvm.size \in Nat /\ TableAtom(v.tbl).size \in Nat
  BY DEF Bvm, TableAtom
<1>2. Follows(v, v1)
  BY <1>1, WriteSound
<1>3. Follows(v1, v2)
  BY <1>1, <1>2, WriteSound DEF Follows
<1>4. WriteLST(v) = v1 \/ WriteLST(v) = Store(v2)
  BY DEF WriteLST
<1> HIDE DEF v1, v2
<1>5. Follows(v2, Store(v2))
  BY <1>3, ReturnSound DEF Follows
<1> QED BY <1>2, <1>3, <1>4, <1>5 DEF Follows

\* and the buffer on top, written to the one below it.
LEMMA PopAndEmitSound ==
  ASSUME NEW v, Sound(v), v.bufs # << >>
  PROVE  Follows(v, PopAndEmit(v))
<1> DEFINE b  == Top(v.bufs)
           v1 == [v EXCEPT !.bufs = Pop(@)]
<1>1. IsStack(Pop(v.bufs)) /\ AllMeasured(Pop(v.bufs)) /\ Measured(b)
  BY MeasuredPop DEF Sound
<1>2. PopAndEmit(v) = Emit(v1, NodeAtoms(b), NodeLen(b))
  BY DEF PopAndEmit
<1>3. /\ DOMAIN v1 = Fields /\ v1.bufs = Pop(v.bufs)
      /\ \A f \in Fields \ {"bufs"} : v1[f] = v[f]
  BY DEF Sound, Fields
<1> HIDE DEF b, v1
<1>4. Follows(v, v1)
  BY <1>1, <1>3 DEF Sound, Follows, InStruct, Fields
<1>5. Follows(v1, PopAndEmit(v))
  BY <1>1, <1>2, <1>4, NodeMeasured, EmitSound DEF Follows
<1> QED BY <1>4, <1>5 DEF Follows

\* The wrapper of annotations is closed, when there is one.
LEMMA EndValueSound ==
  ASSUME NEW v, Sound(v)
  PROVE  Follows(v, EndValue(v))
BY PopAndEmitSound, ReturnSound DEF EndValue

\* A table may only be replaced by itself if it was given.
LEMMA TableSound ==
  ASSUME NEW v, Sound(v), NEW tbl, v.given => tbl = v.tbl
  PROVE  Follows(v, [v EXCEPT !.tbl = tbl])
<1> DEFINE u == [v EXCEPT !.tbl = tbl]
<1>1. DOMAIN u = Fields /\ u.tbl = tbl /\ \A f \in Fields \ {"tbl"} : u[f] = v[f]
  BY DEF Sound, Fields
<1> HIDE DEF u
<1>2. Follows(v, u)
  BY <1>1 DEF Sound, Follows, InStruct, Fields
<1> QED BY <1>2 DEF u

\* A field name is resolved and written.
LEMMA WriteFieldNameSound ==
  ASSUME NEW v, Sound(v), NEW name
  PROVE  Follows(v, WriteFieldName(v, name))
<1> DEFINE r  == ResolveName(v, name)
           v1 == [v EXCEPT !.tbl = r.tbl]
           a  == FieldAtom(r.id, r.text)
<1>1. Follows(v, v1)
  <2>1. v.given => r.tbl = v.tbl
    BY ResolveKeepsTable DEF Sound
  <2> HIDE DEF r
  <2> QED BY <2>1, TableSound
<1>2. a.size \in Nat
  BY VarUintBytes DEF FieldAtom
<1>3. WriteFieldName(v, name) \in {Return(v, "usage"), Write(v1, a)}
  BY DEF WriteFieldName, WriteName
<1> HIDE DEF v1, a
<1>4. Follows(v1, Write(v1, a))
  BY <1>1, <1>2, WriteSound DEF Follows
<1> QED BY <1>1, <1>3, <1>4, ReturnSound DEF Follows

\* The length of the annotations is summed up before their bytes exist.
LEMMA AnnotationSize ==
  ASSUME NEW ids, NEW texts, IsStack(ids)
  PROVE  AnnotationAtom(ids, texts).size \in Nat
<1> DEFINE f     == [i \in 1 .. Len(ids) |-> Len(appendVarUint(ids[i]))]
           len   == SumTo([i \in 1 .. Len(ids) |-> varUintLen(ids[i])], Len(ids))
<1>1. Len(ids) \in Nat
  BY StackLen
<1>2. Naturals(f, Len(ids))
  BY VarUintBytes DEF Naturals
<1>3. AnnotationAtom(ids, texts).size = Len(appendVarUint(len)) + SumTo(f, Len(ids))
  BY DEF AnnotationAtom
<1> HIDE DEF f, len
<1>4. SumTo(f, Len(ids)) \in Nat
  BY <1>1, <1>2, SumOfOneMore
<1> QED BY <1>3, <1>4, VarUintBytes

\* The annotations are resolved, and a wrapper is opened for them.
LEMMA WriteAnnotationsSound ==
  ASSUME NEW v, Sound(v), NEW marks, IsStack(marks)
  PROVE  Follows(v, WriteAnnotations(v, marks))
<1> DEFINE r  == ResolveMarks(v, marks)
           v1 == [v EXCEPT !.tbl = r.tbl]
           v2 == [v1 EXCEPT !.bufs = Append(@, Buffer(Wrapper))]
           a  == AnnotationAtom(r.ids, r.texts)
<1>1. IsStack(r.ids) /\ (v.given => r.tbl = v.tbl)
  BY ResolveMarksKeeps DEF Sound
<1>2. WriteAnnotations(v, marks) \in {Return(v1, "usage"), Write(v2, a)}
  BY DEF WriteAnnotations, WriteMarks
<1>3. a.size \in Nat
  BY <1>1, AnnotationSize
<1> HIDE DEF r, a
<1>4. Follows(v, v1)
  BY <1>1, TableSound
<1> HIDE DEF v1
<1>5. /\ IsStack(Append(v1.bufs, Buffer(Wrapper)))
      /\ AllMeasured(Append(v1.bufs, Buffer(Wrapper)))
  BY <1>4, EmptyMeasured, MeasuredPush DEF Follows, Sound
<1>6. /\ DOMAIN v2 = Fields /\ v2.bufs = Append(v1.bufs, Buffer(Wrapper))
      /\ \A f \in Fields \ {"bufs"} : v2[f] = v1[f]
  BY <1>4 DEF Follows, Sound, Fields
<1> HIDE DEF v2
<1>7. Follows(v1, v2)
  BY <1>4, <1>5, <1>6 DEF Sound, Follows, InStruct, Fields
<1>8. Follows(v2, Write(v2, a))
  BY <1>3, <1>7, WriteSound DEF Follows
<1>9. Follows(v1, Return(v1, "usage"))
  BY <1>4, ReturnSound DEF Follows
<1> QED BY <1>2, <1>4, <1>7, <1>8, <1>9 DEF Follows

\* The table is written in front of the first value of a datagram.
LEMMA BeginTableSound ==
  ASSUME NEW v, Sound(v)
  PROVE  Follows(v, BeginTable(v))
<1> DEFINE u == [v EXCEPT !.wroteLST = TRUE]
<1>1. DOMAIN u = Fields /\ \A f \in Fields \ {"wroteLST"} : u[f] = v[f]
  BY DEF Sound, Fields
<1>2. BeginTable(v) \in {v, WriteLST(u)}
  BY DEF BeginTable
<1> HIDE DEF u
<1>3. Follows(v, u)
  BY <1>1, OtherFieldsSound DEF Fields
<1>4. Follows(u, WriteLST(u))
  BY <1>3, WriteLSTSound DEF Follows
<1> QED BY <1>2, <1>3, <1>4 DEF Follows

\* When a value has begun, its field name is no longer pending.
LEMMA BeginValueSound ==
  ASSUME NEW v, Sound(v)
  PROVE  /\ Sound(BeginValue(v)) /\ BeginValue(v).ctx = v.ctx
         /\ BeginValue(v).fieldName = NoName
<1> DEFINE v0 == Clear(v)
           v1 == Return(v0, "nil")
           v2 == BeginTable(v1)
           v3 == BeginName(v2, v.fieldName)
           v4 == BeginMarks(v3, v.annotations)
<1>1. BeginValue(v) = v4
  BY DEF BeginValue
<1>2. Sound(v0) /\ v0.ctx = v.ctx /\ v0.fieldName = NoName
  BY ClearSound
<1> HIDE DEF v0
<1>3. Follows(v0, v1)
  BY <1>2, ReturnSound
<1> HIDE DEF v1
<1>4. Follows(v1, v2)
  BY <1>3, BeginTableSound DEF Follows
<1> HIDE DEF v2
<1>5. Follows(v2, v3)
  BY <1>4, WriteFieldNameSound DEF BeginName, Follows
<1> HIDE DEF v3
<1>6. Follows(v3, v4)
  BY <1>5, WriteAnnotationsSound DEF BeginMarks, Follows, Sound
<1> HIDE DEF v4
<1> QED BY <1>1, <1>2, <1>3, <1>4, <1>5, <1>6 DEF Follows

\* A scalar is written, with what goes before and after it.
LEMMA WriteValueSound ==
  ASSUME NEW v, Sound(v), NEW atoms, Sized(atoms)
  PROVE  Sound(WriteValue(v, atoms))
<1> DEFINE v1 == BeginValue(v)
           v2 == EmitNext(v1, atoms)
           v3 == EndNext(v2)
<1>1. WriteValue(v, atoms) \in {Return(v, v.err), Store(v3)}
  BY DEF WriteValue
<1>2. Sound(v1)
  BY BeginValueSound
<1> HIDE DEF v1
<1>3. Sound(v2)
  BY <1>2, EmitSound DEF EmitNext, Follows
<1> HIDE DEF v2
<1>4. Sound(v3)
  BY <1>3, EndValueSound DEF EndNext, Follows
<1> HIDE DEF v3
<1> QED BY <1>1, <1>4, ReturnSound DEF Follows

\* A container is entered,
LEMMA BeginSound ==
  ASSUME NEW v, Sound(v), NEW c
  PROVE  Sound(Begin(v, c))
<1> DEFINE v1 == BeginValue(v)
           v2 == [v1 EXCEPT !.ctx = Append(@, c), !.bufs = Append(@, Buffer(CodeOf[c]))]
<1>1. Begin(v, c) \in {Return(v, v.err), Store(v1), Store(v2)}
  BY DEF Begin, EnterNext
<1>2. Sound(v1) /\ v1.fieldName = NoName
  BY BeginValueSound
<1> HIDE DEF v1
<1>3. /\ IsStack(Append(v1.bufs, Buffer(CodeOf[c])))
      /\ AllMeasured(Append(v1.bufs, Buffer(CodeOf[c])))
  BY <1>2, EmptyMeasured, MeasuredPush DEF Sound
<1>4. /\ DOMAIN v2 = Fields /\ v2.bufs = Append(v1.bufs, Buffer(CodeOf[c]))
      /\ \A f \in Fields \ {"bufs", "ctx"} : v2[f] = v1[f]
  BY <1>2 DEF Sound, Fields
<1> HIDE DEF v2
<1>5. Sound(v2)
  BY <1>2, <1>3, <1>4 DEF Sound, Fields
<1> QED BY <1>1, <1>2, <1>5, ReturnSound DEF Follows

\* and left again.
LEMMA EndSound ==
  ASSUME NEW v, Sound(v), NEW c
  PROVE  Sound(End(v, c))
<1> DEFINE v1 == IF v.bufs # << >> THEN PopAndEmit(v) ELSE Return(v, "nil")
           v2 == Clear(v1)
           v3 == [v2 EXCEPT !.ctx = Pop(@)]
           v4 == EndValue(v3)
           v5 == Return(v, "usage")
<1>1. End(v, c) \in {Return(v, v.err), Store(v5), Store(v1), Store(v4)}
  BY DEF End
<1>2. Sound(v1)
  BY PopAndEmitSound, ReturnSound DEF Follows
<1> HIDE DEF v1
<1>3. Sound(v2) /\ v2.fieldName = NoName
  BY <1>2, ClearSound
<1> HIDE DEF v2
<1>4. DOMAIN v3 = Fields /\ \A f \in Fields \ {"ctx"} : v3[f] = v2[f]
  BY <1>3 DEF Sound, Fields
<1> HIDE DEF v3
<1>5. Sound(v3)
  BY <1>3, <1>4 DEF Sound, Fields
<1>6. Sound(v4)
  BY <1>5, EndValueSound DEF Follows
<1>7. Sound(v5)
  BY ReturnSound DEF Follows
<1> HIDE DEF v4, v5
<1> QED BY <1>1, <1>2, <1>6, <1>7, ReturnSound DEF Follows

\* A name is only taken inside a struct.
LEMMA FieldNameSound ==
  ASSUME NEW v, Sound(v), NEW name
  PROVE  Sound(FieldName(v, name))
<1> DEFINE u  == [v EXCEPT !.fieldName = name, !.ret = "nil"]
           v5 == Return(v, "usage")
<1>1. \/ FieldName(v, name) \in {Return(v, v.err), Store(v5)}
      \/ FieldName(v, name) = u /\ InStruct(v)
  BY DEF FieldName
<1>2. DOMAIN u = Fields /\ \A f \in Fields \ {"fieldName", "ret"} : u[f] = v[f]
  BY DEF Sound, Fields
<1> HIDE DEF u
<1>3. InStruct(v) => Sound(u)
  BY <1>2 DEF Sound, InStruct, Fields
<1>4. Sound(v5)
  BY ReturnSound DEF Follows
<1> HIDE DEF v5
<1> QED BY <1>1, <1>3, <1>4, ReturnSound DEF Follows

\* Annotations are kept for the next value.
LEMMA AnnotationsSound ==
  ASSUME NEW v, Sound(v), NEW m
  PROVE  Sound(Annotations(v, <<m>>))
<1> DEFINE marks == v.annotations \o <<m>>
           u     == [v EXCEPT !.annotations = @ \o <<m>>, !.ret = "nil"]
<1>1. Annotations(v, <<m>>) \in {Return(v, v.err), u}
  BY DEF Annotations
<1>2. /\ DOMAIN u = Fields /\ u.annotations = marks
      /\ \A f \in Fields \ {"annotations", "ret"} : u[f] = v[f]
  BY DEF Sound, Fields
<1>3. IsStack(<<m>>)
  <2>1. <<m>> \in Seq({m})
    OBVIOUS
  <2> QED BY <2>1 DEF IsStack
<1>4. IsStack(marks)
  BY <1>3, StackConcat DEF Sound
<1> HIDE DEF marks, u
<1>5. Sound(u)
  BY <1>2, <1>4 DEF Sound, InStruct, Fields
<1> QED BY <1>1, <1>5, ReturnSound DEF Follows

\* A symbol id takes the bytes of a UInt.
LEMMA SymbolSized ==
  ASSUME NEW id, NEW text
  PROVE  Sized(<<SymbolAtom(id, text)>>)
<1>1. SymbolAtom(id, text).size \in Nat
  BY TagBytes, UintBytes DEF SymbolAtom
<1> QED BY <1>1, SizeOfOne

\* A symbol is written once it is resolved, in the table of the lookup.
LEMMA WriteResolvedSound ==
  ASSUME NEW v, Sound(v), NEW r, v.given => r.tbl = v.tbl
  PROVE  Sound(WriteResolved(v, r))
<1> DEFINE u  == [v EXCEPT !.tbl = r.tbl, !.err = r.err]
           as == <<SymbolAtom(r.id, r.text)>>
<1>1. WriteResolved(v, r) \in {Return(u, r.err), WriteValue(u, as)}
  BY DEF WriteResolved
<1>2. /\ DOMAIN u = Fields /\ u.tbl = r.tbl
      /\ \A f \in Fields \ {"tbl", "err"} : u[f] = v[f]
  BY DEF Sound, Fields
<1>3. Sized(as)
  BY SymbolSized
<1> HIDE DEF u, as
<1>4. Sound(u)
  BY <1>2 DEF Sound, InStruct, Fields
<1> QED BY <1>1, <1>3, <1>4, ReturnSound, WriteValueSound DEF Follows

\* Symbols by text, and by token.
LEMMA WriteSymbolFromStringSound ==
  ASSUME NEW v, Sound(v), NEW s
  PROVE  Sound(WriteSymbolFromString(v, s))
<1>1. v.given => Resolve(v, s).tbl = v.tbl
  BY ResolveKeepsTable DEF Sound
<1> QED BY <1>1, WriteResolvedSound DEF WriteSymbolFromString

\* Whichever way the token resolves.
LEMMA WriteSymbolSound ==
  ASSUME NEW v, Sound(v), NEW tok
  PROVE  Sound(WriteSymbol(v, tok))
<1>1. Sound(WriteValue(v, <<SymbolAtom(tok.sid, NoText)>>))
  BY SymbolSized, WriteValueSound
<1>2. v.given => ResolveFromTable(v, tok.text).tbl = v.tbl
  BY ResolveKeepsTable DEF Sound
<1>3. Sound(WriteResolved(v, ResolveFromTable(v, tok.text)))
  BY <1>2, WriteResolvedSound
<1>4. Sound(Return(v, "usage"))
  BY ReturnSound DEF Follows
<1> QED BY <1>1, <1>3, <1>4 DEF WriteSymbol

\* A datagram is finished, and the next one begins.
LEMMA FinishSound ==
  ASSUME NEW v, Sound(v)
  PROVE  Sound(Finish(v))
<1> DEFINE v0  == Clear(v)
           v1  == [v0 EXCEPT !.wroteLST = FALSE]
           seq == Top(v.bufs)
           v2  == [v1 EXCEPT !.bufs = Pop(@)]
           v3  == WriteLST(v2)
           v4  == Emit(v3, NodeAtoms(seq), NodeLen(seq))
<1>1. \/ Finish(v) \in {Return(v, v.err), Return(v, "usage"), Return(v1, "nil")}
      \/ v.bufs # << >> /\ Finish(v) \in {Return(v2, "panic"), v3, Store(v4)}
  BY DEF Finish
<1>2. Sound(v0) /\ v0.bufs = v.bufs
  BY ClearSound
<1> HIDE DEF v0
<1>3. DOMAIN v1 = Fields /\ \A f \in Fields \ {"wroteLST"} : v1[f] = v0[f]
  BY <1>2 DEF Sound, Fields
<1> HIDE DEF v1
<1>4. Sound(v1) /\ v1.bufs = v.bufs
  BY <1>2, <1>3, OtherFieldsSound DEF Follows, Fields
<1>5. ASSUME v.bufs # << >>
      PROVE  Sound(Return(v2, "panic")) /\ Sound(v3) /\ Sound(Store(v4))
  <2>1. IsStack(Pop(v.bufs)) /\ AllMeasured(Pop(v.bufs)) /\ Measured(seq)
    BY <1>5, MeasuredPop DEF Sound
  <2>2. /\ DOMAIN v2 = Fields /\ v2.bufs = Pop(v.bufs)
        /\ \A f \in Fields \ {"bufs"} : v2[f] = v1[f]
    BY <1>4 DEF Sound, Fields
  <2> HIDE DEF v2, seq
  <2>3. Sound(v2)
    BY <1>4, <2>1, <2>2 DEF Sound, InStruct, Fields
  <2>4. Sound(v3)
    BY <2>3, WriteLSTSound DEF Follows
  <2> HIDE DEF v3
  <2>5. Sound(v4)
    BY <2>1, <2>4, NodeMeasured, EmitSound DEF Follows
  <2> HIDE DEF v4
  <2> QED BY <2>3, <2>4, <2>5, ReturnSound DEF Follows
<1> HIDE DEF v2, v3, v4
<1> QED BY <1>1, <1>4, <1>5, ReturnSound DEF Follows
-----------------------------------------------------------------------------
(***************************************************************************)
(* The theorems.                                                           *)
(***************************************************************************)
\* Between two calls the writer is sound: the inductive invariant.
LInv == Sound(w)

\* The scalars of the model take a number of bytes each.
LEMMA ScalarsSized ==
  ASSUME NEW sizes \in Scalars
  PROVE  Sized(ScalarAtoms(sizes))
<1>1. PICK n \in Nat : n = Len(sizes) /\ \A i \in 1 .. n : sizes[i] \in Nat
  BY ScalarsAssumption, LenProperties, ElementOfSeq
<1> DEFINE e(i) == [k |-> "scalar", size |-> sizes[i], part |-> i, sizes |-> sizes]
           as   == [i \in 1 .. n |-> e(i)]
<1>2. ScalarAtoms(sizes) = as
  BY <1>1 DEF ScalarAtoms
<1>3. \A i \in 1 .. n : e(i).size \in Nat
  BY <1>1
<1> HIDE DEF e
<1>4. as \in Seq({e(i) : i \in 1 .. n}) /\ Len(as) = n /\ \A i \in 1 .. n : as[i] = e(i)
  OBVIOUS
<1> HIDE DEF as
<1>5. Sized(as)
  BY <1>3, <1>4 DEF Sized, IsStack
<1> QED BY <1>2, <1>5

\* A new writer, and the one that Finish goes on with.
LEMMA NewWriterSound ==
  ASSUME NEW given \in BOOLEAN, NEW tbl, given => tbl = Table, NEW bufs, NEW fault,
         IsStack(bufs), AllMeasured(bufs)
  PROVE  Sound(NewWriter(given, tbl, bufs, fault))
<1> DEFINE v == NewWriter(given, tbl, bufs, fault)
<1>1. /\ DOMAIN v = Fields
      /\ v.bufs = bufs /\ v.given = given /\ v.tbl = tbl
      /\ v.annotations = << >> /\ v.fieldName = NoName
  BY DEF NewWriter, Fields
<1> HIDE DEF v
<1>2. Sound(v)
  BY <1>1, NewStacks DEF Sound
<1> QED BY <1>2 DEF v

\* The invariant holds of a new writer,
LEMMA InitLInv == Init => LInv
<1> SUFFICES ASSUME Init PROVE LInv
  OBVIOUS
<1>1. PICK fault \in Faults :
        \/ w = NewWriter(FALSE, NewBuilder(Imports), <<Buffer(Datagram)>>, fault)
        \/ w = NewWriter(TRUE, Table, << >>, fault)
  BY DEF Init
<1>2. IsStack(<<Buffer(Datagram)>>) /\ AllMeasured(<<Buffer(Datagram)>>)
  <2> DEFINE b == Buffer(Datagram)
             one == <<b>>
  <2>1. Measured(b) /\ IsStack(one)
    BY EmptyMeasured, NewStacks
  <2> HIDE DEF b
  <2>2. Len(one) = 1 /\ one[1] = b
    OBVIOUS
  <2> HIDE DEF one
  <2>3. AllMeasured(one)
    BY <2>1, <2>2 DEF AllMeasured
  <2> QED BY <2>1, <2>3 DEF one, b
<1>3. IsStack(<< >>) /\ AllMeasured(<< >>)
  BY NewStacks DEF AllMeasured
<1> QED BY <1>1, <1>2, <1>3, NewWriterSound DEF LInv

\* and every call keeps it,
LEMMA NextLInv == LInv /\ [Next]_vars => LInv'
<1> SUFFICES ASSUME LInv, [Next]_vars PROVE LInv'
  OBVIOUS
<1> USE DEF Call
<1>1. CASE CallFieldName
  <2>1. PICK n \in Names : w' = FieldName(w, n)
    BY <1>1 DEF CallFieldName
  <2> QED BY <2>1, FieldNameSound DEF LInv
<1>2. CASE CallAnnotations
  <2>1. PICK m \in Marks : w' = Annotations(w, <<m>>)
    BY <1>2 DEF CallAnnotations
  <2> QED BY <2>1, AnnotationsSound DEF LInv
<1>3. CASE CallScalar
  <2>1. PICK s \in Scalars : w' = WriteValue(w, ScalarAtoms(s))
    BY <1>3 DEF CallScalar
  <2> QED BY <2>1, ScalarsSized, WriteValueSound DEF LInv
<1>4. CASE CallSymbol
  <2>1. PICK t \in Symbols : w' = WriteSymbol(w, t)
    BY <1>4 DEF CallSymbol
  <2> QED BY <2>1, WriteSymbolSound DEF LInv
<1>5. CASE CallSymbolFromString
  <2>1. PICK s \in Strings : w' = WriteSymbolFromString(w, s)
    BY <1>5 DEF CallSymbolFromString
  <2> QED BY <2>1, WriteSymbolFromStringSound DEF LInv
<1>6. CASE CallBegin
  <2>1. PICK c \in Kinds : w' = Begin(w, c)
    BY <1>6 DEF CallBegin
  <2> QED BY <2>1, BeginSound DEF LInv
<1>7. CASE CallEnd
  <2>1. PICK c \in Kinds : w' = End(w, c)
    BY <1>7 DEF CallEnd
  <2> QED BY <2>1, EndSound DEF LInv
<1>8. CASE CallFinish
  <2>1. w' = Finish(w)
    BY <1>8 DEF CallFinish
  <2> QED BY <2>1, FinishSound DEF LInv
<1>9. CASE UNCHANGED vars
  BY <1>9 DEF vars, LInv, Sound, InStruct
<1> QED BY <1>1, <1>2, <1>3, <1>4, <1>5, <1>6, <1>7, <1>8, <1>9 DEF Next

\* so it always holds.
LEMMA SoundAlways == Spec => []LInv
BY InitLInv, NextLInv, PTL DEF Spec

\* For every value written, every table and every failing Write, the length a
\* buffer announces is the number of bytes it will emit (container.Len,
\* binarywriter.go:551): no tag or wrapper is a byte too long or too short.
THEOREM LengthsAgree == Spec => []LengthsAreBytes
<1>1. LInv => LengthsAreBytes
  BY DEF LInv, Sound, AllMeasured, Measured, LengthsAreBytes
<1> QED BY <1>1, SoundAlways, PTL

\* A table given to the writer stays as it was given, whatever symbols the calls
\* ask for, refused ones included (binarywriter.go:627).
THEOREM TableIsFixed == Spec => []GivenTableIsFixed
<1>1. LInv => GivenTableIsFixed
  BY DEF LInv, Sound, GivenTableIsFixed
<1> QED BY <1>1, SoundAlways, PTL

\* A field name is only pending inside the struct it was given in, whatever was
\* refused or failed since (writer.go:158, binarywriter.go:497, 611).
THEOREM NamesStayInStruct == Spec => []NameInStruct
<1>1. LInv => NameInStruct
  BY DEF LInv, Sound, NameInStruct
<1> QED BY <1>1, SoundAlways, PTL
=============================================================================
