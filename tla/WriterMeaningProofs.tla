------------------------ MODULE WriterMeaningProofs -------------------------
(***************************************************************************)
(* What the output of the binary writer means, for every caller, every     *)
(* table and every way the io.Writer may fail.                             *)
(*                                                                         *)
(* The first part is TableAtTopLevel, which speaks of the buffers.  A      *)
(* writer that was given its table writes it in the middle of a value,     *)
(* between the calls that push buffers, so the invariant (Placed) says     *)
(* when there can be no buffer yet; that Finish finds none below the       *)
(* datagram is StackDiscipline.                                            *)
(*                                                                         *)
(* The rest proves WrittenIsRead and OutputIsPrefix.  Live(v, ev, way)     *)
(* says that the output and then the buffers, each begun in the one        *)
(* below, come to the events ev; every step of a method adds to them what  *)
(* the caller was to say, or fails and leaves the beginning of it in the   *)
(* output (Begun).  The texts are no part of the bytes: a name means the   *)
(* same however the table has grown since (Twin), and a reader knows them  *)
(* once the table is out (Ready).  Between two calls the invariant is      *)
(* MInv: all that was said is in the output and the buffers as long as no  *)
(* error is stored, and after one the output is still its beginning.       *)
(***************************************************************************)
EXTENDS DecodeProofs

(***************************************************************************)
(* Where the version marker and the table may stand.                       *)
(***************************************************************************)
\* Atoms that are of a value: no version marker, no table, nothing torn.
Plain(atoms) ==
  /\ IsStack(atoms)
  /\ \A i \in 1 .. Len(atoms) :
       atoms[i].k \in {"tag", "field", "symbol", "annotations", "scalar"}

AllPlain(bufs) == \A i \in 1 .. Len(bufs) : Plain(bufs[i].atoms)

\* The buffers hold values only.  A writer with a table has no datagram to collect
\* values in, and until it has written its table no buffer at all.
Placed(v) ==
  /\ DOMAIN v = Fields
  /\ IsStack(v.bufs) /\ AllPlain(v.bufs)
  /\ v.given => \A i \in 1 .. Len(v.bufs) : v.bufs[i].code # Datagram
  /\ v.given /\ ~v.wroteLST => v.bufs = << >>

\* u comes after v, whose table is where it was.
Stays(v, u) == Placed(u) /\ u.given = v.given /\ u.wroteLST = v.wroteLST

\* If the value can go on, the table is written.
Prepared(v) == Placed(v) /\ (v.ret = "nil" /\ v.given => v.wroteLST)

\* An atom of a value, and two runs of them.
LEMMA PlainOne ==
  ASSUME NEW a, a.k \in {"tag", "field", "symbol", "annotations", "scalar"}
  PROVE  Plain(<<a>>)
<1> DEFINE one == <<a>>
<1>1. one \in Seq({a}) /\ Len(one) = 1 /\ one[1] = a
  OBVIOUS
<1> HIDE DEF one
<1>2. Plain(one)
  BY <1>1 DEF Plain, IsStack
<1> QED BY <1>2 DEF one

\* Plain atoms behind plain atoms are plain.
LEMMA PlainConcat ==
  ASSUME NEW A, NEW B, Plain(A), Plain(B)
  PROVE  Plain(A \o B)
<1>1. /\ IsStack(A \o B) /\ Len(A) \in Nat /\ Len(B) \in Nat /\ Len(A \o B) = Len(A) + Len(B)
      /\ \A i \in 1 .. Len(A) : (A \o B)[i] = A[i]
      /\ \A i \in 1 .. Len(B) : (A \o B)[Len(A) + i] = B[i]
  BY StackConcat, StackLen DEF Plain
<1>2. ASSUME NEW i \in 1 .. Len(A \o B), i > Len(A)
      PROVE  (A \o B)[i].k \in {"tag", "field", "symbol", "annotations", "scalar"}
  <2>1. i - Len(A) \in 1 .. Len(B) /\ Len(A) + (i - Len(A)) = i
    BY <1>1, <1>2
  <2> QED BY <1>1, <2>1 DEF Plain
<1>3. ASSUME NEW i \in 1 .. Len(A \o B), ~(i > Len(A))
      PROVE  (A \o B)[i].k \in {"tag", "field", "symbol", "annotations", "scalar"}
  <2>1. i \in 1 .. Len(A)
    BY <1>1, <1>3
  <2> QED BY <1>1, <2>1 DEF Plain
<1> QED BY <1>1, <1>2, <1>3 DEF Plain

\* No atoms are plain.
LEMMA PlainNone == Plain(<< >>)
<1> DEFINE none == << >>
<1>1. none \in Seq({}) /\ Len(none) = 0
  OBVIOUS
<1> HIDE DEF none
<1>2. Plain(none)
  BY <1>1 DEF Plain, IsStack
<1> QED BY <1>2 DEF none

\* A finished buffer is a tag and what it holds.
LEMMA NodePlain ==
  ASSUME NEW b, Plain(b.atoms)
  PROVE  Plain(NodeAtoms(b))
<1>1. TagAtom(b.code, b.len).k = "tag"
  BY DEF TagAtom
<1>2. Plain(<<TagAtom(b.code, b.len)>>)
  BY <1>1, PlainOne
<1>3. Plain(<<TagAtom(b.code, b.len)>> \o b.atoms)
  BY <1>2, PlainConcat
<1> QED BY <1>3 DEF NodeAtoms

\* Only the buffers, and whether the table is written, count.
LEMMA OtherFieldsPlaced ==
  ASSUME NEW v, NEW u, Placed(v), DOMAIN u = Fields,
         u.bufs = v.bufs, u.given = v.given, u.wroteLST = v.wroteLST
  PROVE  Stays(v, u)
BY DEF Placed, Stays

\* To return, or to store the error, moves no atom,
LEMMA ReturnPlaced ==
  ASSUME NEW v, Placed(v), NEW err
  PROVE  Stays(v, Return(v, err)) /\ Stays(v, Store(v))
<1>1. /\ DOMAIN Return(v, err) = Fields /\ DOMAIN Store(v) = Fields
      /\ \A f \in Fields \ {"ret"} : Return(v, err)[f] = v[f]
      /\ \A f \in Fields \ {"err"} : Store(v)[f] = v[f]
  BY DEF Return, Store, Placed, Fields
<1> QED BY <1>1, OtherFieldsPlaced DEF Fields

\* nor does it to forget the name and the annotations.
LEMMA ClearPlaced ==
  ASSUME NEW v, Placed(v)
  PROVE  Stays(v, Clear(v)) /\ Clear(v).bufs = v.bufs
<1>1. /\ DOMAIN Clear(v) = Fields
      /\ \A f \in Fields \ {"fieldName", "annotations"} : Clear(v)[f] = v[f]
  BY DEF Clear, Placed, Fields
<1> QED BY <1>1, OtherFieldsPlaced DEF Fields

\* Nothing but values is emitted into a buffer, and anything when there is none.
LEMMA EmitPlaced ==
  ASSUME NEW v, Placed(v), NEW atoms, NEW len, v.bufs = << >> \/ Plain(atoms)
  PROVE  /\ Stays(v, Emit(v, atoms, len))
         /\ v.bufs = << >> => Emit(v, atoms, len).bufs = << >>
<1>1. CASE v.bufs = << >>
  <2>1. /\ DOMAIN EmitTo(v, atoms) = Fields
        /\ \A f \in Fields \ {"ret", "out", "writes"} : EmitTo(v, atoms)[f] = v[f]
    BY DEF Placed, EmitTo, Fields
  <2>2. Emit(v, atoms, len) = EmitTo(v, atoms)
    BY <1>1 DEF Emit
  <2> QED BY <1>1, <2>1, <2>2, OtherFieldsPlaced DEF Fields
<1>2. CASE v.bufs # << >>
  <2> DEFINE top == Top(v.bufs)
             b   == [code |-> top.code, len |-> top.len + len, atoms |-> top.atoms \o atoms]
             bs  == [v.bufs EXCEPT ![Len(v.bufs)] = b]
             u   == Emit(v, atoms, len)
  <2>1. Emit(v, atoms, len) = [v EXCEPT !.bufs = bs, !.ret = "nil"]
    BY <1>2 DEF Emit
  <2>2. Len(v.bufs) \in 1 .. Len(v.bufs)
    BY <1>2, StackLen DEF Placed
  <2>3. Plain(b.atoms) /\ b.code = top.code
    BY <1>2, <2>2, PlainConcat DEF Placed, AllPlain, Top
  <2> HIDE DEF b
  <2>4. PICK S : v.bufs \in Seq(S)
    BY DEF Placed, IsStack
  <2>5. v.bufs \in Seq(S \cup {b}) /\ b \in S \cup {b}
    BY <2>4, SeqMonotonic
  <2>6. /\ bs \in Seq(S \cup {b}) /\ Len(bs) = Len(v.bufs)
        /\ \A j \in 1 .. Len(v.bufs) : bs[j] = IF j = Len(v.bufs) THEN b ELSE v.bufs[j]
    BY <2>2, <2>5, ExceptSeq
  <2> HIDE DEF bs
  <2>7. IsStack(bs)
    BY <2>6 DEF IsStack
  <2>8. AllPlain(bs)
    BY <2>3, <2>6 DEF Placed, AllPlain
  <2>9. v.given => \A i \in 1 .. Len(bs) : bs[i].code # Datagram
    BY <2>2, <2>3, <2>6 DEF Placed, Top
  <2>10. /\ DOMAIN u = Fields /\ u.bufs = bs
         /\ \A f \in Fields \ {"bufs", "ret"} : u[f] = v[f]
    BY <2>1 DEF Placed, Fields
  <2> HIDE DEF u
  <2>11. Stays(v, u)
    BY <1>2, <2>7, <2>8, <2>9, <2>10 DEF Stays, Placed, Fields
  <2> QED BY <1>2, <2>11 DEF u
<1> QED BY <1>1, <1>2

\* A buffer is pushed when the table is written.
LEMMA PushPlaced ==
  ASSUME NEW v, Placed(v), v.given => v.wroteLST, NEW code, code # Datagram,
         NEW u, DOMAIN u = Fields, u.bufs = Append(v.bufs, Buffer(code)),
         u.given = v.given, u.wroteLST = v.wroteLST
  PROVE  Stays(v, u)
<1> DEFINE b  == Buffer(code)
           bs == Append(v.bufs, b)
<1>1. b.atoms = << >> /\ b.code = code
  BY DEF Buffer
<1>2. Plain(b.atoms)
  BY <1>1, PlainNone
<1> HIDE DEF b
<1>3. /\ IsStack(bs) /\ Len(bs) = Len(v.bufs) + 1 /\ bs[Len(v.bufs) + 1] = b
      /\ \A i \in 1 .. Len(v.bufs) : bs[i] = v.bufs[i]
  BY StackPushed DEF Placed
<1>4. Len(v.bufs) \in Nat /\ u.bufs = bs
  BY StackLen DEF Placed, b
<1> HIDE DEF bs
<1>5. AllPlain(bs)
  BY <1>2, <1>3, <1>4 DEF AllPlain, Placed
<1>6. v.given => \A i \in 1 .. Len(bs) : bs[i].code # Datagram
  BY <1>1, <1>3, <1>4 DEF Placed
<1> QED BY <1>3, <1>4, <1>5, <1>6 DEF Stays, Placed

\* A buffer that is popped holds values only, as do those below it.
LEMMA PopPlaced ==
  ASSUME NEW v, Placed(v), v.bufs # << >>,
         NEW u, DOMAIN u = Fields, u.bufs = Pop(v.bufs),
         u.given = v.given, u.wroteLST = v.wroteLST
  PROVE  Stays(v, u) /\ Plain(Top(v.bufs).atoms)
<1> DEFINE s == v.bufs
<1>1. PICK S : s \in Seq(S)
  BY DEF Placed, IsStack
<1>2. Len(s) \in Nat /\ Len(s) > 0 /\ Len(s) - 1 \in Nat
  <2>1. Len(s) \in Nat /\ Len(s) > 0
    BY StackLen DEF Placed
  <2> QED BY <2>1
<1>3. PICK n \in Nat : n = Len(s) - 1
  BY <1>2
<1>4. \A i \in 1 .. n : s[i] \in S
  BY <1>1, <1>3, ElementOfSeq
<1>5. /\ SubSeq(s, 1, n) \in Seq(S) /\ Len(SubSeq(s, 1, n)) = n
      /\ \A i \in 1 .. n : SubSeq(s, 1, n)[i] = s[i]
  BY <1>4, StackPrefix
<1>6. u.bufs = SubSeq(s, 1, n) /\ n + 1 = Len(s)
  BY <1>3 DEF Pop
<1>7. Plain(Top(v.bufs).atoms)
  BY <1>2 DEF Placed, AllPlain, Top
<1>8. v.given => v.wroteLST
  BY DEF Placed
<1>9. IsStack(u.bufs) /\ AllPlain(u.bufs)
  <2>1. IsStack(u.bufs)
    BY <1>5, <1>6 DEF IsStack
  <2>2. \A i \in 1 .. n : Plain(s[i].atoms)
    BY <1>6 DEF AllPlain, Placed
  <2> QED BY <1>5, <1>6, <2>1, <2>2 DEF AllPlain
<1>10. v.given => \A i \in 1 .. Len(u.bufs) : u.bufs[i].code # Datagram
  BY <1>5, <1>6 DEF Placed
<1> QED BY <1>7, <1>8, <1>9, <1>10 DEF Stays, Placed

\* The marker and the table are written when there is no buffer.
LEMMA WriteLSTPlaced ==
  ASSUME NEW v, Placed(v), v.bufs = << >>
  PROVE  Stays(v, WriteLST(v)) /\ WriteLST(v).bufs = << >>
<1> DEFINE v1 == Write(v, Bvm)
           v2 == Write(v1, TableAtom(v.tbl))
<1>1. Stays(v, v1) /\ v1.bufs = << >>
  BY EmitPlaced DEF Write
<1>2. Stays(v1, v2) /\ v2.bufs = << >>
  BY <1>1, EmitPlaced DEF Write, Stays
<1>3. WriteLST(v) = v1 \/ WriteLST(v) = Store(v2)
  BY DEF WriteLST
<1> HIDE DEF v1, v2
<1>4. Stays(v2, Store(v2))
  BY <1>2, ReturnPlaced DEF Stays
<1>5. Store(v2).bufs = v2.bufs
  BY <1>2 DEF Store, Stays, Placed, Fields
<1> QED BY <1>1, <1>2, <1>3, <1>4, <1>5 DEF Stays

\* The buffer on top is written to the one below it, or out.
LEMMA PopAndEmitPlaced ==
  ASSUME NEW v, Placed(v), v.bufs # << >>
  PROVE  Stays(v, PopAndEmit(v))
<1> DEFINE b  == Top(v.bufs)
           v1 == [v EXCEPT !.bufs = Pop(@)]
<1>1. PopAndEmit(v) = Emit(v1, NodeAtoms(b), NodeLen(b))
  BY DEF PopAndEmit
<1>2. /\ DOMAIN v1 = Fields /\ v1.bufs = Pop(v.bufs)
      /\ \A f \in Fields \ {"bufs"} : v1[f] = v[f]
  BY DEF Placed, Fields
<1> HIDE DEF v1
<1>3. Stays(v, v1) /\ Plain(b.atoms)
  BY <1>2, PopPlaced DEF Fields
<1> HIDE DEF b
<1>4. Stays(v1, PopAndEmit(v))
  BY <1>1, <1>3, NodePlain, EmitPlaced DEF Stays
<1> QED BY <1>3, <1>4 DEF Stays

\* A value that ends moves the atoms of its wrapper down.
LEMMA EndValuePlaced ==
  ASSUME NEW v, Placed(v)
  PROVE  Stays(v, EndValue(v))
BY PopAndEmitPlaced, ReturnPlaced DEF EndValue

\* The field name is written into the buffer of its struct.
LEMMA WriteFieldNamePlaced ==
  ASSUME NEW v, Placed(v), NEW name
  PROVE  Stays(v, WriteFieldName(v, name))
<1> DEFINE r  == ResolveName(v, name)
           v1 == [v EXCEPT !.tbl = r.tbl]
           a  == FieldAtom(r.id, r.text)
<1>1. WriteFieldName(v, name) \in {Return(v, "usage"), Write(v1, a)}
  BY DEF WriteFieldName, WriteName
<1>2. Plain(<<a>>)
  BY PlainOne DEF FieldAtom
<1>3. DOMAIN v1 = Fields /\ \A f \in Fields \ {"tbl"} : v1[f] = v[f]
  BY DEF Placed, Fields
<1> HIDE DEF v1, a
<1>4. Stays(v, v1)
  BY <1>3, OtherFieldsPlaced DEF Fields
<1>5. Stays(v1, Write(v1, a))
  BY <1>2, <1>4, EmitPlaced DEF Write, Stays
<1> QED BY <1>1, <1>4, <1>5, ReturnPlaced DEF Stays

\* The annotations are written into a wrapper of their own.
LEMMA WriteAnnotationsPlaced ==
  ASSUME NEW v, Placed(v), v.given => v.wroteLST, NEW marks
  PROVE  Stays(v, WriteAnnotations(v, marks))
<1> DEFINE r  == ResolveMarks(v, marks)
           v1 == [v EXCEPT !.tbl = r.tbl]
           v2 == [v1 EXCEPT !.bufs = Append(@, Buffer(Wrapper))]
           a  == AnnotationAtom(r.ids, r.texts)
<1>1. WriteAnnotations(v, marks) \in {Return(v1, "usage"), Write(v2, a)}
  BY DEF WriteAnnotations, WriteMarks
<1>2. Plain(<<a>>)
  BY PlainOne DEF AnnotationAtom
<1> HIDE DEF a
<1>3. DOMAIN v1 = Fields /\ \A f \in Fields \ {"tbl"} : v1[f] = v[f]
  BY DEF Placed, Fields
<1> HIDE DEF v1
<1>4. Stays(v, v1)
  BY <1>3, OtherFieldsPlaced DEF Fields
<1>5. /\ DOMAIN v2 = Fields /\ v2.bufs = Append(v1.bufs, Buffer(Wrapper))
      /\ \A f \in Fields \ {"bufs"} : v2[f] = v1[f]
  BY <1>3 DEF Fields
<1> HIDE DEF v2
<1>6. Stays(v1, v2)
  BY <1>4, <1>5, Codes, PushPlaced DEF Stays, Fields
<1>7. Stays(v2, Write(v2, a))
  BY <1>2, <1>6, EmitPlaced DEF Write, Stays
<1>8. Stays(v1, Return(v1, "usage"))
  BY <1>4, ReturnPlaced DEF Stays
<1> QED BY <1>1, <1>4, <1>6, <1>7, <1>8 DEF Stays

\* The table of a writer that was given one is written before anything else.
LEMMA BeginTablePlaced ==
  ASSUME NEW v, Placed(v)
  PROVE  Prepared(BeginTable(v))
<1> DEFINE u == [v EXCEPT !.wroteLST = TRUE]
<1>1. CASE v.ret = "nil" /\ v.given /\ ~v.wroteLST
  <2>1. DOMAIN u = Fields /\ \A f \in Fields \ {"wroteLST"} : u[f] = v[f]
    BY DEF Placed, Fields
  <2>2. u.wroteLST
    BY DEF Placed, Fields
  <2>3. v.bufs = << >>
    BY <1>1 DEF Placed
  <2>4. BeginTable(v) = WriteLST(u)
    BY <1>1 DEF BeginTable
  <2> HIDE DEF u
  <2>5. Placed(u) /\ u.bufs = << >>
    BY <2>1, <2>2, <2>3 DEF Placed, Fields
  <2> QED BY <2>2, <2>4, <2>5, WriteLSTPlaced DEF Prepared, Stays
<1>2. CASE ~(v.ret = "nil" /\ v.given /\ ~v.wroteLST)
  BY <1>2 DEF BeginTable, Prepared
<1> QED BY <1>1, <1>2

\* A value that begins may write the table, with nothing buffered above it.
LEMMA BeginValuePlaced ==
  ASSUME NEW v, Placed(v)
  PROVE  Prepared(BeginValue(v))
<1> DEFINE v0 == Clear(v)
           v1 == Return(v0, "nil")
           v2 == BeginTable(v1)
           v3 == BeginName(v2, v.fieldName)
           v4 == BeginMarks(v3, v.annotations)
<1>1. BeginValue(v) = v4
  BY DEF BeginValue
<1>2. Placed(v0)
  BY ClearPlaced DEF Stays
<1> HIDE DEF v0
<1>3. Placed(v1)
  BY <1>2, ReturnPlaced DEF Stays
<1> HIDE DEF v1
<1>4. Prepared(v2)
  BY <1>3, BeginTablePlaced
<1> HIDE DEF v2
<1>5. Prepared(v3)
  BY <1>4, WriteFieldNamePlaced DEF BeginName, Prepared, Stays
<1> HIDE DEF v3
<1>6. Prepared(v4)
  BY <1>5, WriteAnnotationsPlaced DEF BeginMarks, Prepared, Stays
<1> HIDE DEF v4
<1> QED BY <1>1, <1>6

\* A scalar,
LEMMA WriteValuePlaced ==
  ASSUME NEW v, Placed(v), NEW atoms, Plain(atoms)
  PROVE  Placed(WriteValue(v, atoms))
<1> DEFINE v1 == BeginValue(v)
           v2 == EmitNext(v1, atoms)
           v3 == EndNext(v2)
<1>1. WriteValue(v, atoms) \in {Return(v, v.err), Store(v3)}
  BY DEF WriteValue
<1>2. Placed(v1)
  BY BeginValuePlaced DEF Prepared
<1> HIDE DEF v1
<1>3. Placed(v2)
  BY <1>2, EmitPlaced DEF EmitNext, Stays
<1> HIDE DEF v2
<1>4. Placed(v3)
  BY <1>3, EndValuePlaced DEF EndNext, Stays
<1> HIDE DEF v3
<1> QED BY <1>1, <1>4, ReturnPlaced DEF Stays

\* a container that begins
LEMMA BeginPlaced ==
  ASSUME NEW v, Placed(v), NEW c \in Contexts
  PROVE  Placed(Begin(v, c))
<1> DEFINE v1 == BeginValue(v)
           v2 == [v1 EXCEPT !.ctx = Append(@, c), !.bufs = Append(@, Buffer(CodeOf[c]))]
<1>1. Begin(v, c) \in {Return(v, v.err), Store(v1)} \/ (Begin(v, c) = Store(v2) /\ v1.ret = "nil")
  BY DEF Begin, EnterNext
<1>2. Prepared(v1)
  BY BeginValuePlaced
<1> HIDE DEF v1
<1>3. /\ DOMAIN v2 = Fields /\ v2.bufs = Append(v1.bufs, Buffer(CodeOf[c]))
      /\ \A f \in Fields \ {"bufs", "ctx"} : v2[f] = v1[f]
  BY <1>2 DEF Prepared, Placed, Fields
<1> HIDE DEF v2
<1>4. CodeOf[c] # Datagram
  BY Codes
<1>5. v1.ret = "nil" => Placed(v2)
  BY <1>2, <1>3, <1>4, PushPlaced DEF Prepared, Stays, Fields
<1> QED BY <1>1, <1>2, <1>5, ReturnPlaced DEF Prepared, Stays

\* and one that ends keep the marker and the tables where they may stand,
LEMMA EndPlaced ==
  ASSUME NEW v, Placed(v), NEW c
  PROVE  Placed(End(v, c))
<1> DEFINE v1 == IF v.bufs # << >> THEN PopAndEmit(v) ELSE Return(v, "nil")
           v2 == Clear(v1)
           v3 == [v2 EXCEPT !.ctx = Pop(@)]
           v4 == EndValue(v3)
           v5 == Return(v, "usage")
<1>1. End(v, c) \in {Return(v, v.err), Store(v5), Store(v1), Store(v4)}
  BY DEF End
<1>2. Placed(v1)
  BY PopAndEmitPlaced, ReturnPlaced DEF Stays
<1> HIDE DEF v1
<1>3. Placed(v2)
  BY <1>2, ClearPlaced DEF Stays
<1> HIDE DEF v2
<1>4. DOMAIN v3 = Fields /\ \A f \in Fields \ {"ctx"} : v3[f] = v2[f]
  BY <1>3 DEF Placed, Fields
<1> HIDE DEF v3
<1>5. Placed(v3)
  BY <1>3, <1>4, OtherFieldsPlaced DEF Stays, Fields
<1>6. Placed(v4)
  BY <1>5, EndValuePlaced DEF Stays
<1>7. Placed(v5)
  BY ReturnPlaced DEF Stays
<1> HIDE DEF v4, v5
<1> QED BY <1>1, <1>2, <1>6, <1>7, ReturnPlaced DEF Stays

\* and so do a field name
LEMMA FieldNamePlaced ==
  ASSUME NEW v, Placed(v), NEW name
  PROVE  Placed(FieldName(v, name))
<1> DEFINE u  == [v EXCEPT !.fieldName = name, !.ret = "nil"]
           v5 == Return(v, "usage")
<1>1. FieldName(v, name) \in {Return(v, v.err), Store(v5), u}
  BY DEF FieldName
<1>2. DOMAIN u = Fields /\ \A f \in Fields \ {"fieldName", "ret"} : u[f] = v[f]
  BY DEF Placed, Fields
<1> HIDE DEF u
<1>3. Placed(u)
  BY <1>2, OtherFieldsPlaced DEF Stays, Fields
<1>4. Placed(v5)
  BY ReturnPlaced DEF Stays
<1> HIDE DEF v5
<1> QED BY <1>1, <1>3, <1>4, ReturnPlaced DEF Stays

\* and annotations.
LEMMA AnnotationsPlaced ==
  ASSUME NEW v, Placed(v), NEW marks
  PROVE  Placed(Annotations(v, marks))
<1> DEFINE u == [v EXCEPT !.annotations = @ \o marks, !.ret = "nil"]
<1>1. Annotations(v, marks) \in {Return(v, v.err), u}
  BY DEF Annotations
<1>2. DOMAIN u = Fields /\ \A f \in Fields \ {"annotations", "ret"} : u[f] = v[f]
  BY DEF Placed, Fields
<1> HIDE DEF u
<1>3. Placed(u)
  BY <1>2, OtherFieldsPlaced DEF Stays, Fields
<1> QED BY <1>1, <1>3, ReturnPlaced DEF Stays

\* A symbol is plain.
LEMMA SymbolPlain ==
  ASSUME NEW id, NEW text
  PROVE  Plain(<<SymbolAtom(id, text)>>)
BY PlainOne DEF SymbolAtom

\* A symbol whose text was looked up
LEMMA WriteResolvedPlaced ==
  ASSUME NEW v, Placed(v), NEW r
  PROVE  Placed(WriteResolved(v, r))
<1> DEFINE u  == [v EXCEPT !.tbl = r.tbl, !.err = r.err]
           as == <<SymbolAtom(r.id, r.text)>>
<1>1. WriteResolved(v, r) \in {Return(u, r.err), WriteValue(u, as)}
  BY DEF WriteResolved
<1>2. DOMAIN u = Fields /\ \A f \in Fields \ {"tbl", "err"} : u[f] = v[f]
  BY DEF Placed, Fields
<1>3. Plain(as)
  BY SymbolPlain
<1> HIDE DEF u, as
<1>4. Placed(u)
  BY <1>2, OtherFieldsPlaced DEF Stays, Fields
<1> QED BY <1>1, <1>3, <1>4, ReturnPlaced, WriteValuePlaced DEF Stays

\* or one that comes with its id is a value like another.
LEMMA WriteSymbolPlaced ==
  ASSUME NEW v, Placed(v), NEW tok
  PROVE  Placed(WriteSymbol(v, tok))
<1>1. Placed(WriteValue(v, <<SymbolAtom(tok.sid, NoText)>>))
  BY SymbolPlain, WriteValuePlaced
<1>2. Placed(WriteResolved(v, ResolveFromTable(v, tok.text)))
  BY WriteResolvedPlaced
<1>3. Placed(Return(v, "usage"))
  BY ReturnPlaced DEF Stays
<1> QED BY <1>1, <1>2, <1>3 DEF WriteSymbol

\* Only the datagram can be left at top level, so Finish writes its table when
\* there is no buffer.
LEMMA FinishPlaced ==
  ASSUME NEW v, Placed(v), Closed(v)
  PROVE  Placed(Finish(v))
<1> DEFINE v0  == Clear(v)
           v1  == [v0 EXCEPT !.wroteLST = FALSE]
           seq == Top(v.bufs)
           v2  == [v1 EXCEPT !.bufs = Pop(@)]
           v3  == WriteLST(v2)
           v4  == Emit(v3, NodeAtoms(seq), NodeLen(seq))
<1>1. \/ Finish(v) \in {Return(v, v.err), Return(v, "usage")}
      \/ v.bufs = << >> /\ Finish(v) = Return(v1, "nil")
      \/ /\ v.ctx = << >> /\ v.bufs # << >>
         /\ Finish(v) \in {v3, Store(v4)} \/ Len(v.bufs) > 1
  BY DEF Finish
<1>2. Placed(v0) /\ v0.bufs = v.bufs
  BY ClearPlaced DEF Stays
<1> HIDE DEF v0
<1>3. DOMAIN v1 = Fields /\ \A f \in Fields \ {"wroteLST"} : v1[f] = v0[f]
  BY <1>2 DEF Placed, Fields
<1> HIDE DEF v1
<1>4. v.bufs = << >> => Placed(v1)
  BY <1>2, <1>3 DEF Placed, Fields
<1>5. ASSUME v.ctx = << >>, v.bufs # << >>
      PROVE  ~(Len(v.bufs) > 1) /\ Placed(v3) /\ Placed(Store(v4))
  <2>1. IsStack(v.bufs) /\ Len(v.bufs) = 1 /\ Pop(v.bufs) = << >>
    BY <1>5, DatagramAlone, PopAlone DEF Closed, IsWriter
  <2>2. /\ DOMAIN v2 = Fields /\ v2.bufs = << >>
        /\ \A f \in Fields \ {"bufs"} : v2[f] = v1[f]
    BY <1>2, <1>3, <2>1 DEF Placed, Fields
  <2> HIDE DEF v2, seq
  <2>3. Placed(v2)
    <3>1. \A i \in 1 .. Len(<< >>) : FALSE
      OBVIOUS
    <3> QED BY <2>2, <3>1, NewStacks DEF Placed, AllPlain
  <2>4. Placed(v3) /\ v3.bufs = << >>
    BY <2>2, <2>3, WriteLSTPlaced DEF Stays
  <2> HIDE DEF v3
  <2>5. Placed(v4)
    BY <2>4, EmitPlaced DEF Stays
  <2> HIDE DEF v4
  <2> QED BY <2>1, <2>4, <2>5, ReturnPlaced DEF Stays
<1> HIDE DEF v2, v3, v4
<1> QED BY <1>1, <1>4, <1>5, ReturnPlaced DEF Stays

\* The parts of a scalar.
LEMMA ScalarsPlain ==
  ASSUME NEW sizes \in Scalars
  PROVE  Plain(ScalarAtoms(sizes))
<1>1. PICK n \in Nat : n = Len(sizes)
  BY ScalarsAssumption, LenProperties
<1> DEFINE e(i) == [k |-> "scalar", size |-> sizes[i], part |-> i, sizes |-> sizes]
           as   == [i \in 1 .. n |-> e(i)]
<1>2. ScalarAtoms(sizes) = as
  BY <1>1 DEF ScalarAtoms
<1>3. \A i \in 1 .. n : e(i).k = "scalar"
  OBVIOUS
<1> HIDE DEF e
<1>4. as \in Seq({e(i) : i \in 1 .. n}) /\ Len(as) = n /\ \A i \in 1 .. n : as[i] = e(i)
  OBVIOUS
<1> HIDE DEF as
<1>5. Plain(as)
  BY <1>3, <1>4 DEF Plain, IsStack
<1> QED BY <1>2, <1>5

\* A new writer.
LEMMA InitPlaced == Init => Placed(w)
<1> SUFFICES ASSUME Init PROVE Placed(w)
  OBVIOUS
<1>1. PICK fault \in Faults :
        \/ w = NewWriter(FALSE, NewBuilder(Imports), <<Buffer(Datagram)>>, fault)
        \/ w = NewWriter(TRUE, Table, << >>, fault)
  BY DEF Init
<1>2. CASE w = NewWriter(FALSE, NewBuilder(Imports), <<Buffer(Datagram)>>, fault)
  <2> DEFINE b   == Buffer(Datagram)
             one == <<b>>
  <2>1. DOMAIN w = Fields /\ w.bufs = one /\ ~w.given
    BY <1>2 DEF NewWriter, Fields
  <2>2. b.atoms = << >>
    BY DEF Buffer
  <2> HIDE DEF b
  <2>3. one \in Seq({b}) /\ Len(one) = 1 /\ one[1] = b
    OBVIOUS
  <2> HIDE DEF one
  <2>4. IsStack(one) /\ AllPlain(one)
    BY <2>2, <2>3, PlainNone DEF IsStack, AllPlain
  <2> QED BY <2>1, <2>4 DEF Placed
<1>3. CASE w = NewWriter(TRUE, Table, << >>, fault)
  <2>1. DOMAIN w = Fields /\ w.bufs = << >>
    BY <1>3 DEF NewWriter, Fields
  <2>2. \A i \in 1 .. Len(<< >>) : FALSE
    OBVIOUS
  <2> QED BY <2>1, <2>2, NewStacks DEF Placed, AllPlain
<1> QED BY <1>1, <1>2, <1>3

\* Every call keeps the tables out of the buffers.
LEMMA NextPlaced == Placed(w) /\ IInv /\ [Next]_vars => Placed(w')
<1> SUFFICES ASSUME Placed(w), IInv, [Next]_vars PROVE Placed(w')
  OBVIOUS
<1> USE DEF Call
<1>1. CASE CallFieldName
  <2>1. PICK n \in Names : w' = FieldName(w, n)
    BY <1>1 DEF CallFieldName
  <2> QED BY <2>1, FieldNamePlaced
<1>2. CASE CallAnnotations
  <2>1. PICK m \in Marks : w' = Annotations(w, <<m>>)
    BY <1>2 DEF CallAnnotations
  <2> QED BY <2>1, AnnotationsPlaced
<1>3. CASE CallScalar
  <2>1. PICK s \in Scalars : w' = WriteValue(w, ScalarAtoms(s))
    BY <1>3 DEF CallScalar
  <2> QED BY <2>1, ScalarsPlain, WriteValuePlaced
<1>4. CASE CallSymbol
  <2>1. PICK t \in Symbols : w' = WriteSymbol(w, t)
    BY <1>4 DEF CallSymbol
  <2> QED BY <2>1, WriteSymbolPlaced
<1>5. CASE CallSymbolFromString
  <2>1. PICK s \in Strings : w' = WriteSymbolFromString(w, s)
    BY <1>5 DEF CallSymbolFromString
  <2> QED BY <2>1, WriteResolvedPlaced DEF WriteSymbolFromString
<1>6. CASE CallBegin
  <2>1. PICK c \in Kinds : w' = Begin(w, c)
    BY <1>6 DEF CallBegin
  <2> QED BY <2>1, KindsAssumption, BeginPlaced
<1>7. CASE CallEnd
  <2>1. PICK c \in Kinds : w' = End(w, c)
    BY <1>7 DEF CallEnd
  <2> QED BY <2>1, EndPlaced
<1>8. CASE CallFinish
  <2>1. w' = Finish(w)
    BY <1>8 DEF CallFinish
  <2> QED BY <2>1, FinishPlaced DEF IInv
<1>9. CASE UNCHANGED vars
  BY <1>9 DEF vars
<1> QED BY <1>1, <1>2, <1>3, <1>4, <1>5, <1>6, <1>7, <1>8, <1>9 DEF Next

\* No version marker and no table ever gets into a buffer, whichever way the writer
\* was made, whatever was refused before and whatever Write fails (writeLST,
\* binarywriter.go:483): both are written out before the first byte of a value.
THEOREM TablesStandAtTop == Spec => []TableAtTopLevel
<1>1. Init => Placed(w)
  BY InitPlaced
<1>2. Placed(w) /\ IInv /\ [Next]_vars => Placed(w)'
  BY NextPlaced
<1>3. Placed(w) => TableAtTopLevel
  BY DEF Placed, AllPlain, Plain, TableAtTopLevel
<1> QED BY <1>1, <1>2, <1>3, Invariant, PTL DEF Spec

AreTokens(marks) == IsStack(marks) /\ \A i \in 1 .. Len(marks) : IsToken(marks[i])

\* What the annotations looked up so far came to.
FindsAll(given, t, x) ==
  /\ Grown(given, t, x.tbl) /\ IsStack(x.ids) /\ IsStack(x.texts) /\ Len(x.ids) = Len(x.texts)
  /\ x.err \in {"nil", "usage"}
  /\ x.err = "nil" => NamesAll(x.tbl, x.ids, x.texts)

\* With a name more.
OneName(x, r) ==
  [err |-> r.err, tbl |-> r.tbl, ids |-> Append(x.ids, r.id), texts |-> Append(x.texts, r.text)]

\* One annotation more, as long as none has failed.
LEMMA NextMarkIs ==
  ASSUME NEW v, NEW marks, NEW x, NEW i, x.err = "nil"
  PROVE  NextMark(v, marks, x, i) = OneName(x, ResolveMark([v EXCEPT !.tbl = x.tbl], marks[i]))
BY DEF NextMark, OneName

\* What was found stays found when one name more is.
LEMMA OneNameFinds ==
  ASSUME NEW given, NEW t, IsTableOf(given, t), NEW x, FindsAll(given, t, x), x.err = "nil",
         NEW r, Finds(given, x.tbl, r)
  PROVE  FindsAll(given, t, OneName(x, r))
<1> DEFINE y   == OneName(x, r)
           ids == Append(x.ids, r.id)
           ts  == Append(x.texts, r.text)
<1>1. y.err = r.err /\ y.tbl = r.tbl /\ y.ids = ids /\ y.texts = ts
  BY DEF OneName
<1>2. PICK n \in Nat : n = Len(x.ids) /\ n = Len(x.texts)
  BY StackLen DEF FindsAll
<1>3. /\ IsStack(ids) /\ Len(ids) = n + 1 /\ ids[n + 1] = r.id /\ (\A i \in 1 .. n : ids[i] = x.ids[i])
      /\ IsStack(ts) /\ Len(ts) = n + 1 /\ ts[n + 1] = r.text /\ (\A i \in 1 .. n : ts[i] = x.texts[i])
  BY <1>2, StackPushed DEF FindsAll
<1>4. Grown(given, t, x.tbl) /\ Grown(given, x.tbl, r.tbl)
  BY DEF FindsAll, Finds
<1>5. Grown(given, t, r.tbl) /\ Later(x.tbl, r.tbl)
  BY <1>4, GrownOn, GrownLater DEF Grown
<1> HIDE DEF y, ids, ts
<1>6. ASSUME r.err = "nil", NEW i \in 1 .. n + 1
      PROVE  Means(r.tbl, ids[i], ts[i])
  <2>1. CASE i = n + 1
    BY <1>3, <1>6, <2>1 DEF Finds
  <2>2. CASE i # n + 1
    <3>1. i \in 1 .. n
      BY <2>2
    <3>2. Means(x.tbl, x.ids[i], x.texts[i])
      BY <1>2, <3>1 DEF FindsAll, NamesAll
    <3> QED BY <1>3, <1>5, <3>1, <3>2, NamesLater
  <2> QED BY <2>1, <2>2
<1>7. r.err = "nil" => NamesAll(r.tbl, ids, ts)
  BY <1>3, <1>6 DEF NamesAll
<1>8. r.err \in {"nil", "usage"}
  BY DEF Finds
<1>9. FindsAll(given, t, y)
  BY <1>1, <1>3, <1>5, <1>7, <1>8 DEF FindsAll
<1> QED BY <1>9 DEF y

\* Nothing was looked up: nothing is missing.
LEMMA NoMarksFind ==
  ASSUME NEW v, IsTableOf(v.given, v.tbl)
  PROVE  FindsAll(v.given, v.tbl, NoMarks(v))
<1> DEFINE none == << >>
<1>1. IsStack(none) /\ Len(none) = 0
  BY Tuples
<1>2. NoMarks(v) = [err |-> "nil", ids |-> none, texts |-> none, tbl |-> v.tbl]
  BY DEF NoMarks
<1> HIDE DEF none
<1>3. NamesAll(v.tbl, none, none)
  BY <1>1 DEF NamesAll
<1>4. Grown(v.given, v.tbl, v.tbl)
  BY GrownItself
<1> QED BY <1>1, <1>2, <1>3, <1>4 DEF FindsAll

\* The annotations are looked up one by one.
LEMMA MarkingIs ==
  ASSUME NEW v, NEW marks, NEW n \in Nat, n = Len(marks)
  PROVE  \E f : Marking(f, v, marks, n) /\ ResolveMarks(v, marks) = f[n]
<1> DEFINE f == CHOOSE g : Marking(g, v, marks, n)
<1>1. Marking(f, v, marks, n)
  BY MarkingExists
<1>2. ResolveMarks(v, marks) = f[n]
  BY DEF ResolveMarks, Marking, NoMarks, NextMark
<1> HIDE DEF f
<1> QED BY <1>1, <1>2

\* All annotations that were looked up have their texts in the table that they left behind.
LEMMA ResolveMarksFinds ==
  ASSUME NEW v, DOMAIN v = Fields, IsTableOf(v.given, v.tbl), v.given \in BOOLEAN,
         NEW marks, AreTokens(marks)
  PROVE  FindsAll(v.given, v.tbl, ResolveMarks(v, marks))
<1>1. PICK n \in Nat : n = Len(marks)
  BY StackLen DEF AreTokens
<1>2. PICK f : Marking(f, v, marks, n) /\ ResolveMarks(v, marks) = f[n]
  BY <1>1, MarkingIs
<1> DEFINE S == {k \in 0 .. n : FindsAll(v.given, v.tbl, f[k])}
<1>3. 0 \in S
  <2>1. f[0] = NoMarks(v)
    BY <1>2 DEF Marking
  <2> QED BY <2>1, NoMarksFind
<1>4. ASSUME NEW k \in 1 .. n, k - 1 \in S
      PROVE  k \in S
  <2> DEFINE x == f[k - 1]
             u == [v EXCEPT !.tbl = x.tbl]
             r == ResolveMark(u, marks[k])
  <2>1. f[k] = NextMark(v, marks, x, k)
    BY <1>2 DEF Marking
  <2>2. FindsAll(v.given, v.tbl, x)
    BY <1>4
  <2>3. u.given = v.given /\ u.tbl = x.tbl
    BY DEF Fields
  <2>4. f[k] = IF x.err # "nil" THEN x ELSE OneName(x, r)
    <3>1. x.err = "nil" => NextMark(v, marks, x, k) = OneName(x, r)
      <4> HIDE DEF x
      <4> QED BY NextMarkIs
    <3>2. x.err # "nil" => NextMark(v, marks, x, k) = x
      BY DEF NextMark
    <3> QED BY <2>1, <3>1, <3>2
  <2>5. IsToken(marks[k])
    BY <1>1 DEF AreTokens
  <2> HIDE DEF x, u
  <2>6. IsTableOf(u.given, u.tbl)
    BY <2>2, <2>3 DEF FindsAll, Grown
  <2>7. Finds(v.given, x.tbl, r)
    <3>1. Finds(u.given, u.tbl, r)
      BY <2>3, <2>5, <2>6, ResolveMarkFinds
    <3> QED BY <2>3, <3>1
  <2> HIDE DEF r
  <2>8. FindsAll(v.given, v.tbl, f[k])
    <3>1. CASE x.err # "nil"
      BY <2>2, <2>4, <3>1
    <3>2. CASE x.err = "nil"
      BY <2>2, <2>4, <2>7, <3>2, OneNameFinds
    <3> QED BY <3>1, <3>2
  <2> QED BY <2>8
<1> HIDE DEF S
<1>5. n \in S
  <2>1. \A k \in 0 .. n : k \in S
    BY <1>3, <1>4, Induction
  <2> QED BY <2>1
<1> QED BY <1>2, <1>5 DEF S
-----------------------------------------------------------------------------
(***************************************************************************)
(* A table that has grown finds the same.                                  *)
(***************************************************************************)
Twin(v, u) == v.given \in BOOLEAN /\ u.given = v.given /\ (v.given => u.tbl = v.tbl)

Alike(r, s) == s.err = r.err /\ Seen(s) = Seen(r)

\* A text is seen as itself whatever its id is,
LEMMA TextsAlike ==
  ASSUME NEW t \in Text, NEW id, NEW tbl, NEW id2, NEW tbl2
  PROVE  Alike(Resolved("nil", id, t, tbl), Resolved("nil", id2, t, tbl2))
<1>1. t # NoText
  BY TextAssumption
<1> QED BY <1>1 DEF Alike, Resolved, Seen

\* and an id is seen as itself whatever the table is.
LEMMA IDsAlike ==
  ASSUME NEW err, NEW id, NEW tbl, NEW tbl2
  PROVE  Alike(Resolved(err, id, NoText, tbl), Resolved(err, id, NoText, tbl2))
BY DEF Alike, Resolved, Seen

\* A text is found, or missing, in the one table as in the other;
LEMMA ResolveFromTableAlike ==
  ASSUME NEW v, NEW u, Twin(v, u), NEW t \in Text
  PROVE  Alike(ResolveFromTable(v, t), ResolveFromTable(u, t))
<1>1. CASE v.given
  <2>1. ResolveFromTable(v, t) = ResolveFromTable(u, t)
    BY <1>1 DEF Twin, ResolveFromTable
  <2> QED BY <2>1 DEF Alike
<1>2. CASE ~v.given
  <2> DEFINE a == Add(v.tbl, t)
             b == Add(u.tbl, t)
  <2>1. ResolveFromTable(v, t) = Resolved("nil", a.id, t, a.tbl)
    BY <1>2 DEF ResolveFromTable
  <2>2. ResolveFromTable(u, t) = Resolved("nil", b.id, t, b.tbl)
    BY <1>2 DEF ResolveFromTable, Twin
  <2> HIDE DEF a, b
  <2> QED BY <2>1, <2>2, TextsAlike
<1> QED BY <1>1, <1>2

\* so is one that may be an id,
LEMMA ResolveAlike ==
  ASSUME NEW v, NEW u, Twin(v, u), NEW t \in Text
  PROVE  Alike(Resolve(v, t), Resolve(u, t))
<1>1. CASE SymbolIdentifier(t) # SymbolIDUnknown
  BY <1>1, IDsAlike DEF Resolve
<1>2. CASE ~(SymbolIdentifier(t) # SymbolIDUnknown)
  BY <1>2, ResolveFromTableAlike DEF Resolve
<1> QED BY <1>1, <1>2

\* the name of a field
LEMMA ResolveNameAlike ==
  ASSUME NEW v, NEW u, Twin(v, u), NEW name, IsToken(name)
  PROVE  Alike(ResolveName(v, name), ResolveName(u, name))
<1>1. CASE name.sid >= 0
  BY <1>1, IDsAlike DEF ResolveName
<1>2. CASE ~(name.sid >= 0) /\ name.text # NoText
  BY <1>2, ResolveAlike DEF ResolveName, IsToken
<1>3. CASE ~(name.sid >= 0) /\ name.text = NoText
  BY <1>3, IDsAlike DEF ResolveName
<1> QED BY <1>1, <1>2, <1>3

\* and an annotation.
LEMMA ResolveMarkAlike ==
  ASSUME NEW v, NEW u, Twin(v, u), NEW mark, IsToken(mark)
  PROVE  Alike(ResolveMark(v, mark), ResolveMark(u, mark))
<1>1. CASE mark.text # NoText
  BY <1>1, ResolveAlike DEF ResolveMark, IsToken
<1>2. CASE ~(mark.text # NoText) /\ mark.sid # SymbolIDUnknown
  BY <1>2, IDsAlike DEF ResolveMark
<1>3. CASE ~(mark.text # NoText) /\ ~(mark.sid # SymbolIDUnknown)
  BY <1>3, IDsAlike DEF ResolveMark
<1> QED BY <1>1, <1>2, <1>3
-----------------------------------------------------------------------------
(***************************************************************************)
(* What comes in front of a value, whatever the table has grown to.        *)
(***************************************************************************)
\* The annotations looked up so far, by two writers.
Level(given, x, y) ==
  /\ IsStack(x.ids) /\ IsStack(x.texts) /\ IsStack(y.ids) /\ IsStack(y.texts)
  /\ Len(x.texts) = Len(x.ids) /\ Len(y.ids) = Len(x.ids) /\ Len(y.texts) = Len(x.ids)
  /\ y.err = x.err
  /\ given => y.tbl = x.tbl
  /\ \A i \in 1 .. Len(x.ids) :
       Seen([id |-> y.ids[i], text |-> y.texts[i]]) = Seen([id |-> x.ids[i], text |-> x.texts[i]])

\* What is seen of a name are its id and its text.
LEMMA SeenIs ==
  ASSUME NEW r
  PROVE  Seen([id |-> r.id, text |-> r.text]) = Seen(r)
BY DEF Seen

\* With one name more on both sides both are seen alike.
LEMMA OneNameLevel ==
  ASSUME NEW given, NEW x, NEW y, Level(given, x, y), NEW r, NEW s, Alike(r, s),
         given => s.tbl = r.tbl
  PROVE  Level(given, OneName(x, r), OneName(y, s))
<1> DEFINE a == Append(x.ids, r.id)
           b == Append(x.texts, r.text)
           c == Append(y.ids, s.id)
           d == Append(y.texts, s.text)
<1>1. PICK n \in Nat : n = Len(x.ids)
  BY StackLen DEF Level
<1>2. /\ IsStack(a) /\ Len(a) = n + 1 /\ a[n + 1] = r.id /\ (\A i \in 1 .. n : a[i] = x.ids[i])
      /\ IsStack(b) /\ Len(b) = n + 1 /\ b[n + 1] = r.text /\ (\A i \in 1 .. n : b[i] = x.texts[i])
  BY <1>1, StackPushed DEF Level
<1>3. /\ IsStack(c) /\ Len(c) = n + 1 /\ c[n + 1] = s.id /\ (\A i \in 1 .. n : c[i] = y.ids[i])
      /\ IsStack(d) /\ Len(d) = n + 1 /\ d[n + 1] = s.text /\ (\A i \in 1 .. n : d[i] = y.texts[i])
  BY <1>1, StackPushed DEF Level
<1>4. /\ OneName(x, r) = [err |-> r.err, tbl |-> r.tbl, ids |-> a, texts |-> b]
      /\ OneName(y, s) = [err |-> s.err, tbl |-> s.tbl, ids |-> c, texts |-> d]
  BY DEF OneName
<1> HIDE DEF a, b, c, d
<1>5. ASSUME NEW i \in 1 .. n + 1
      PROVE  Seen([id |-> c[i], text |-> d[i]]) = Seen([id |-> a[i], text |-> b[i]])
  <2>1. CASE i = n + 1
    <3>1. Seen([id |-> s.id, text |-> s.text]) = Seen([id |-> r.id, text |-> r.text])
      BY SeenIs DEF Alike
    <3> QED BY <1>2, <1>3, <2>1, <3>1
  <2>2. CASE i # n + 1
    <3>1. i \in 1 .. n
      BY <2>2
    <3> QED BY <1>1, <1>2, <1>3, <3>1 DEF Level
  <2> QED BY <2>1, <2>2
<1> QED BY <1>2, <1>3, <1>4, <1>5 DEF Level, Alike

\* All annotations are seen alike, whatever the table has grown to.
LEMMA ResolveMarksAlike ==
  ASSUME NEW v, NEW u, Twin(v, u), DOMAIN v = Fields, DOMAIN u = Fields,
         NEW marks, AreTokens(marks)
  PROVE  Level(v.given, ResolveMarks(v, marks), ResolveMarks(u, marks))
<1>1. PICK n \in Nat : n = Len(marks)
  BY StackLen DEF AreTokens
<1>2. PICK f : Marking(f, v, marks, n) /\ ResolveMarks(v, marks) = f[n]
  BY <1>1, MarkingIs
<1>3. PICK g : Marking(g, u, marks, n) /\ ResolveMarks(u, marks) = g[n]
  BY <1>1, MarkingIs
<1> DEFINE S == {k \in 0 .. n : Level(v.given, f[k], g[k])}
<1>4. 0 \in S
  <2> DEFINE none == << >>
  <2>1. IsStack(none) /\ Len(none) = 0
    BY Tuples
  <2>2. /\ f[0] = [err |-> "nil", ids |-> none, texts |-> none, tbl |-> v.tbl]
        /\ g[0] = [err |-> "nil", ids |-> none, texts |-> none, tbl |-> u.tbl]
    BY <1>2, <1>3 DEF Marking, NoMarks
  <2> HIDE DEF none
  <2>3. Level(v.given, f[0], g[0])
    BY <2>1, <2>2 DEF Level, Twin
  <2> QED BY <2>3
<1>5. ASSUME NEW k \in 1 .. n, k - 1 \in S
      PROVE  k \in S
  <2> DEFINE x  == f[k - 1]
             y  == g[k - 1]
             v1 == [v EXCEPT !.tbl = x.tbl]
             u1 == [u EXCEPT !.tbl = y.tbl]
             r  == ResolveMark(v1, marks[k])
             s  == ResolveMark(u1, marks[k])
  <2>1. f[k] = NextMark(v, marks, x, k) /\ g[k] = NextMark(u, marks, y, k)
    BY <1>2, <1>3 DEF Marking
  <2>2. Level(v.given, x, y)
    BY <1>5
  <2>3. v1.given = v.given /\ v1.tbl = x.tbl /\ u1.given = u.given /\ u1.tbl = y.tbl
    BY DEF Fields
  <2>4. Twin(v1, u1)
    BY <2>2, <2>3 DEF Twin, Level
  <2>5. IsToken(marks[k])
    BY <1>1 DEF AreTokens
  <2>6. v.given => r.tbl = x.tbl /\ s.tbl = y.tbl
    <3>1. v.given => LookUp(v, x.tbl, marks[k]).tbl = x.tbl
      BY ResolveKeepsTable
    <3>2. v.given => u.given
      BY Zenon DEF Twin
    <3>3. u.given => LookUp(u, y.tbl, marks[k]).tbl = y.tbl
      BY ResolveKeepsTable
    <3> QED BY <3>1, <3>2, <3>3 DEF LookUp
  <2>7. /\ x.err = "nil" => NextMark(v, marks, x, k) = OneName(x, r)
        /\ y.err = "nil" => NextMark(u, marks, y, k) = OneName(y, s)
    <3> HIDE DEF x, y
    <3> QED BY NextMarkIs
  <2>8. /\ x.err # "nil" => NextMark(v, marks, x, k) = x
        /\ y.err # "nil" => NextMark(u, marks, y, k) = y
    BY DEF NextMark
  <2> HIDE DEF x, y, v1, u1
  <2>9. Alike(r, s)
    BY <2>4, <2>5, ResolveMarkAlike
  <2> HIDE DEF r, s
  <2>10. Level(v.given, f[k], g[k])
    <3>1. CASE x.err # "nil"
      <4>1. y.err # "nil"
        BY <2>2, <3>1 DEF Level
      <4> QED BY <2>1, <2>2, <2>8, <3>1, <4>1
    <3>2. CASE x.err = "nil"
      <4>1. y.err = "nil"
        BY <2>2, <3>2 DEF Level
      <4>2. v.given => s.tbl = r.tbl
        BY <2>2, <2>6 DEF Level
      <4>3. Level(v.given, OneName(x, r), OneName(y, s))
        BY <2>2, <2>9, <4>2, OneNameLevel
      <4> QED BY <2>1, <2>7, <3>2, <4>1, <4>3
    <3> QED BY <3>1, <3>2
  <2> QED BY <2>10
<1> HIDE DEF S
<1>6. n \in S
  <2>1. \A k \in 0 .. n : k \in S
    BY <1>4, <1>5, Induction
  <2> QED BY <2>1
<1> QED BY <1>2, <1>3, <1>6 DEF S

\* Annotations on a level give the same event.
LEMMA LevelSeen ==
  ASSUME NEW given, NEW x, NEW y, Level(given, x, y)
  PROVE  y.err = x.err /\ SeenMarks(y) = SeenMarks(x)
BY DEF Level, SeenMarks

\* A field name and annotations, as the reader will see them.
FieldOf(v, name) ==
  IF InStruct(v) THEN <<[e |-> "field", name |-> Seen(ResolveName(v, name))]>> ELSE << >>
MarksOf(v, marks) ==
  IF marks = << >> THEN << >>
  ELSE <<[e |-> "annotations", names |-> SeenMarks(ResolveMarks(v, marks))]>>
PrefixOf(v) == FieldOf(v, v.fieldName) \o MarksOf(v, v.annotations)

\* What a value is to be preceded by, in the model and here.
LEMMA PrefixIs == Prefix = PrefixOf(w)
BY DEF Prefix, PrefixOf, FieldOf, MarksOf

\* The prefix is a list of events.
LEMMA PrefixIsList ==
  ASSUME NEW v, NEW name, NEW marks
  PROVE  IsStack(FieldOf(v, name)) /\ IsStack(MarksOf(v, marks)) /\ IsStack(PrefixOf(v))
<1>1. \A x, m : IsStack(FieldOf(v, x)) /\ IsStack(MarksOf(v, m))
  BY Tuples DEF FieldOf, MarksOf
<1>2. IsStack(PrefixOf(v))
  BY <1>1, StackConcat DEF PrefixOf
<1> QED BY <1>1, <1>2

\* Two writers in the same context that differ in what their tables have grown to.
LEMMA PrefixAlike ==
  ASSUME NEW v, NEW u, Twin(v, u), DOMAIN v = Fields, DOMAIN u = Fields, u.ctx = v.ctx,
         NEW name, IsToken(name), NEW marks, AreTokens(marks)
  PROVE  FieldOf(u, name) = FieldOf(v, name) /\ MarksOf(u, marks) = MarksOf(v, marks)
<1>1. Seen(ResolveName(u, name)) = Seen(ResolveName(v, name))
  BY ResolveNameAlike DEF Alike
<1>2. SeenMarks(ResolveMarks(u, marks)) = SeenMarks(ResolveMarks(v, marks))
  BY ResolveMarksAlike, LevelSeen
<1>3. FieldOf(u, name) = FieldOf(v, name)
  BY <1>1 DEF FieldOf, InStruct
<1> QED BY <1>2, <1>3 DEF MarksOf
-----------------------------------------------------------------------------
(***************************************************************************)
(* What the buffers on the stack come to.                                  *)
(***************************************************************************)
\* The events with which a buffer begins: none for the datagram.
Front(code) == IF code = Datagram THEN << >> ELSE HeadOf(code)

\* A buffer that was begun after the events before makes them the events after.
Adds(t, b, way, before, after) ==
  /\ IsStack(before)
  /\ \E E : Reads(t, b.atoms, E, way) /\ after = (before \o Front(b.code)) \o E

\* The first n buffers, one begun in the other, which are all to go on.
Holding(t, bufs, evs, n) == \A k \in 1 .. n : Adds(t, bufs[k], "pending", evs[k - 1], evs[k])

Held(t, bufs, n, base, ev) ==
  IsStack(base) /\ \E evs : evs[0] = base /\ evs[n] = ev /\ Holding(t, bufs, evs, n)

\* What a buffer begins with is a list of events.
LEMMA FrontIsList ==
  ASSUME NEW code
  PROVE  IsStack(Front(code))
BY HeadIsList, Tuples DEF Front

\* A buffer only adds to the events,
LEMMA AddsList ==
  ASSUME NEW t, NEW b, NEW way, NEW before, NEW after, Adds(t, b, way, before, after)
  PROVE  IsStack(before) /\ IsStack(after) /\ Leads(before, after)
<1>1. PICK E : Reads(t, b.atoms, E, way) /\ after = (before \o Front(b.code)) \o E
  BY DEF Adds
<1> DEFINE h == Front(b.code)
<1>2. IsStack(before) /\ IsStack(h) /\ IsStack(E)
  BY <1>1, FrontIsList DEF Adds, Reads
<1> HIDE DEF h
<1>3. Assoc(before, h, E) /\ IsStack(h \o E)
  BY <1>2, Associates, StackConcat
<1>4. after = before \o (h \o E)
  BY <1>1, <1>3, Zenon DEF Assoc, h
<1>5. IsStack(before \o (h \o E))
  BY <1>2, <1>3, StackConcat
<1> QED BY <1>2, <1>3, <1>4, <1>5 DEF Leads

\* and it adds the same ones through a later table,
LEMMA AddsLater ==
  ASSUME NEW t, NEW u, Later(t, u), NEW b, NEW way, NEW before, NEW after, Adds(t, b, way, before, after)
  PROVE  Adds(u, b, way, before, after)
<1>1. PICK E : Reads(t, b.atoms, E, way) /\ after = (before \o Front(b.code)) \o E
  BY DEF Adds
<1>2. Reads(u, b.atoms, E, way)
  BY <1>1, ReadsLater
<1> QED BY <1>1, <1>2 DEF Adds

\* if more is to come as well.
LEMMA AddsPending ==
  ASSUME NEW t, NEW b, NEW way \in {"whole", "pending"}, NEW before, NEW after,
         Adds(t, b, way, before, after)
  PROVE  Adds(t, b, "pending", before, after)
<1>1. PICK E : Reads(t, b.atoms, E, way) /\ after = (before \o Front(b.code)) \o E
  BY DEF Adds
<1>2. Reads(t, b.atoms, E, "pending")
  BY <1>1, ReadsPending
<1> QED BY <1>1, <1>2 DEF Adds

\* No buffers add nothing.
LEMMA HeldNone ==
  ASSUME NEW t, NEW bufs, NEW base, NEW ev
  PROVE  /\ Held(t, bufs, 0, base, ev) => ev = base
         /\ IsStack(base) => Held(t, bufs, 0, base, base)
<1>1. IsStack(base) => Held(t, bufs, 0, base, base)
  <2> DEFINE evs == [k \in 0 .. 0 |-> base]
  <2>1. evs[0] = base /\ Holding(t, bufs, evs, 0)
    BY DEF Holding
  <2> HIDE DEF evs
  <2> QED BY <2>1 DEF Held
<1> QED BY <1>1 DEF Held

\* One buffer more adds to what the others came to,
LEMMA HeldMore ==
  ASSUME NEW t, NEW n \in Nat, NEW bufs, NEW c, \A k \in 1 .. n : c[k] = bufs[k],
         NEW base, NEW before, Held(t, bufs, n, base, before),
         NEW ev, Adds(t, c[n + 1], "pending", before, ev)
  PROVE  Held(t, c, n + 1, base, ev)
<1>1. PICK old : old[0] = base /\ old[n] = before /\ Holding(t, bufs, old, n)
  BY DEF Held
<1> DEFINE evs == [k \in 0 .. n + 1 |-> IF k = n + 1 THEN ev ELSE old[k]]
<1>2. /\ evs[n + 1] = ev
      /\ \A k \in 0 .. n : evs[k] = old[k]
  OBVIOUS
<1> HIDE DEF evs
<1>3. ASSUME NEW k \in 1 .. n + 1
      PROVE  Adds(t, c[k], "pending", evs[k - 1], evs[k])
  <2>1. CASE k = n + 1
    <3>1. k - 1 = n /\ n \in 0 .. n
      BY <2>1
    <3>2. evs[k - 1] = before
      BY <1>1, <1>2, <3>1
    <3> QED BY <1>2, <2>1, <3>2
  <2>2. CASE k # n + 1
    <3>1. k \in 1 .. n /\ k \in 0 .. n /\ k - 1 \in 0 .. n
      BY <2>2
    <3>2. Adds(t, bufs[k], "pending", old[k - 1], old[k])
      BY <1>1, <3>1 DEF Holding
    <3> QED BY <1>2, <3>1, <3>2
  <2> QED BY <2>1, <2>2
<1>4. evs[0] = base
  BY <1>1, <1>2
<1>5. Holding(t, c, evs, n + 1)
  BY <1>3 DEF Holding
<1> QED BY <1>2, <1>4, <1>5 DEF Held

\* and without it the others are what they were.
LEMMA HeldLess ==
  ASSUME NEW t, NEW n \in Nat, NEW bufs, NEW c, \A k \in 1 .. n : c[k] = bufs[k],
         NEW base, NEW ev, Held(t, bufs, n + 1, base, ev)
  PROVE  \E before : Held(t, c, n, base, before) /\ Adds(t, bufs[n + 1], "pending", before, ev)
<1>1. PICK evs : evs[0] = base /\ evs[n + 1] = ev /\ Holding(t, bufs, evs, n + 1)
  BY DEF Held
<1>2. ASSUME NEW k \in 1 .. n
      PROVE  Adds(t, c[k], "pending", evs[k - 1], evs[k])
  <2>1. k \in 1 .. n + 1
    OBVIOUS
  <2> QED BY <1>1, <2>1 DEF Holding
<1>3. Holding(t, c, evs, n)
  BY <1>2 DEF Holding
<1>4. Held(t, c, n, base, evs[n])
  BY <1>1, <1>3 DEF Held
<1>5. Adds(t, bufs[n + 1], "pending", evs[n], ev)
  <2>1. n + 1 \in 1 .. n + 1 /\ (n + 1) - 1 = n
    OBVIOUS
  <2>2. Adds(t, bufs[n + 1], "pending", evs[(n + 1) - 1], evs[n + 1])
    BY <1>1, <2>1 DEF Holding
  <2> QED BY <1>1, <2>1, <2>2
<1> QED BY <1>4, <1>5

\* The same buffers come to the same through a later table.
LEMMA HeldSame ==
  ASSUME NEW t, NEW u, Later(t, u), NEW n \in Nat, NEW bufs, NEW c, \A k \in 1 .. n : c[k] = bufs[k],
         NEW base, NEW ev, Held(t, bufs, n, base, ev)
  PROVE  Held(u, c, n, base, ev)
<1>1. PICK evs : evs[0] = base /\ evs[n] = ev /\ Holding(t, bufs, evs, n)
  BY DEF Held
<1>2. ASSUME NEW k \in 1 .. n
      PROVE  Adds(u, c[k], "pending", evs[k - 1], evs[k])
  BY <1>1, AddsLater DEF Holding
<1>3. Holding(u, c, evs, n)
  BY <1>2 DEF Holding
<1> QED BY <1>1, <1>3 DEF Held

\* All buffers together only add to the events.
LEMMA HeldLeads ==
  ASSUME NEW t, NEW n \in Nat, NEW bufs, NEW base, NEW ev, Held(t, bufs, n, base, ev)
  PROVE  IsStack(ev) /\ Leads(base, ev)
<1>1. PICK evs : evs[0] = base /\ evs[n] = ev /\ Holding(t, bufs, evs, n)
  BY DEF Held
<1> DEFINE S == {k \in 0 .. n : IsStack(evs[k]) /\ Leads(base, evs[k])}
<1>2. IsStack(base)
  BY DEF Held
<1>3. 0 \in S
  BY <1>1, <1>2, LeadsItself
<1>4. ASSUME NEW k \in 1 .. n, k - 1 \in S
      PROVE  k \in S
  <2>1. Adds(t, bufs[k], "pending", evs[k - 1], evs[k])
    BY <1>1 DEF Holding
  <2>2. IsStack(evs[k]) /\ Leads(evs[k - 1], evs[k])
    BY <2>1, AddsList
  <2>3. Leads(base, evs[k])
    BY <1>2, <1>4, <2>2, LeadsOn
  <2> QED BY <2>2, <2>3
<1>5. n \in S
  <2> HIDE DEF S
  <2>1. \A k \in 0 .. n : k \in S
    BY <1>3, <1>4, Induction
  <2> QED BY <2>1
<1> QED BY <1>1, <1>5
-----------------------------------------------------------------------------
(***************************************************************************)
(* What a reader makes of the output and of the buffers behind it.         *)
(***************************************************************************)
\* AllShipped of another writer than w.
Shipped(v, d) == v.given \/ MaxID(d.tbl) = MaxID(v.tbl)

\* The values are still collected: the datagram is at the bottom of the stack.
Collecting(v) == v.bufs # << >> /\ v.bufs[1].code = Datagram

\* A writer that was given a table has written it.
Ready(v) == v.given => v.wroteLST

\* The reader has no more ids than a writer who may add some.
Fits(v, d) == ~v.given => MaxID(d.tbl) \in 0 .. MaxID(v.tbl)

\* It has read the events, and knows the texts of the ids to come.
Meets(v, d, ev) == Shipped(v, d) => d = At(ev, d.tbl, << >>) /\ (Ready(v) => Later(v.tbl, d.tbl))

\* The events that are out, in front of those in the buffers.
Based(v, ev) ==
  /\ IsStack(ev) /\ IsOutput(v.out) /\ Fits(v, Decode(v.out))
  /\ IF Collecting(v) THEN v.out = << >> /\ ev = << >> ELSE Meets(v, Decode(v.out), ev)

\* Output and buffers come to the events; what is on top is whole, or its last
\* atoms are waiting for a value.
Live(v, ev, way) ==
  /\ IsStack(v.bufs)
  /\ IF v.bufs = << >> THEN Based(v, ev)
     ELSE \E base, before : /\ Based(v, base)
                            /\ Held(v.tbl, v.bufs, Len(v.bufs) - 1, base, before)
                            /\ Adds(v.tbl, Top(v.bufs), way, before, ev)

\* What is out reads as the beginning of the events.
Reached(d, ev) == d.ok /\ IsStack(d.events) /\ Leads(d.events, ev)
Begun(v, ev) ==
  /\ IsStack(ev) /\ Fits(v, Decode(Whole(v.out)))
  /\ Shipped(v, Decode(Whole(v.out))) => Reached(Decode(Whole(v.out)), ev)

Tabled(v) == v.given \in BOOLEAN /\ IsTableOf(v.given, v.tbl)

OnTable(v, u) == u.given = v.given /\ Grown(v.given, v.tbl, u.tbl)

\* A table that is grown on has all its ids.
LEMMA OnTableIs ==
  ASSUME NEW v, Tabled(v), NEW u, OnTable(v, u)
  PROVE  /\ Tabled(u) /\ Later(v.tbl, u.tbl)
         /\ MaxID(v.tbl) \in Nat /\ MaxID(u.tbl) \in Nat /\ MaxID(v.tbl) <= MaxID(u.tbl)
         /\ MaxID(u.tbl) = MaxID(v.tbl) => u.tbl = v.tbl
<1>1. IsTableOf(v.given, v.tbl) /\ Grown(v.given, v.tbl, u.tbl) /\ u.given = v.given
  BY DEF Tabled, OnTable
<1>2. /\ Later(v.tbl, u.tbl) /\ IsTableOf(v.given, u.tbl)
      /\ MaxID(v.tbl) \in Nat /\ MaxID(u.tbl) \in Nat /\ MaxID(v.tbl) <= MaxID(u.tbl)
      /\ MaxID(u.tbl) = MaxID(v.tbl) => u.tbl = v.tbl
  BY <1>1, GrownLater
<1>3. IsTableOf(u.given, u.tbl)
  BY <1>1, <1>2
<1> QED BY <1>1, <1>2, <1>3 DEF Tabled

\* A writer with the same table is on its table,
LEMMA OnTableItself ==
  ASSUME NEW v, Tabled(v), NEW u, u.given = v.given, u.tbl = v.tbl
  PROVE  OnTable(v, u)
BY GrownItself DEF Tabled, OnTable

\* and on the table of the one before.
LEMMA OnTableOn ==
  ASSUME NEW v, Tabled(v), NEW u, OnTable(v, u), NEW x, OnTable(u, x)
  PROVE  OnTable(v, x)
<1>1. IsTableOf(v.given, v.tbl) /\ Grown(v.given, v.tbl, u.tbl) /\ Grown(v.given, u.tbl, x.tbl)
  BY DEF Tabled, OnTable
<1>2. Grown(v.given, v.tbl, x.tbl)
  BY <1>1, GrownOn
<1> QED BY <1>2 DEF OnTable

\* A table that grows does not fit better.
LEMMA FitsStill ==
  ASSUME NEW v, Tabled(v), NEW u, OnTable(v, u), NEW d, Fits(v, d)
  PROVE  /\ Fits(u, d)
         /\ Shipped(u, d) => Shipped(v, d) /\ u.tbl = v.tbl
<1>1. /\ MaxID(v.tbl) \in Nat /\ MaxID(u.tbl) \in Nat /\ MaxID(v.tbl) <= MaxID(u.tbl)
      /\ MaxID(u.tbl) = MaxID(v.tbl) => u.tbl = v.tbl
  BY OnTableIs
<1>2. CASE v.given
  <2>1. u.given /\ u.tbl = v.tbl
    BY <1>2 DEF OnTable, Grown
  <2> QED BY <1>2, <2>1 DEF Fits, Shipped
<1>3. CASE ~v.given
  <2>1. ~u.given
    BY <1>3 DEF OnTable
  <2>2. MaxID(d.tbl) \in 0 .. MaxID(v.tbl)
    BY <1>3 DEF Fits
  <2>3. MaxID(d.tbl) \in 0 .. MaxID(u.tbl)
    BY <1>1, <2>2
  <2>4. MaxID(d.tbl) = MaxID(u.tbl) => MaxID(d.tbl) = MaxID(v.tbl) /\ u.tbl = v.tbl
    BY <1>1, <2>2
  <2> QED BY <2>1, <2>3, <2>4 DEF Fits, Shipped
<1> QED BY <1>2, <1>3

\* The output is the same base for a writer whose table has grown.
LEMMA BasedStays ==
  ASSUME NEW v, Tabled(v), NEW u, OnTable(v, u), u.out = v.out, Ready(u) => Ready(v),
         Collecting(u) <=> Collecting(v), NEW ev, Based(v, ev)
  PROVE  Based(u, ev)
<1> DEFINE d == Decode(v.out)
<1>1. /\ IsStack(ev) /\ IsOutput(v.out) /\ Fits(v, d)
      /\ IF Collecting(v) THEN v.out = << >> /\ ev = << >> ELSE Meets(v, d, ev)
  BY DEF Based
<1> HIDE DEF d
<1>2. Fits(u, d) /\ (Shipped(u, d) => Shipped(v, d) /\ u.tbl = v.tbl)
  BY <1>1, FitsStill
<1>3. Meets(v, d, ev) => Meets(u, d, ev)
  BY <1>2 DEF Meets
<1>4. IF Collecting(u) THEN u.out = << >> /\ ev = << >> ELSE Meets(u, d, ev)
  BY <1>1, <1>3
<1> QED BY <1>1, <1>2, <1>4 DEF Based, d

\* So output and buffers come to the same events.
LEMMA LiveStays ==
  ASSUME NEW v, Tabled(v), NEW u, OnTable(v, u), u.out = v.out, Ready(u) => Ready(v),
         u.bufs = v.bufs, NEW ev, NEW way, Live(v, ev, way)
  PROVE  Live(u, ev, way)
<1>1. Collecting(u) <=> Collecting(v)
  BY DEF Collecting
<1>2. \A e : Based(v, e) => Based(u, e)
  BY <1>1, BasedStays
<1>3. Later(v.tbl, u.tbl)
  BY OnTableIs
<1>4. CASE v.bufs = << >>
  BY <1>2, <1>4 DEF Live
<1>5. CASE v.bufs # << >>
  <2>1. PICK base, before : /\ Based(v, base)
                            /\ Held(v.tbl, v.bufs, Len(v.bufs) - 1, base, before)
                            /\ Adds(v.tbl, Top(v.bufs), way, before, ev)
    BY <1>5 DEF Live
  <2>2. PICK n \in Nat : n = Len(v.bufs) - 1
    <3>1. Len(v.bufs) \in Nat /\ Len(v.bufs) > 0
      BY <1>5, StackLen DEF Live
    <3> QED BY <3>1
  <2>3. Held(u.tbl, v.bufs, n, base, before)
    BY <1>3, <2>1, <2>2, HeldSame
  <2>4. Adds(u.tbl, Top(v.bufs), way, before, ev)
    BY <1>3, <2>1, AddsLater
  <2> QED BY <1>2, <1>5, <2>1, <2>2, <2>3, <2>4 DEF Live
<1> QED BY <1>4, <1>5

\* What is whole may go on.
LEMMA LivePending ==
  ASSUME NEW v, NEW ev, NEW way \in {"whole", "pending"}, Live(v, ev, way)
  PROVE  Live(v, ev, "pending")
<1>1. CASE v.bufs = << >>
  BY <1>1 DEF Live
<1>2. CASE v.bufs # << >>
  <2>1. PICK base, before : /\ Based(v, base)
                            /\ Held(v.tbl, v.bufs, Len(v.bufs) - 1, base, before)
                            /\ Adds(v.tbl, Top(v.bufs), way, before, ev)
    BY <1>2 DEF Live
  <2>2. Adds(v.tbl, Top(v.bufs), "pending", before, ev)
    BY <2>1, AddsPending
  <2> QED BY <1>2, <2>1, <2>2 DEF Live
<1> QED BY <1>1, <1>2

\* What lies on the stack goes on from what is out.
LEMMA LiveLeads ==
  ASSUME NEW v, NEW ev, NEW way, Live(v, ev, way)
  PROVE  IsStack(ev) /\ \E base : Based(v, base) /\ IsStack(base) /\ Leads(base, ev)
<1>1. CASE v.bufs = << >>
  <2>1. Based(v, ev) /\ IsStack(ev)
    BY <1>1 DEF Live, Based
  <2> QED BY <2>1, LeadsItself
<1>2. CASE v.bufs # << >>
  <2>1. PICK base, before : /\ Based(v, base)
                            /\ Held(v.tbl, v.bufs, Len(v.bufs) - 1, base, before)
                            /\ Adds(v.tbl, Top(v.bufs), way, before, ev)
    BY <1>2 DEF Live
  <2>2. PICK n \in Nat : n = Len(v.bufs) - 1
    <3>1. Len(v.bufs) \in Nat /\ Len(v.bufs) > 0
      BY <1>2, StackLen DEF Live
    <3> QED BY <3>1
  <2>3. IsStack(before) /\ Leads(base, before)
    BY <2>1, <2>2, HeldLeads
  <2>4. IsStack(ev) /\ Leads(before, ev)
    BY <2>1, AddsList
  <2>5. IsStack(base)
    BY <2>1 DEF Based
  <2>6. Leads(base, ev)
    BY <2>3, <2>4, <2>5, LeadsOn
  <2> QED BY <2>1, <2>4, <2>5, <2>6
<1> QED BY <1>1, <1>2

\* When all of the events can be read so can their beginning.
LEMMA LiveBegun ==
  ASSUME NEW v, NEW ev, NEW way, Live(v, ev, way)
  PROVE  Begun(v, ev) /\ IsStack(ev)
<1>1. PICK base : Based(v, base) /\ IsStack(base) /\ Leads(base, ev) /\ IsStack(ev)
  BY LiveLeads
<1> DEFINE d == Decode(v.out)
<1>2. Whole(v.out) = v.out
  BY <1>1, WholeOutput DEF Based
<1>3. CASE Collecting(v)
  <2>1. v.out = << >>
    BY <1>1, <1>3 DEF Based
  <2>2. d = Start
    BY <2>1, DecodeNothing
  <2>3. d.ok /\ d.events = << >>
    BY <2>2 DEF Start
  <2>4. Reached(d, ev)
    BY <1>1, <2>3, Tuples, LeadsItself DEF Reached
  <2> QED BY <1>1, <1>2, <2>4 DEF Begun, Based
<1>4. CASE ~Collecting(v)
  <2>1. Fits(v, d) /\ Meets(v, d, base)
    BY <1>1, <1>4 DEF Based
  <2> HIDE DEF d
  <2>2. Shipped(v, d) => Reached(d, ev)
    <3>1. SUFFICES ASSUME Shipped(v, d) PROVE Reached(d, ev)
      OBVIOUS
    <3>2. d = At(base, d.tbl, << >>)
      BY <2>1, <3>1 DEF Meets
    <3>3. d.ok /\ d.events = base
      BY <3>2, EventsOf
    <3> QED BY <1>1, <3>3 DEF Reached
  <2> QED BY <1>1, <1>2, <2>1, <2>2 DEF Begun, d
<1> QED BY <1>3, <1>4

\* The beginning that is out stays one when the table grows,
LEMMA BegunStays ==
  ASSUME NEW v, Tabled(v), NEW u, OnTable(v, u), u.out = v.out, NEW ev, Begun(v, ev)
  PROVE  Begun(u, ev)
<1> DEFINE d == Decode(Whole(v.out))
<1>1. IsStack(ev) /\ Fits(v, d) /\ (Shipped(v, d) => Reached(d, ev))
  BY DEF Begun
<1> HIDE DEF d
<1>2. Fits(u, d) /\ (Shipped(u, d) => Shipped(v, d))
  BY <1>1, FitsStill
<1> QED BY <1>1, <1>2 DEF Begun, d

\* and when more is said.
LEMMA BegunLonger ==
  ASSUME NEW v, NEW ev, Begun(v, ev), NEW more, IsStack(more)
  PROVE  Begun(v, ev \o more)
<1> DEFINE d == Decode(Whole(v.out))
<1>1. IsStack(ev) /\ Fits(v, d) /\ (Shipped(v, d) => Reached(d, ev))
  BY DEF Begun
<1> HIDE DEF d
<1>2. Reached(d, ev) => Reached(d, ev \o more)
  BY <1>1, LeadsBehind DEF Reached
<1>3. IsStack(ev \o more)
  BY <1>1, StackConcat
<1> QED BY <1>1, <1>2, <1>3 DEF Begun, d
-----------------------------------------------------------------------------
(***************************************************************************)
(* Emitting, pushing and popping.                                          *)
(***************************************************************************)
\* Atoms of a value, some bytes that read as events.
Value(t, A, E, way) == Plain(A) /\ SizeOf(A) > 0 /\ Reads(t, A, E, way)

\* Values are output without a table.
LEMMA PlainOutput ==
  ASSUME NEW A, Plain(A)
  PROVE  IsOutput(A) /\ \A i \in 1 .. Len(A) : A[i].k \in PlainKinds
BY DEF Plain, IsOutput, PlainKinds

\* After a call of an operator that may emit, whatever the outcome.
Emitted(v, u) ==
  /\ DOMAIN u = Fields /\ u.given = v.given /\ u.tbl = v.tbl /\ u.wroteLST = v.wroteLST
  /\ u.ctx = v.ctx /\ u.fieldName = v.fieldName /\ u.annotations = v.annotations

\* Either all went well or what is out is still the beginning.
Comes(u, ev, way) ==
  IF u.ret = "nil" THEN Live(u, ev, way) ELSE Begun(u, ev)

\* An emit leaves the rest of the writer alone.
LEMMA EmitEmitted ==
  ASSUME NEW v, DOMAIN v = Fields, NEW A, NEW len
  PROVE  Emitted(v, Emit(v, A, len))
<1>1. Emitted(v, EmitTo(v, A))
  BY DEF Emitted, EmitTo, Fields
<1>2. CASE v.bufs = << >>
  BY <1>1, <1>2 DEF Emit
<1>3. CASE v.bufs # << >>
  <2> DEFINE top == Top(v.bufs)
             b   == [code |-> top.code, len |-> top.len + len, atoms |-> top.atoms \o A]
             s   == [v.bufs EXCEPT ![Len(v.bufs)] = b]
             u   == [v EXCEPT !.bufs = s, !.ret = "nil"]
  <2>1. Emit(v, A, len) = u
    BY <1>3 DEF Emit
  <2> HIDE DEF s
  <2>2. Emitted(v, u)
    BY DEF Emitted, Fields
  <2> QED BY <2>1, <2>2
<1> QED BY <1>2, <1>3

\* The reader that is where it should be reads on.
LEMMA ReaderGoesOn ==
  ASSUME NEW v, NEW ev, Based(v, ev), ~Collecting(v), Ready(v), NEW A, NEW E, NEW way,
         Value(v.tbl, A, E, way), NEW d, d = Decode(v.out), Shipped(v, d)
  PROVE  Walk(d, A) = At(ev \o E, d.tbl, << >>) /\ IsStack(ev \o E)
<1> DEFINE none == << >>
           t    == d.tbl
<1>1. IsStack(ev) /\ d = At(ev, t, none) /\ Later(v.tbl, t)
  BY DEF Based, Meets
<1>2. none \in Seq(Extents) /\ Spend(none, SizeOf(A)) = none /\ MayRead(way, none, SizeOf(A))
  BY NoExtents DEF MayRead
<1>3. IsStack(E) /\ Reads(v.tbl, A, E, way)
  BY DEF Value, Reads
<1>4. IsStack(ev \o E)
  BY <1>1, <1>3, StackConcat
<1>5. Close(At(ev \o E, t, none)) = At(ev \o E, t, none)
  BY <1>4, CloseAtTop
<1> HIDE DEF none, t
<1>6. Walk(At(ev, t, none), A) = Close(At(ev \o E, t, Spend(none, SizeOf(A))))
  BY <1>1, <1>2, <1>3, ReadsIs
<1> QED BY <1>1, <1>2, <1>4, <1>5, <1>6 DEF none, t

\* A value that is written out goes on with the events, or a part of it does.
LEMMA EmitOutLive ==
  ASSUME NEW v, DOMAIN v = Fields, NEW ev, Based(v, ev), v.bufs = << >>, Ready(v),
         NEW A, NEW E, NEW way, Value(v.tbl, A, E, way),
         NEW u, u = EmitTo(v, A), Emitted(v, u), u.bufs = v.bufs
  PROVE  Comes(u, ev \o E, "whole")
<1> DEFINE d == Decode(v.out)
           F == ev \o E
<1>1. /\ ~Collecting(v) /\ ~Collecting(u) /\ IsOutput(v.out) /\ IsStack(ev) /\ IsStack(E)
      /\ Fits(v, d) /\ IsReader(d)
  BY DecodeReads DEF Collecting, Based, Value, Reads
<1>2. IsOutput(A) /\ \A i \in 1 .. Len(A) : A[i].k \in PlainKinds
  BY PlainOutput DEF Value
<1>3. Shipped(v, d) => Walk(d, A) = At(F, d.tbl, << >>) /\ (Later(v.tbl, d.tbl) \/ ~Ready(v))
  BY <1>1, ReaderGoesOn DEF Based, Meets
<1>4. IsStack(F)
  BY <1>1, StackConcat
<1>5. /\ \A e : Fits(u, e) <=> Fits(v, e)
      /\ \A e : Shipped(u, e) <=> Shipped(v, e)
      /\ Ready(u) <=> Ready(v)
      /\ u.tbl = v.tbl
  BY DEF Emitted, Fits, Shipped, Ready
<1> HIDE DEF d, F
<1>6. ASSUME u.ret = "nil", u.out = v.out \o A
      PROVE  Comes(u, F, "whole")
  <2> DEFINE x == Decode(u.out)
  <2>1. IsOutput(u.out) /\ x = Walk(d, A)
    BY <1>1, <1>2, <1>6, DecodeReads, OutputConcat DEF d
  <2>2. x.tbl = d.tbl
    <3>1. IsAtoms(A)
      BY <1>2 DEF IsAtoms, IsOutput
    <3> QED BY <1>1, <1>2, <2>1, <3>1, WalkReadsOn
  <2>3. Fits(u, x) /\ (Shipped(u, x) => Shipped(v, d))
    BY <1>1, <1>5, <2>2 DEF Fits, Shipped
  <2> HIDE DEF x
  <2>4. Meets(u, x, F)
    BY <1>3, <1>5, <2>1, <2>2, <2>3 DEF Meets
  <2>5. Based(u, F)
    BY <1>1, <1>4, <2>1, <2>3, <2>4 DEF Based, x
  <2>6. IsStack(u.bufs) /\ u.bufs = << >>
    BY Tuples
  <2>7. Live(u, F, "whole")
    BY <2>5, <2>6, Zenon DEF Live
  <2> QED BY <1>6, <2>7, Zenon DEF Comes
<1>7. ASSUME NEW p, NEW r, IsOutput(p), IsOutput(r), A = p \o r, BrokenOff(v, u, p)
      PROVE  Comes(u, F, "whole")
  <2> DEFINE x == Decode(v.out \o p)
  <2>1. u.ret = "io" /\ Whole(u.out) = v.out \o p
    BY <1>7 DEF BrokenOff
  <2>2. x = Walk(d, p)
    BY <1>1, <1>7, DecodeReads DEF d
  <2>3. \A i \in 1 .. Len(p) : p[i].k \in PlainKinds
    <3>1. IsStack(p) /\ IsStack(r)
      BY <1>7 DEF IsOutput
    <3>2. /\ Len(p) \in Nat /\ Len(r) \in Nat /\ Len(A) = Len(p) + Len(r)
          /\ \A i \in 1 .. Len(p) + Len(r) : A[i] = IF i <= Len(p) THEN p[i] ELSE r[i - Len(p)]
      BY <1>7, <3>1, StackConcat, StackLen
    <3>3. ASSUME NEW i \in 1 .. Len(p)
          PROVE  p[i].k \in PlainKinds
      <4>1. i \in 1 .. Len(p) + Len(r) /\ i \in 1 .. Len(A) /\ i <= Len(p)
        BY <3>2
      <4>2. A[i] = p[i]
        BY <3>2, <4>1
      <4> QED BY <1>2, <4>1, <4>2
    <3> QED BY <3>3
  <2>4. IsAtoms(p) /\ IsAtoms(r) /\ IsStack(p) /\ IsStack(r)
    BY <1>7 DEF IsAtoms, IsOutput
  <2>5. IsReader(x) /\ x.tbl = d.tbl
    <3>1. ReadsOn(d, x) /\ x.tbl = d.tbl
      BY <1>1, <2>2, <2>3, <2>4, WalkReadsOn
    <3> QED BY <3>1 DEF ReadsOn
  <2>6. Walk(d, A) = Walk(x, r)
    BY <1>7, <2>2, <2>4, WalkConcat
  <2>7. ReadsOn(x, Walk(d, A))
    BY <2>4, <2>5, <2>6, WalkReadsOn
  <2> HIDE DEF x
  <2>8. Fits(u, x) /\ (Shipped(u, x) => Shipped(v, d))
    BY <1>1, <1>5, <2>5 DEF Fits, Shipped
  <2>9. Shipped(v, d) => Reached(x, F)
    <3>1. SUFFICES ASSUME Shipped(v, d) PROVE Reached(x, F)
      OBVIOUS
    <3>2. Walk(d, A) = At(F, d.tbl, << >>)
      BY <1>3, <3>1
    <3>3. Walk(d, A).events = F /\ Walk(d, A).ok
      BY <3>2, EventsOf
    <3> QED BY <2>5, <2>7, <3>3 DEF Reached, ReadsOn, IsReader
  <2>10. Begun(u, F)
    BY <1>4, <2>1, <2>8, <2>9 DEF Begun, x
  <2> QED BY <2>1, <2>10 DEF Comes
<1>8. \/ u.ret = "nil" /\ u.out = v.out \o A
      \/ \E p, r : IsOutput(p) /\ IsOutput(r) /\ A = p \o r /\ BrokenOff(v, u, p)
  BY <1>1, <1>2, EmitToIs
<1>9. Comes(u, F, "whole")
  BY <1>6, <1>7, <1>8
<1> QED BY <1>9 DEF F

\* A stack that is not empty has a top on a stack.
LEMMA TopOf ==
  ASSUME NEW s, IsStack(s), s # << >>
  PROVE  \E n \in Nat : /\ Len(s) = n + 1 /\ Top(s) = s[n + 1]
                        /\ IsStack(Pop(s)) /\ Len(Pop(s)) = n /\ (Pop(s) = << >> <=> n = 0)
                        /\ \A i \in 1 .. n : Pop(s)[i] = s[i]
                        /\ \A b : /\ Len([s EXCEPT ![Len(s)] = b]) = n + 1
                                  /\ [s EXCEPT ![Len(s)] = b][n + 1] = b
                                  /\ \A i \in 1 .. n : [s EXCEPT ![Len(s)] = b][i] = s[i]
<1>1. Len(s) \in Nat /\ Len(s) > 0
  BY StackLen
<1>2. PICK n \in Nat : Len(s) = n + 1
  BY <1>1
<1>3. PICK S : s \in Seq(S)
  BY DEF IsStack
<1> DEFINE p == SubSeq(s, 1, n)
<1>4. \A i \in 1 .. n : s[i] \in S
  BY <1>2, <1>3, ElementOfSeq
<1>5. p \in Seq(S) /\ Len(p) = n /\ \A i \in 1 .. n : p[i] = s[i]
  BY <1>4, StackPrefix
<1>6. Pop(s) = p
  <2>1. (n + 1) - 1 = n
    OBVIOUS
  <2> QED BY <1>2, <2>1 DEF Pop
<1> HIDE DEF p
<1>7. IsStack(Pop(s))
  BY <1>5, <1>6 DEF IsStack
<1>8. Pop(s) = << >> <=> n = 0
  BY <1>5, <1>6, <1>7, StackLen
<1>9. ASSUME NEW b
      PROVE  /\ Len([s EXCEPT ![Len(s)] = b]) = n + 1
             /\ [s EXCEPT ![Len(s)] = b][n + 1] = b
             /\ \A i \in 1 .. n : [s EXCEPT ![Len(s)] = b][i] = s[i]
  BY <1>2, <1>3
<1>10. Top(s) = s[n + 1]
  BY <1>2 DEF Top
<1> QED BY <1>2, <1>5, <1>6, <1>7, <1>8, <1>9, <1>10

\* The contents of a live stack of buffers.
LEMMA LiveStack ==
  ASSUME NEW v, NEW ev, NEW way, Live(v, ev, way), v.bufs # << >>
  PROVE  \E n, base, before :
           /\ n \in Nat /\ IsStack(v.bufs) /\ Len(v.bufs) = n + 1 /\ Based(v, base)
           /\ Held(v.tbl, v.bufs, n, base, before) /\ Adds(v.tbl, Top(v.bufs), way, before, ev)
<1>1. PICK base, before : /\ Based(v, base)
                          /\ Held(v.tbl, v.bufs, Len(v.bufs) - 1, base, before)
                          /\ Adds(v.tbl, Top(v.bufs), way, before, ev)
  BY DEF Live
<1>2. PICK n \in Nat : Len(v.bufs) = n + 1
  BY TopOf DEF Live
<1>3. Len(v.bufs) - 1 = n
  BY <1>2
<1> QED BY <1>1, <1>2, <1>3 DEF Live

\* A buffer on top adds to what the buffers below came to.
LEMMA StackLive ==
  ASSUME NEW v, IsStack(v.bufs), NEW n \in Nat, Len(v.bufs) = n + 1, NEW base, Based(v, base),
         NEW before, Held(v.tbl, v.bufs, n, base, before),
         NEW ev, NEW way, Adds(v.tbl, Top(v.bufs), way, before, ev)
  PROVE  Live(v, ev, way)
<1>1. Len(v.bufs) - 1 = n
  OBVIOUS
<1>2. v.bufs # << >>
  BY StackLen
<1>3. Held(v.tbl, v.bufs, Len(v.bufs) - 1, base, before)
  BY <1>1
<1> QED BY <1>2, <1>3 DEF Live

\* The base depends on the output and the table.
LEMMA BasedSame ==
  ASSUME NEW v, NEW u, u.given = v.given, u.tbl = v.tbl, u.out = v.out, u.wroteLST = v.wroteLST,
         Collecting(u) <=> Collecting(v), NEW ev, Based(v, ev)
  PROVE  Based(u, ev)
BY DEF Based, Fits, Meets, Shipped, Ready

\* Atoms go behind those of the buffer on top.
LEMMA AddsMore ==
  ASSUME NEW t, NEW b, NEW wayB, NEW before, NEW after, Adds(t, b, wayB, before, after),
         NEW A, NEW E, NEW way, Value(t, A, E, way),
         NEW c, c.code = b.code, c.atoms = b.atoms \o A
  PROVE  Adds(t, c, way, before, after \o E)
<1>1. PICK F : Reads(t, b.atoms, F, wayB) /\ after = (before \o Front(b.code)) \o F
  BY DEF Adds
<1>2. Reads(t, A, E, way) /\ SizeOf(A) > 0
  BY DEF Value
<1>3. Reads(t, b.atoms \o A, F \o E, way)
  BY <1>1, <1>2, ReadsConcat
<1> DEFINE h == before \o Front(b.code)
<1>4. IsStack(h) /\ IsStack(F) /\ IsStack(E)
  BY <1>1, <1>2, FrontIsList, StackConcat DEF Adds, Reads
<1> HIDE DEF h
<1>5. Assoc(h, F, E)
  BY <1>4, Associates
<1>6. after \o E = h \o (F \o E)
  BY <1>1, <1>5, Zenon DEF Assoc, h
<1>7. after \o E = (before \o Front(c.code)) \o (F \o E)
  BY <1>6 DEF h
<1>8. Reads(t, c.atoms, F \o E, way)
  BY <1>3
<1> QED BY <1>7, <1>8 DEF Adds

\* A value that is emitted, to a buffer or out, adds its events.
LEMMA EmitLive ==
  ASSUME NEW v, DOMAIN v = Fields, NEW ev, NEW wayV, Live(v, ev, wayV), v.bufs = << >> => Ready(v),
         NEW A, NEW E, NEW way, Value(v.tbl, A, E, way), NEW len, NEW u, u = Emit(v, A, len)
  PROVE  Comes(u, ev \o E, way)
<1>1. Emitted(v, u)
  BY EmitEmitted
<1>2. CASE v.bufs = << >>
  <2> DEFINE F == ev \o E
  <2>1. u = EmitTo(v, A)
    BY <1>2 DEF Emit
  <2>2. u.bufs = v.bufs
    BY <2>1 DEF EmitTo, Fields
  <2>3. Based(v, ev)
    BY <1>2 DEF Live
  <2>4. Comes(u, F, "whole")
    BY <1>1, <1>2, <2>1, <2>2, <2>3, EmitOutLive
  <2>5. Live(u, F, "whole") => Live(u, F, way)
    BY <1>2, <2>2 DEF Live
  <2> HIDE DEF F
  <2>6. Comes(u, F, way)
    BY <2>4, <2>5 DEF Comes
  <2> QED BY <2>6 DEF F
<1>3. CASE v.bufs # << >>
  <2> DEFINE s   == v.bufs
             top == Top(s)
             b   == [code |-> top.code, len |-> top.len + len, atoms |-> top.atoms \o A]
             c   == [s EXCEPT ![Len(s)] = b]
  <2>1. PICK n, base, before :
           /\ n \in Nat /\ IsStack(s) /\ Len(s) = n + 1 /\ Based(v, base)
           /\ Held(v.tbl, s, n, base, before) /\ Adds(v.tbl, top, wayV, before, ev)
    BY <1>3, LiveStack
  <2>2. u = [v EXCEPT !.bufs = c, !.ret = "nil"]
    BY <1>3 DEF Emit
  <2>3. b.code = top.code /\ b.atoms = top.atoms \o A
    OBVIOUS
  <2> HIDE DEF b
  <2>4. /\ IsStack(c) /\ Len(c) = n + 1 /\ c[n + 1] = b /\ Top(s) = s[n + 1]
        /\ \A i \in 1 .. n : c[i] = s[i]
    <3>1. IsStack(c)
      BY <1>3, <2>1, TopReplaced
    <3>2. /\ Len(c) = n + 1 /\ c[n + 1] = b /\ Top(s) = s[n + 1]
          /\ \A i \in 1 .. n : c[i] = s[i]
      BY <1>3, <2>1, TopOf
    <3> QED BY <3>1, <3>2
  <2> HIDE DEF c
  <2>5. u.bufs = c /\ u.ret = "nil" /\ u.out = v.out
    BY <2>2 DEF Fields
  <2>6. Adds(v.tbl, b, way, before, ev \o E)
    BY <2>1, <2>3, AddsMore
  <2>7. Top(u.bufs) = b
    BY <2>4, <2>5 DEF Top
  <2>8. Held(v.tbl, c, n, base, before)
    BY <2>1, <2>4, HeldSame, LaterItself
  <2>9. Collecting(u) <=> Collecting(v)
    <3>1. c # << >>
      BY <2>1, <2>4, StackLen
    <3>2. c[1].code = s[1].code
      <4>1. CASE n = 0
        BY <2>3, <2>4, <4>1
      <4>2. CASE n # 0
        <5>1. 1 \in 1 .. n
          BY <2>1, <4>2
        <5> QED BY <2>4, <5>1
      <4> QED BY <4>1, <4>2
    <3> QED BY <1>3, <2>5, <3>1, <3>2 DEF Collecting
  <2>10. Based(u, base)
    BY <1>1, <2>1, <2>5, <2>9, BasedSame DEF Emitted
  <2> DEFINE F == ev \o E
  <2> HIDE DEF top, s, F
  <2>11. u.tbl = v.tbl
    BY <1>1 DEF Emitted
  <2>12. /\ IsStack(u.bufs) /\ Len(u.bufs) = n + 1 /\ Held(u.tbl, u.bufs, n, base, before)
         /\ Adds(u.tbl, Top(u.bufs), way, before, F)
    BY <2>4, <2>5, <2>6, <2>7, <2>8, <2>11 DEF F
  <2>13. Live(u, F, way)
    BY <2>1, <2>10, <2>12, StackLive
  <2>14. Comes(u, F, way)
    BY <2>5, <2>13 DEF Comes
  <2> QED BY <2>14 DEF F
<1> QED BY <1>2, <1>3

\* A new buffer begins its container.
LEMMA PushLive ==
  ASSUME NEW v, NEW ev, NEW wayV \in {"whole", "pending"}, Live(v, ev, wayV),
         NEW code, code # Datagram, NEW u, u.bufs = Append(v.bufs, Buffer(code)),
         u.given = v.given, u.tbl = v.tbl, u.out = v.out, u.wroteLST = v.wroteLST, NEW way
  PROVE  Live(u, ev \o HeadOf(code), way)
<1> DEFINE s == v.bufs
           b == Buffer(code)
           c == Append(s, b)
           F == ev \o HeadOf(code)
<1>9. u.bufs = c
  OBVIOUS
<1>1. PICK m \in Nat : /\ m = Len(s) /\ IsStack(c) /\ Len(c) = m + 1 /\ c[m + 1] = b
                       /\ \A i \in 1 .. m : c[i] = s[i]
  BY StackPushed, StackLen DEF Live
<1>2. b.code = code /\ b.atoms = << >>
  BY DEF Buffer
<1> HIDE DEF b
<1>3. Live(v, ev, "pending") /\ IsStack(ev)
  BY LivePending, LiveLeads
<1>4. Adds(v.tbl, b, way, ev, F)
  <2> DEFINE none == << >>
             h    == HeadOf(code)
  <2>1. Front(b.code) = h
    BY <1>2 DEF Front
  <2>2. Reads(v.tbl, b.atoms, none, way)
    BY <1>2, ReadsNothing
  <2>3. IsStack(ev \o h)
    BY <1>3, HeadIsList, StackConcat
  <2>4. (ev \o h) \o none = ev \o h
    BY <2>3, ConcatNothing
  <2> HIDE DEF none, h
  <2>5. F = (ev \o Front(b.code)) \o none
    BY <2>1, <2>4 DEF h
  <2> QED BY <1>3, <2>2, <2>5 DEF Adds
<1> HIDE DEF c, F
<1>5. Top(c) = b
  BY <1>1 DEF Top
<1>6. \E base : Based(v, base) /\ Held(v.tbl, c, m, base, ev) /\ (Collecting(u) <=> Collecting(v))
  <2>1. c # << >>
    BY <1>1, StackLen
  <2>2. CASE s = << >>
    <3>1. m = 0
      BY <1>1, <2>2, StackLen, Tuples
    <3>2. Based(v, ev)
      BY <2>2 DEF Live
    <3>3. Held(v.tbl, c, m, ev, ev)
      BY <1>3, <3>1, HeldNone
    <3>4. c[1].code # Datagram
      BY <1>1, <1>2, <3>1
    <3>5. Collecting(u) <=> Collecting(v)
      BY <1>9, <2>2, <3>4 DEF Collecting
    <3> QED BY <3>2, <3>3, <3>5
  <2>3. CASE s # << >>
    <3>1. PICK n, base, before :
             /\ n \in Nat /\ IsStack(s) /\ Len(s) = n + 1 /\ Based(v, base)
             /\ Held(v.tbl, s, n, base, before) /\ Adds(v.tbl, Top(s), "pending", before, ev)
      BY <1>3, <2>3, LiveStack
    <3>2. m = n + 1 /\ (\A i \in 1 .. n : c[i] = s[i]) /\ c[n + 1] = s[n + 1] /\ c[1] = s[1]
      BY <1>1, <3>1
    <3>3. Adds(v.tbl, c[n + 1], "pending", before, ev)
      BY <3>1, <3>2 DEF Top
    <3>4. Held(v.tbl, c, n + 1, base, ev)
      BY <3>1, <3>2, <3>3, HeldMore
    <3>5. Collecting(u) <=> Collecting(v)
      BY <1>9, <2>1, <2>3, <3>2 DEF Collecting
    <3> QED BY <3>1, <3>2, <3>4, <3>5
  <2> QED BY <2>2, <2>3
<1>7. PICK base : Based(v, base) /\ Held(v.tbl, c, m, base, ev) /\ (Collecting(u) <=> Collecting(v))
  BY <1>6
<1>8. Based(u, base)
  BY <1>7, BasedSame
<1>10. Held(u.tbl, u.bufs, m, base, ev) /\ Adds(u.tbl, Top(u.bufs), way, ev, F)
       /\ IsStack(u.bufs) /\ Len(u.bufs) = m + 1
  BY <1>1, <1>4, <1>5, <1>7, <1>9
<1>11. Live(u, F, way)
  BY <1>1, <1>8, <1>10, StackLive
<1> QED BY <1>11 DEF F

\* What was there before the buffer b, and the node that b makes.
Popped(u, t, b, ev) ==
  \E before, F : /\ Live(u, before, "pending") /\ Value(t, NodeAtoms(b), F, "whole")
                 /\ before \o F = ev \o EndOf(b.code = Wrapper)

\* A finished buffer is a value for what lies under it.
LEMMA PopLive ==
  ASSUME NEW v, NEW ev, Live(v, ev, "whole"), v.bufs # << >>, NEW b, b = Top(v.bufs),
         b.code # Datagram, Measured(b), Plain(b.atoms),
         NEW u, u.bufs = Pop(v.bufs),
         u.given = v.given, u.tbl = v.tbl, u.out = v.out, u.wroteLST = v.wroteLST
  PROVE  Popped(u, v.tbl, b, ev)
<1> DEFINE s       == v.bufs
           p       == Pop(s)
           t       == v.tbl
           wrapper == (b.code = Wrapper)
           a       == TagAtom(b.code, b.len)
<1>1. PICK n, base, before :
        /\ n \in Nat /\ IsStack(s) /\ Len(s) = n + 1 /\ Based(v, base)
        /\ Held(t, s, n, base, before) /\ Adds(t, b, "whole", before, ev)
  BY LiveStack
<1>2. IsStack(p) /\ Len(p) = n /\ (p = << >> <=> n = 0) /\ (\A i \in 1 .. n : p[i] = s[i])
      /\ b = s[n + 1]
  BY <1>1, TopOf
<1>3. PICK E : Reads(t, b.atoms, E, "whole") /\ ev = (before \o Front(b.code)) \o E
  BY <1>1 DEF Adds
<1>4. NodeAtoms(b) = <<a>> \o b.atoms /\ b.len = SizeOf(b.atoms) /\ Front(b.code) = HeadOf(b.code)
  BY DEF NodeAtoms, Measured, Front
<1>5. /\ Reads(t, <<a>> \o b.atoms, (HeadOf(b.code) \o E) \o EndOf(wrapper), "whole")
      /\ SizeOf(<<a>> \o b.atoms) > 0
  <2>1. wrapper \in BOOLEAN /\ a = TagAtom(b.code, SizeOf(b.atoms))
    BY <1>4
  <2> HIDE DEF wrapper, a
  <2>2. wrapper = (b.code = Wrapper)
    BY DEF wrapper
  <2> QED BY <1>3, <2>1, <2>2, NodeReads
<1>6. Plain(NodeAtoms(b))
  BY NodePlain
<1> DEFINE h == HeadOf(b.code)
           e == EndOf(wrapper)
           F == (h \o E) \o e
<1>7. Value(t, NodeAtoms(b), F, "whole")
  BY <1>4, <1>5, <1>6 DEF Value
<1>8. IsStack(before) /\ IsStack(h) /\ IsStack(E) /\ IsStack(e)
  <2>1. IsStack(e)
    BY Tuples DEF EndOf
  <2>2. IsStack(h)
    BY HeadIsList
  <2> QED BY <1>1, <1>3, <2>1, <2>2 DEF Adds, Reads
<1>9. before \o F = ev \o e
  <2> HIDE DEF h, e
  <2>1. IsStack(h \o E)
    BY <1>8, StackConcat
  <2>2. Assoc(before, h \o E, e) /\ Assoc(before, h, E)
    BY <1>8, <2>1, Associates
  <2>3. ev = (before \o h) \o E
    BY <1>3, <1>4 DEF h
  <2> QED BY <2>2, <2>3, Zenon DEF Assoc
<1>10. Live(u, before, "pending")
  <2> HIDE DEF p
  <2>1. u.bufs = p
    BY DEF p
  <2>2. CASE n = 0
    <3>1. before = base
      BY <1>1, <2>2, HeldNone
    <3>2. ~Collecting(v)
      BY <1>2, <2>2 DEF Collecting
    <3>3. ~Collecting(u)
      BY <1>2, <2>1, <2>2 DEF Collecting
    <3>4. Based(u, before)
      BY <1>1, <3>1, <3>2, <3>3, BasedSame
    <3> QED BY <1>2, <2>1, <2>2, <3>4 DEF Live
  <2>3. CASE n # 0
    <3>1. PICK m \in Nat : n = m + 1
      <4>1. n - 1 \in Nat /\ n = (n - 1) + 1
        BY <1>1, <2>3
      <4> QED BY <4>1
    <3>2. \A i \in 1 .. m : p[i] = s[i]
      BY <1>2, <3>1
    <3>3. PICK first : Held(t, p, m, base, first) /\ Adds(t, s[m + 1], "pending", first, before)
      BY <1>1, <3>1, <3>2, HeldLess
    <3>4. p[m + 1] = s[m + 1] /\ p[1] = s[1]
      BY <1>2, <3>1
    <3>5. Top(p) = s[m + 1]
      BY <1>2, <3>1, <3>4 DEF Top
    <3>6. Collecting(u) <=> Collecting(v)
      BY <1>2, <2>1, <2>3, <3>4 DEF Collecting
    <3>7. Based(u, base)
      BY <1>1, <3>6, BasedSame
    <3>8. /\ Held(u.tbl, u.bufs, m, base, first) /\ Adds(u.tbl, Top(u.bufs), "pending", first, before)
          /\ IsStack(u.bufs) /\ Len(u.bufs) = m + 1
      BY <1>2, <2>1, <3>1, <3>3, <3>5
    <3> QED BY <3>7, <3>8, StackLive
  <2> QED BY <2>2, <2>3
<1>11. before \o F = ev \o EndOf(b.code = Wrapper)
  BY <1>9
<1> HIDE DEF F
<1> QED BY <1>7, <1>10, <1>11 DEF Popped

\* A container or wrapper that is complete has its events where its bytes are.
LEMMA PopAndEmitLive ==
  ASSUME NEW v, DOMAIN v = Fields, NEW ev, Live(v, ev, "whole"), v.bufs # << >>, Ready(v),
         Top(v.bufs).code # Datagram, Measured(Top(v.bufs)), Plain(Top(v.bufs).atoms)
  PROVE  /\ Emitted(v, PopAndEmit(v))
         /\ Comes(PopAndEmit(v), ev \o EndOf(Top(v.bufs).code = Wrapper), "whole")
<1> DEFINE b == Top(v.bufs)
           x == [v EXCEPT !.bufs = Pop(@)]
           u == PopAndEmit(v)
<1>1. u = Emit(x, NodeAtoms(b), NodeLen(b))
  BY DEF PopAndEmit
<1>2. /\ DOMAIN x = Fields /\ x.bufs = Pop(v.bufs)
      /\ \A f \in Fields \ {"bufs"} : x[f] = v[f]
  BY DEF Fields
<1> HIDE DEF x, u
<1>3. /\ x.given = v.given /\ x.tbl = v.tbl /\ x.out = v.out /\ x.wroteLST = v.wroteLST
      /\ x.ctx = v.ctx /\ x.fieldName = v.fieldName /\ x.annotations = v.annotations
  BY <1>2 DEF Fields
<1> HIDE DEF b
<1>4. b = Top(v.bufs)
  BY DEF b
<1>10. b.code # Datagram /\ Measured(b) /\ Plain(b.atoms)
  BY <1>4
<1>11. Popped(x, v.tbl, b, ev)
  BY <1>2, <1>3, <1>4, <1>10, PopLive
<1>5. PICK before, F : /\ Live(x, before, "pending") /\ Value(v.tbl, NodeAtoms(b), F, "whole")
                       /\ before \o F = ev \o EndOf(b.code = Wrapper)
  BY <1>11, Zenon DEF Popped
<1>6. Ready(x)
  BY <1>3 DEF Ready
<1>7. Comes(u, before \o F, "whole")
  BY <1>1, <1>2, <1>3, <1>5, <1>6, EmitLive
<1>8. Emitted(x, u)
  BY <1>1, <1>2, EmitEmitted
<1>9. Emitted(v, u)
  BY <1>3, <1>8 DEF Emitted
<1> QED BY <1>5, <1>7, <1>9 DEF u, b
-----------------------------------------------------------------------------
(***************************************************************************)
(* Writing the table.                                                      *)
(***************************************************************************)
\* Whoever has read what is out is at top level.
Waits(v, ev) ==
  /\ IsStack(ev) /\ IsOutput(v.out) /\ Fits(v, Decode(v.out))
  /\ Decode(v.out) = At(ev, Decode(v.out).tbl, << >>)

\* The system table has no more ids than the table of a writer.
LEMMA SystemFits ==
  ASSUME NEW t, IsWritable(t)
  PROVE  MaxID(SystemTable) \in 0 .. MaxID(t)
<1> DEFINE imps == <<V1System>>
           m    == V1System.maxID
<1>1. AreImports(imps) /\ Len(imps) = 1 /\ imps[1] = V1System
  BY FewImports, V1SystemIsShared
<1>2. m \in Nat
  BY V1SystemIsShared DEF IsShared
<1>3. SystemTable.imports = imps /\ SystemTable.symbols = << >>
  <2>1. ProcessImports(<< >>) = imps
    BY DEF ProcessImports
  <2> QED BY <2>1 DEF SystemTable, NewLocalTable
<1>4. Offset(imps, 1) = 0
  <2>1. imps # << >>
    BY <1>1
  <2> HIDE DEF imps
  <2> QED BY <1>1, <2>1, Offsets
<1>5. MaxID(SystemTable) = m
  <2> HIDE DEF imps
  <2>1. Len(SystemTable.symbols) = 0
    BY <1>3
  <2>2. MaxImportID(SystemTable) = Offset(imps, 1) + imps[1].maxID
    BY <1>1, <1>3 DEF MaxImportID
  <2>3. MaxImportID(SystemTable) = 0 + m
    BY <1>1, <1>4, <2>2
  <2> QED BY <1>2, <2>1, <2>3 DEF MaxID
<1>6. IsTable(t) /\ t.imports[1] = V1System
  BY DEF IsWritable
<1>7. /\ Len(t.imports) \in Nat \ {0} /\ MaxImportID(t) \in Nat /\ Len(t.symbols) \in Nat
      /\ MaxID(t) = MaxImportID(t) + Len(t.symbols)
      /\ \A k \in 1 .. Len(t.imports) : /\ Offset(t.imports, k) \in Nat
                                        /\ t.imports[k].maxID \in Nat
                                        /\ Offset(t.imports, k) + t.imports[k].maxID <= MaxImportID(t)
  BY <1>6, TableLayout
<1>8. Offset(t.imports, 1) \in Nat /\ Offset(t.imports, 1) + m <= MaxImportID(t)
  <2>1. 1 \in 1 .. Len(t.imports)
    BY <1>7
  <2> QED BY <1>6, <1>7, <2>1
<1> HIDE DEF m
<1> QED BY <1>2, <1>5, <1>7, <1>8

\* The walk with another table,
LEMMA TableReplaced ==
  ASSUME NEW ev, NEW tbl, NEW open, NEW yes, NEW u, NEW q,
         NEW d, d = [events |-> ev, tbl |-> tbl, open |-> open, ok |-> yes]
  PROVE  Install(d, u, q) = [events |-> ev, tbl |-> u, open |-> open, ok |-> q]
<1> DEFINE x == [events |-> ev, tbl |-> u, open |-> open, ok |-> yes]
<1>1. [d EXCEPT !.tbl = u] = x
  OBVIOUS
<1>2. [x EXCEPT !.ok = q] = [events |-> ev, tbl |-> u, open |-> open, ok |-> q]
  OBVIOUS
<1>3. [d EXCEPT !.tbl = u, !.ok = q] = [[d EXCEPT !.tbl = u] EXCEPT !.ok = q]
  BY Zenon
<1> QED BY <1>1, <1>2, <1>3, Zenon DEF Install

\* when all was well.
LEMMA InstallIs ==
  ASSUME NEW ev, NEW t, NEW open, NEW u, NEW q, q = TRUE
  PROVE  Install(At(ev, t, open), u, q) = At(ev, u, open)
<1> DEFINE yes == TRUE
           d   == [events |-> ev, tbl |-> t, open |-> open, ok |-> yes]
<1>1. At(ev, t, open) = d /\ At(ev, u, open) = [events |-> ev, tbl |-> u, open |-> open, ok |-> yes]
  BY DEF At
<1>2. q = yes
  OBVIOUS
<1>3. d = [events |-> ev, tbl |-> t, open |-> open, ok |-> yes]
  OBVIOUS
<1> HIDE DEF yes, d
<1>4. Install(d, u, q) = [events |-> ev, tbl |-> u, open |-> open, ok |-> q]
  BY ONLY <1>3, TableReplaced
<1> QED BY <1>1, <1>2, <1>4

\* A version marker at top level resets the table,
LEMMA BvmStep ==
  ASSUME NEW ev, NEW t
  PROVE  Step(At(ev, t, << >>), Bvm) = At(ev, SystemTable, << >>)
<1> DEFINE none == << >>
           d    == At(ev, t, none)
           q    == (d.ok /\ d.open = none)
<1>1. q = TRUE
  BY EventsOf
<1>2. Step(d, Bvm) = Install(d, SystemTable, q)
  BY DEF Step, Bvm, Install
<1> HIDE DEF none, q
<1>3. Install(At(ev, t, none), SystemTable, q) = At(ev, SystemTable, none)
  BY <1>1, InstallIs, Zenon
<1> QED BY <1>2, <1>3 DEF none

\* and a table replaces it.
LEMMA TableStep ==
  ASSUME NEW ev, NEW t, NEW a, a.k = "table"
  PROVE  Step(At(ev, t, << >>), a) = At(ev, ReadLocalTable(a.wire, t, Catalog).tbl, << >>)
<1> DEFINE none == << >>
           d    == At(ev, t, none)
           q    == (d.ok /\ d.open = none)
           r    == ReadLocalTable(a.wire, t, Catalog).tbl
<1>1. q = TRUE
  BY EventsOf
<1>5. d.tbl = t
  BY EventsOf
<1>2. Step(d, a) = Install(d, ReadLocalTable(a.wire, d.tbl, Catalog).tbl, q)
  BY DEF Step, Install
<1>3. Step(d, a) = Install(d, r, q)
  BY <1>2, <1>5
<1> HIDE DEF none, q, r
<1>4. Install(At(ev, t, none), r, q) = At(ev, r, none)
  BY <1>1, InstallIs, Zenon
<1> QED BY <1>3, <1>4 DEF none, r

\* One atom: it is out, or what is whole ends in front of or behind it.
LEMMA EmitOne ==
  ASSUME NEW v, DOMAIN v = Fields, IsOutput(v.out), NEW a, IsOutput(<<a>>),
         NEW u, u = EmitTo(v, <<a>>)
  PROVE  \/ u.ret = "nil" /\ u.out = v.out \o <<a>>
         \/ u.ret = "io" /\ (Whole(u.out) = v.out \/ Whole(u.out) = v.out \o <<a>>)
<1> DEFINE A == <<a>>
<1>1. IsOutput(A) /\ Len(A) = 1 /\ A[1] = a /\ IsStack(A) /\ IsStack(v.out)
  BY Tuples DEF IsOutput
<1> HIDE DEF A
<1>2. \/ u.ret = "nil" /\ u.out = v.out \o A
      \/ \E p, r : IsOutput(p) /\ IsOutput(r) /\ A = p \o r /\ BrokenOff(v, u, p)
  BY <1>1, EmitToIs DEF A
<1>3. ASSUME NEW p, NEW r, IsOutput(p), IsOutput(r), A = p \o r, BrokenOff(v, u, p)
      PROVE  u.ret = "io" /\ (Whole(u.out) = v.out \/ Whole(u.out) = v.out \o A)
  <2>1. IsStack(p) /\ IsStack(r)
    BY <1>3 DEF IsOutput
  <2>2. /\ Len(p) \in Nat /\ Len(r) \in Nat /\ Len(A) = Len(p) + Len(r)
        /\ \A i \in 1 .. Len(p) + Len(r) : A[i] = IF i <= Len(p) THEN p[i] ELSE r[i - Len(p)]
    BY <1>3, <2>1, StackConcat, StackLen
  <2>3. u.ret = "io" /\ Whole(u.out) = v.out \o p
    BY <1>3 DEF BrokenOff
  <2>4. CASE Len(p) = 0
    <3>1. p = << >>
      BY <2>1, <2>4, StackLen
    <3>2. v.out \o p = v.out
      BY <1>1, <3>1, ConcatNothing
    <3> QED BY <2>3, <3>2
  <2>5. CASE Len(p) = 1
    <3>1. Len(p) = Len(A) /\ \A i \in 1 .. Len(p) : p[i] = A[i]
      BY <1>1, <2>2, <2>5
    <3>2. p = A
      BY <1>1, <2>1, <3>1, SameStacks
    <3> QED BY <2>3, <3>2
  <2>6. Len(p) = 0 \/ Len(p) = 1
    BY <1>1, <2>2
  <2> QED BY <2>4, <2>5, <2>6
<1>4. \/ u.ret = "nil" /\ u.out = v.out \o A
      \/ u.ret = "io" /\ (Whole(u.out) = v.out \/ Whole(u.out) = v.out \o A)
  BY <1>2, <1>3
<1> QED BY <1>4 DEF A

\* What is whole of the output reads as the beginning of the events,
LEMMA BegunAt ==
  ASSUME NEW v, NEW o, Whole(v.out) = o, NEW ev, IsStack(ev), NEW t,
         Decode(o) = At(ev, t, << >>), MaxID(t) \in 0 .. MaxID(v.tbl)
  PROVE  Begun(v, ev)
<1> DEFINE d == Decode(o)
<1>1. d.ok /\ d.events = ev /\ d.tbl = t
  BY EventsOf
<1> HIDE DEF d
<1>2. Reached(d, ev)
  BY <1>1, LeadsItself DEF Reached
<1>3. Fits(v, d)
  BY <1>1 DEF Fits
<1> QED BY <1>2, <1>3 DEF Begun, d

\* and what is out reads as all of them, when there are no buffers.
LEMMA LiveAt ==
  ASSUME NEW v, v.bufs = << >>, IsOutput(v.out), NEW ev, IsStack(ev), NEW t,
         Decode(v.out) = At(ev, t, << >>), MaxID(t) \in 0 .. MaxID(v.tbl), Later(v.tbl, t), NEW way
  PROVE  Live(v, ev, way)
<1> DEFINE d == Decode(v.out)
<1>1. d.tbl = t
  BY EventsOf
<1>2. d = At(ev, d.tbl, << >>)
  BY <1>1
<1> HIDE DEF d
<1>3. Fits(v, d) /\ Meets(v, d, ev)
  BY <1>1, <1>2 DEF Fits, Meets
<1>4. Based(v, ev)
  BY <1>3 DEF Based, Collecting, d
<1>5. IsStack(v.bufs)
  BY Tuples
<1> QED BY <1>4, <1>5 DEF Live

\* To store an error leaves output and buffers alone.
LEMMA StoreEmitted ==
  ASSUME NEW v, DOMAIN v = Fields
  PROVE  /\ Emitted(v, Store(v)) /\ Store(v).bufs = v.bufs /\ Store(v).out = v.out
         /\ Store(v).ret = v.ret /\ Store(v).err = v.ret
BY DEF Store, Emitted, Fields

\* To write out leaves the buffers alone.
LEMMA EmitToEmitted ==
  ASSUME NEW v, DOMAIN v = Fields, NEW A
  PROVE  Emitted(v, EmitTo(v, A)) /\ EmitTo(v, A).bufs = v.bufs /\ EmitTo(v, A).err = v.err
BY DEF Emitted, EmitTo, Fields

\* One atom is output.
LEMMA OneOutput ==
  ASSUME NEW a, a.k \in PlainKinds \cup {"bvm", "table"}
  PROVE  IsOutput(<<a>>) /\ IsStack(<<a>>)
<1> DEFINE A == <<a>>
<1>1. IsStack(A) /\ Len(A) = 1 /\ A[1] = a
  BY Tuples
<1> HIDE DEF A
<1>2. IsOutput(A)
  BY <1>1 DEF IsOutput
<1> QED BY <1>1, <1>2 DEF A

\* A reader takes one more atom in a step.
LEMMA DecodeOne ==
  ASSUME NEW out, IsOutput(out), NEW a, IsOutput(<<a>>)
  PROVE  Decode(out \o <<a>>) = Step(Decode(out), a) /\ IsOutput(out \o <<a>>)
<1>1. Decode(out \o <<a>>) = Walk(Decode(out), <<a>>)
  BY DecodeReads
<1>2. Walk(Decode(out), <<a>>) = Step(Decode(out), a)
  BY WalkOne
<1> QED BY <1>1, <1>2, OutputConcat

\* Once the table is written the reader knows every text of the writer; a version marker or a
\* table that is torn is read as nothing.
LEMMA WriteLSTLive ==
  ASSUME NEW v, DOMAIN v = Fields, Tabled(v), v.bufs = << >>, NEW ev, Waits(v, ev),
         NEW u, u = WriteLST(v)
  PROVE  Emitted(v, u) /\ u.bufs = << >> /\ u.ret \in {"nil", "io"} /\ Comes(u, ev, "whole")
<1> DEFINE d0 == Decode(v.out)
           v1 == EmitTo(v, <<Bvm>>)
           a  == TableAtom(v.tbl)
           v2 == EmitTo(v1, <<a>>)
           T  == ReadLocalTable(WriteTo(v.tbl), SystemTable, Catalog).tbl
<1>1. IsStack(ev) /\ IsOutput(v.out) /\ d0 = At(ev, d0.tbl, << >>) /\ Fits(v, d0)
  BY DEF Waits
<1>2. IsOutput(<<Bvm>>) /\ IsOutput(<<a>>) /\ a.k = "table" /\ a.wire = WriteTo(v.tbl)
  BY OneOutput DEF Bvm, TableAtom
<1>3. Emitted(v, v1) /\ v1.bufs = << >>
  BY EmitToEmitted
<1>4. Emitted(v1, v2) /\ v2.bufs = << >>
  BY <1>3, EmitToEmitted DEF Emitted
<1>5. Write(v, Bvm) = v1 /\ Write(v1, a) = v2
  BY <1>3 DEF Write, Emit
<1>6. u = IF v1.ret # "nil" \/ WriteTo(v.tbl).kind = "absent" THEN v1 ELSE Store(v2)
  BY <1>5 DEF WriteLST
<1>7. IsWritable(v.tbl)
  BY DEF Tabled, IsTableOf
<1>8. /\ MaxID(SystemTable) \in 0 .. MaxID(v.tbl)
      /\ Later(v.tbl, T) /\ MaxID(T) = MaxID(v.tbl) /\ MaxID(v.tbl) \in Nat
  <2>1. SameIDs(v.tbl, T)
    BY <1>7, ReadBack
  <2>2. MaxID(v.tbl) \in Nat
    BY <1>7, TableMaxID DEF IsWritable
  <2> HIDE DEF T
  <2> QED BY <1>7, <2>1, <2>2, SystemFits, SameIDsMean
<1>9. v1.tbl = v.tbl /\ v2.tbl = v.tbl /\ DOMAIN v1 = Fields /\ DOMAIN v2 = Fields
  BY <1>3, <1>4 DEF Emitted
<1>10. WriteTo(v.tbl).kind = "absent" => T = SystemTable
  BY DEF ReadLocalTable
<1> HIDE DEF v1, v2, T, a
<1>11. Decode(v.out \o <<Bvm>>) = At(ev, SystemTable, << >>) /\ IsOutput(v.out \o <<Bvm>>)
  <2>1. Decode(v.out \o <<Bvm>>) = Step(d0, Bvm) /\ IsOutput(v.out \o <<Bvm>>)
    BY <1>1, <1>2, DecodeOne
  <2> HIDE DEF d0
  <2>2. Step(d0, Bvm) = At(ev, SystemTable, << >>)
    BY <1>1, BvmStep
  <2> QED BY <2>1, <2>2
<1>12. \/ v1.ret = "nil" /\ v1.out = v.out \o <<Bvm>>
       \/ v1.ret = "io" /\ (Whole(v1.out) = v.out \/ Whole(v1.out) = v.out \o <<Bvm>>)
  BY <1>1, <1>2, EmitOne DEF v1
<1>13. CASE v1.ret # "nil"
  <2>1. v1.ret = "io" /\ (Whole(v1.out) = v.out \/ Whole(v1.out) = v.out \o <<Bvm>>)
    BY <1>12, <1>13
  <2>2. CASE Whole(v1.out) = v.out
    <3>1. Shipped(v1, d0) => Reached(d0, ev)
      <4>1. d0.ok /\ d0.events = ev
        BY <1>1, EventsOf
      <4> HIDE DEF d0
      <4> QED BY <1>1, <4>1, LeadsItself DEF Reached
    <3>2. Fits(v1, d0)
      BY <1>1, <1>3 DEF Fits, Emitted
    <3> QED BY <1>1, <1>3, <1>6, <1>13, <2>1, <2>2, <3>1, <3>2 DEF Begun, Comes
  <2>3. CASE Whole(v1.out) = v.out \o <<Bvm>>
    <3>1. Begun(v1, ev)
      BY <1>1, <1>8, <1>9, <1>11, <2>3, BegunAt
    <3> QED BY <1>3, <1>6, <1>13, <2>1, <3>1 DEF Comes
  <2> QED BY <2>1, <2>2, <2>3
<1>14. CASE v1.ret = "nil" /\ WriteTo(v.tbl).kind = "absent"
  <2>1. IsOutput(v1.out) /\ Decode(v1.out) = At(ev, SystemTable, << >>)
    BY <1>11, <1>12, <1>14
  <2>2. MaxID(SystemTable) \in 0 .. MaxID(v1.tbl) /\ Later(v1.tbl, SystemTable)
    BY <1>8, <1>9, <1>10, <1>14
  <2>3. Live(v1, ev, "whole")
    BY <1>1, <1>3, <2>1, <2>2, LiveAt
  <2> QED BY <1>3, <1>6, <1>14, <2>3 DEF Comes
<1>15. CASE v1.ret = "nil" /\ WriteTo(v.tbl).kind # "absent"
  <2>1. v1.out = v.out \o <<Bvm>> /\ u = Store(v2)
    BY <1>6, <1>12, <1>15
  <2>2. IsOutput(v1.out) /\ Decode(v1.out) = At(ev, SystemTable, << >>)
    BY <1>11, <2>1
  <2>3. Decode(v1.out \o <<a>>) = At(ev, T, << >>) /\ IsOutput(v1.out \o <<a>>)
    <3>1. Decode(v1.out \o <<a>>) = Step(Decode(v1.out), a) /\ IsOutput(v1.out \o <<a>>)
      BY <1>2, <2>2, DecodeOne
    <3>2. Step(At(ev, SystemTable, << >>), a) = At(ev, ReadLocalTable(a.wire, SystemTable, Catalog).tbl, << >>)
      BY <1>2, TableStep
    <3> QED BY <1>2, <2>2, <3>1, <3>2 DEF T
  <2>4. \/ v2.ret = "nil" /\ v2.out = v1.out \o <<a>>
        \/ v2.ret = "io" /\ (Whole(v2.out) = v1.out \/ Whole(v2.out) = v1.out \o <<a>>)
    BY <1>2, <1>9, <2>2, EmitOne DEF v2
  <2>5. /\ Emitted(v2, u) /\ u.bufs = << >> /\ u.out = v2.out /\ u.ret = v2.ret /\ u.tbl = v.tbl
    BY <1>4, <1>9, <2>1, StoreEmitted DEF Emitted
  <2>6. Emitted(v, u)
    BY <1>3, <1>4, <2>5 DEF Emitted
  <2>7. MaxID(T) \in 0 .. MaxID(u.tbl) /\ Later(u.tbl, T) /\ MaxID(SystemTable) \in 0 .. MaxID(u.tbl)
    BY <1>8, <2>5
  <2>8. CASE v2.ret = "nil"
    <3>1. IsOutput(u.out) /\ Decode(u.out) = At(ev, T, << >>)
      BY <2>3, <2>4, <2>5, <2>8
    <3>2. Live(u, ev, "whole")
      BY <1>1, <2>5, <2>7, <3>1, LiveAt
    <3> QED BY <2>5, <2>6, <2>8, <3>2 DEF Comes
  <2>9. CASE v2.ret # "nil"
    <3>1. v2.ret = "io" /\ (Whole(u.out) = v1.out \/ Whole(u.out) = v1.out \o <<a>>)
      BY <2>4, <2>5, <2>9
    <3>2. Whole(u.out) = v1.out => Begun(u, ev)
      BY <1>1, <2>2, <2>7, BegunAt
    <3>3. Whole(u.out) = v1.out \o <<a>> => Begun(u, ev)
      BY <1>1, <2>3, <2>7, BegunAt
    <3> QED BY <2>5, <2>6, <3>1, <3>2, <3>3 DEF Comes
  <2> QED BY <2>8, <2>9
<1> QED BY <1>13, <1>14, <1>15
-----------------------------------------------------------------------------
(***************************************************************************)
(* The steps of beginValue and endValue.                                   *)
(***************************************************************************)
Containing(bufs) == Cardinality(Above(1, bufs))

\* What every step leaves alone: the writer's table only grows, and the buffers of
\* containers are as many as before.
Moves(v, u) ==
  /\ DOMAIN u = Fields /\ IsStack(u.bufs) /\ OnTable(v, u) /\ u.ctx = v.ctx
  /\ Ready(v) => Ready(u)
  /\ Containing(u.bufs) = Containing(v.bufs)

\* Steps in a row leave alone what each of them does.
LEMMA MovesOn ==
  ASSUME NEW v, Tabled(v), NEW u, Moves(v, u), NEW x, Moves(u, x)
  PROVE  Moves(v, x)
<1>1. OnTable(v, x)
  BY OnTableOn DEF Moves
<1> QED BY <1>1 DEF Moves

\* Stacks of the same codes have as many containers.
LEMMA SameContaining ==
  ASSUME NEW s, NEW t, SameCodes(s, t)
  PROVE  Containing(t) = Containing(s)
BY AboveSame DEF Containing

\* A container that is pushed is one more,
LEMMA PushContaining ==
  ASSUME NEW s, IsStack(s), NEW code
  PROVE  /\ IsStack(Append(s, Buffer(code)))
         /\ code \notin Containers => Containing(Append(s, Buffer(code))) = Containing(s)
         /\ code \in Containers => Containing(Append(s, Buffer(code))) = Containing(s) + 1
<1> DEFINE b == Buffer(code)
           t == Append(s, b)
<1>1. b.code = code
  BY DEF Buffer
<1>2. IsStack(t) /\ Len(t) = Len(s) + 1 /\ Len(s) \in Nat
  BY StackPushed, StackLen
<1>3. OneMore(s, t, b.code)
  BY StackPush
<1> HIDE DEF b, t
<1>4. OneMore(s, t, code) /\ 1 \in 1 .. Len(t)
  BY <1>1, <1>2, <1>3
<1>5. /\ code \notin Containers => Above(1, t) = Above(1, s)
      /\ code \in Containers => Cardinality(Above(1, t)) = Cardinality(Above(1, s)) + 1
  BY <1>4, AboveOneMore
<1> QED BY <1>2, <1>5 DEF Containing, t, b

\* and one that is popped is one less.
LEMMA PopContaining ==
  ASSUME NEW s, IsStack(s), s # << >>
  PROVE  /\ IsStack(Pop(s))
         /\ Top(s).code \notin Containers => Containing(Pop(s)) = Containing(s)
         /\ Top(s).code \in Containers => Containing(s) = Containing(Pop(s)) + 1
<1> DEFINE t    == Pop(s)
           code == Top(s).code
<1>1. OneMore(t, s, code) /\ IsStack(t) /\ 1 \in 1 .. Len(s)
  <2>1. OneMore(t, s, code)
    BY StackPop
  <2>2. Len(s) \in Nat /\ Len(s) > 0
    BY StackLen
  <2> HIDE DEF t, code
  <2> QED BY <2>1, <2>2 DEF OneMore
<1> HIDE DEF t, code
<1>2. /\ code \notin Containers => Above(1, s) = Above(1, t)
      /\ code \in Containers => Cardinality(Above(1, s)) = Cardinality(Above(1, t)) + 1
  BY <1>1, AboveOneMore
<1> QED BY <1>1, <1>2 DEF Containing, t, code

\* An emit is a step.
LEMMA EmitMoves ==
  ASSUME NEW v, DOMAIN v = Fields, Tabled(v), IsStack(v.bufs), NEW A, NEW len
  PROVE  Moves(v, Emit(v, A, len))
<1> DEFINE u == Emit(v, A, len)
<1>1. Emitted(v, u)
  BY EmitEmitted
<1>2. SameCodes(v.bufs, u.bufs)
  <2>1. CASE v.bufs = << >>
    <3>1. u.bufs = v.bufs
      BY <2>1, EmitToEmitted DEF Emit
    <3> QED BY <3>1 DEF SameCodes
  <2>2. CASE v.bufs # << >>
    <3> DEFINE top == Top(v.bufs)
               b   == [code |-> top.code, len |-> top.len + len, atoms |-> top.atoms \o A]
               s   == [v.bufs EXCEPT ![Len(v.bufs)] = b]
    <3>1. u = [v EXCEPT !.bufs = s, !.ret = "nil"]
      BY <2>2 DEF Emit
    <3>2. b.code = top.code
      OBVIOUS
    <3> HIDE DEF b
    <3>3. SameCodes(v.bufs, s)
      BY <2>2, <3>2, StackTop
    <3> HIDE DEF s, u
    <3>4. u.bufs = s
      BY <3>1 DEF Fields
    <3> QED BY <3>3, <3>4
  <2> QED BY <2>1, <2>2
<1> HIDE DEF u
<1>3. Containing(u.bufs) = Containing(v.bufs) /\ IsStack(u.bufs)
  BY <1>2, SameContaining DEF SameCodes
<1>4. OnTable(v, u)
  BY <1>1, OnTableItself DEF Emitted
<1>5. Moves(v, u)
  BY <1>1, <1>3, <1>4 DEF Moves, Emitted, Ready
<1> QED BY <1>5 DEF u

\* Only fields that nothing above is about change.
LEMMA MovesItself ==
  ASSUME NEW v, Tabled(v), IsStack(v.bufs), NEW u, DOMAIN u = Fields, u.given = v.given,
         u.tbl = v.tbl, u.bufs = v.bufs, u.ctx = v.ctx, Ready(v) => Ready(u)
  PROVE  Moves(v, u)
BY OnTableItself DEF Moves

\* What comes of a step is the same for the same output and buffers.
LEMMA ComesStays ==
  ASSUME NEW v, Tabled(v), NEW u, OnTable(v, u), u.out = v.out, Ready(u) => Ready(v),
         u.bufs = v.bufs, u.ret = v.ret, NEW ev, NEW way, Comes(v, ev, way)
  PROVE  Comes(u, ev, way)
BY LiveStays, BegunStays DEF Comes

\* The table that was given is out before the first byte of a value.
LEMMA BeginTableLive ==
  ASSUME NEW v, Placed(v), Tabled(v), NEW ev, Live(v, ev, "whole"), v.ret = "nil",
         NEW u, u = BeginTable(v)
  PROVE  Moves(v, u) /\ Comes(u, ev, "whole") /\ (u.ret = "nil" => Ready(u))
<1>1. IsStack(v.bufs) /\ DOMAIN v = Fields
  BY DEF Placed
<1>2. CASE v.given /\ ~v.wroteLST
  <2> DEFINE x == [v EXCEPT !.wroteLST = TRUE]
  <2>1. u = WriteLST(x)
    BY <1>2 DEF BeginTable
  <2>2. v.bufs = << >>
    BY <1>2 DEF Placed
  <2>3. /\ DOMAIN x = Fields /\ x.given = v.given /\ x.tbl = v.tbl /\ x.bufs = v.bufs
        /\ x.out = v.out /\ x.ctx = v.ctx /\ x.wroteLST
    BY <1>1 DEF Fields
  <2> HIDE DEF x
  <2>4. Based(v, ev) /\ ~Collecting(v)
    BY <2>2 DEF Live, Collecting
  <2>5. Waits(x, ev)
    BY <1>2, <2>3, <2>4 DEF Waits, Based, Meets, Shipped, Fits
  <2>6. Tabled(x)
    BY <2>3 DEF Tabled
  <2>7. Emitted(x, u) /\ u.bufs = << >> /\ Comes(u, ev, "whole")
    BY <2>1, <2>2, <2>3, <2>5, <2>6, WriteLSTLive
  <2>8. Ready(u)
    BY <2>3, <2>7 DEF Ready, Emitted
  <2>9. Moves(v, u)
    BY <1>1, <2>2, <2>3, <2>7, <2>8, MovesItself DEF Emitted
  <2> QED BY <2>7, <2>8, <2>9
<1>3. CASE ~(v.given /\ ~v.wroteLST)
  <2>1. u = v
    BY <1>3 DEF BeginTable
  <2>2. Moves(v, v)
    BY <1>1, MovesItself
  <2> QED BY <1>3, <2>1, <2>2 DEF Comes, Ready
<1> QED BY <1>2, <1>3

\* A value in one atom.
LEMMA ValueOne ==
  ASSUME NEW a, a.k \in {"tag", "field", "symbol", "annotations", "scalar"},
         NEW t, NEW E, NEW way, Reads(t, <<a>>, E, way)
  PROVE  Value(t, <<a>>, E, way)
<1> DEFINE A == <<a>>
<1>1. Plain(A)
  BY PlainOne
<1>2. Len(A) = 1 /\ IsStack(A)
  BY Tuples
<1> HIDE DEF A
<1>3. A # << >>
  BY <1>2, StackLen
<1>4. Reads(t, A, E, way)
  BY DEF A
<1>5. SizeOf(A) > 0
  BY <1>3, <1>4 DEF Reads, Solid
<1>6. Value(t, A, E, way)
  BY <1>1, <1>4, <1>5 DEF Value
<1> QED BY <1>6 DEF A

\* A refusal leaves the output as it was.
LEMMA RefuseLive ==
  ASSUME NEW v, DOMAIN v = Fields, Tabled(v), NEW ev, NEW wayV, Live(v, ev, wayV),
         NEW more, IsStack(more), NEW err, err # "nil", NEW u, u = Return(v, err), NEW way
  PROVE  Moves(v, u) /\ Comes(u, ev \o more, way)
<1>1. /\ DOMAIN u = Fields /\ u.given = v.given /\ u.tbl = v.tbl /\ u.bufs = v.bufs /\ u.ctx = v.ctx
      /\ u.wroteLST = v.wroteLST /\ u.out = v.out /\ u.ret = err
  BY DEF Return, Fields
<1>2. IsStack(v.bufs)
  BY DEF Live
<1>3. Moves(v, u)
  BY <1>1, <1>2, MovesItself DEF Ready
<1>4. Begun(v, ev)
  BY LiveBegun
<1>5. Begun(u, ev)
  BY <1>1, <1>3, <1>4, BegunStays DEF Moves
<1> DEFINE F == ev \o more
<1>6. Begun(u, F)
  BY <1>5, BegunLonger
<1> HIDE DEF F
<1>7. Comes(u, F, way)
  BY <1>1, <1>6 DEF Comes
<1> QED BY <1>3, <1>7 DEF F

\* The table grows.
LEMMA TableLive ==
  ASSUME NEW v, DOMAIN v = Fields, Tabled(v), NEW ev, NEW way, Live(v, ev, way),
         NEW tbl, Grown(v.given, v.tbl, tbl), NEW u, u = [v EXCEPT !.tbl = tbl]
  PROVE  /\ Moves(v, u) /\ Tabled(u) /\ Live(u, ev, way)
         /\ u.tbl = tbl /\ \A f \in Fields \ {"tbl"} : u[f] = v[f]
<1>1. DOMAIN u = Fields /\ u.tbl = tbl /\ \A f \in Fields \ {"tbl"} : u[f] = v[f]
  BY DEF Fields
<1>2. /\ u.given = v.given /\ u.bufs = v.bufs /\ u.ctx = v.ctx
      /\ u.wroteLST = v.wroteLST /\ u.out = v.out /\ u.ret = v.ret
  BY <1>1 DEF Fields
<1>3. IsStack(v.bufs)
  BY DEF Live
<1>4. OnTable(v, u)
  BY <1>1, <1>2 DEF OnTable
<1>5. Tabled(u)
  BY <1>4, OnTableIs
<1>6. Live(u, ev, way)
  BY <1>2, <1>4, LiveStays DEF Ready
<1>7. Moves(v, u)
  BY <1>1, <1>2, <1>3, <1>4 DEF Moves, Ready
<1> QED BY <1>1, <1>5, <1>6, <1>7

\* An atom that goes on with what is there.
LEMMA WriteLive ==
  ASSUME NEW v, DOMAIN v = Fields, Tabled(v), NEW ev, NEW wayV, Live(v, ev, wayV), Ready(v),
         NEW a, NEW E, NEW way, Value(v.tbl, <<a>>, E, way), NEW u, u = Write(v, a)
  PROVE  Moves(v, u) /\ Comes(u, ev \o E, way)
<1> DEFINE A == <<a>>
<1>1. u = Emit(v, A, a.size)
  BY DEF Write
<1>2. IsStack(v.bufs)
  BY DEF Live
<1> HIDE DEF A
<1>3. Moves(v, u)
  BY <1>1, <1>2, EmitMoves
<1>4. Value(v.tbl, A, E, way)
  BY DEF A
<1>5. Comes(u, ev \o E, way)
  BY <1>1, <1>4, EmitLive
<1> QED BY <1>3, <1>5

\* A field name adds its event, and so do annotations,
LEMMA BeginNameLive ==
  ASSUME NEW v, DOMAIN v = Fields, Tabled(v), NEW ev, Live(v, ev, "whole"), Ready(v), v.ret = "nil",
         NEW name, IsToken(name), NEW u, u = BeginName(v, name)
  PROVE  Moves(v, u) /\ Comes(u, ev \o FieldOf(v, name), "pending")
<1> DEFINE r == ResolveName(v, name)
           h == FieldOf(v, name)
           F == ev \o h
<1>1. IsStack(v.bufs) /\ IsStack(ev) /\ IsStack(h)
  BY LiveLeads, PrefixIsList DEF Live
<1>2. Finds(v.given, v.tbl, r)
  BY ResolveNameFinds DEF Tabled
<1>3. CASE ~InStruct(v)
  <2>1. u = v /\ h = << >>
    BY <1>3 DEF BeginName, FieldOf
  <2>2. F = ev
    BY <1>1, <2>1, ConcatNothing
  <2>3. Moves(v, v)
    BY <1>1, MovesItself
  <2>4. Live(v, ev, "pending")
    BY LivePending
  <2>5. Comes(u, ev, "pending")
    BY <2>1, <2>4 DEF Comes
  <2> QED BY <2>1, <2>2, <2>3, <2>5
<1>4. CASE InStruct(v)
  <2>1. u = WriteName(v, r)
    BY <1>4 DEF BeginName, WriteFieldName
  <2>2. h = <<[e |-> "field", name |-> Seen(r)]>>
    BY <1>4 DEF FieldOf
  <2>3. Seen([id |-> r.id, text |-> r.text]) = Seen(r)
    BY SeenIs
  <2>4. h = <<FieldEvent(r.id, r.text)>>
    BY <2>2, <2>3 DEF FieldEvent
  <2> HIDE DEF r, h, F
  <2>5. ASSUME r.err # "nil"
        PROVE  Moves(v, u) /\ Comes(u, ev \o h, "pending")
    <3>1. u = Return(v, "usage")
      BY <2>1, <2>5 DEF WriteName
    <3> QED BY <1>1, <3>1, RefuseLive
  <2>6. ASSUME r.err = "nil"
        PROVE  Moves(v, u) /\ Comes(u, ev \o h, "pending")
    <3> DEFINE x == [v EXCEPT !.tbl = r.tbl]
               a == FieldAtom(r.id, r.text)
               A == <<a>>
    <3>1. u = Write(x, a)
      BY <2>1, <2>6 DEF WriteName
    <3>2. Grown(v.given, v.tbl, r.tbl) /\ Means(r.tbl, r.id, r.text)
      BY <1>2, <2>6 DEF Finds
    <3>3. Moves(v, x) /\ Tabled(x) /\ Live(x, ev, "whole") /\ x.tbl = r.tbl
      BY <3>2, TableLive
    <3>4. DOMAIN x = Fields /\ Ready(x)
      BY <3>3 DEF Moves
    <3>5. Reads(r.tbl, A, h, "pending")
      BY <2>4, <3>2, FieldReads
    <3>6. a.k = "field"
      BY DEF FieldAtom
    <3> HIDE DEF x, a
    <3>7. Value(x.tbl, A, h, "pending")
      BY <3>3, <3>5, <3>6, ValueOne
    <3>8. Moves(x, u) /\ Comes(u, ev \o h, "pending")
      BY <3>1, <3>3, <3>4, <3>7, WriteLive
    <3>9. Moves(v, u)
      BY <3>3, <3>8, MovesOn
    <3> QED BY <3>8, <3>9
  <2> QED BY <2>5, <2>6 DEF h, F
<1> QED BY <1>3, <1>4

\* which push the wrapper that a value is still to fill.
LEMMA BeginMarksLive ==
  ASSUME NEW v, DOMAIN v = Fields, Tabled(v), NEW ev, Live(v, ev, "pending"), Ready(v), v.ret = "nil",
         NEW marks, AreTokens(marks), NEW u, u = BeginMarks(v, marks)
  PROVE  Moves(v, u) /\ Comes(u, ev \o MarksOf(v, marks), "pending")
<1> DEFINE r == ResolveMarks(v, marks)
           h == MarksOf(v, marks)
           F == ev \o h
<1>1. IsStack(v.bufs) /\ IsStack(ev) /\ IsStack(h)
  BY LiveLeads, PrefixIsList DEF Live
<1>2. FindsAll(v.given, v.tbl, r)
  BY ResolveMarksFinds DEF Tabled
<1>3. CASE marks = << >>
  <2>1. u = v /\ h = << >>
    BY <1>3 DEF BeginMarks, MarksOf
  <2>2. F = ev
    BY <1>1, <2>1, ConcatNothing
  <2>3. Moves(v, v)
    BY <1>1, MovesItself
  <2>5. Comes(u, ev, "pending")
    BY <2>1 DEF Comes
  <2> QED BY <2>1, <2>2, <2>3, <2>5
<1>4. CASE marks # << >>
  <2>1. u = WriteMarks(v, r)
    BY <1>4 DEF BeginMarks, WriteAnnotations
  <2>2. h = <<[e |-> "annotations", names |-> SeenMarks(r)]>>
    BY <1>4 DEF MarksOf
  <2>4. h = <<MarksEvent(r.ids, r.texts)>>
    BY <2>2 DEF MarksEvent, SeenAll, SeenMarks
  <2> DEFINE x == [v EXCEPT !.tbl = r.tbl]
             y == [x EXCEPT !.bufs = Append(@, Buffer(Wrapper))]
             a == AnnotationAtom(r.ids, r.texts)
             A == <<a>>
  <2>5. u = IF r.err # "nil" THEN Return(x, "usage") ELSE Write(y, a)
    BY <2>1 DEF WriteMarks
  <2> HIDE DEF r, h, F
  <2>6. Grown(v.given, v.tbl, r.tbl)
    BY <1>2 DEF FindsAll
  <2>7. Moves(v, x) /\ Tabled(x) /\ Live(x, ev, "pending") /\ x.tbl = r.tbl
    BY <2>6, TableLive
  <2>8. DOMAIN x = Fields /\ Ready(x) /\ IsStack(x.bufs)
    BY <2>7 DEF Moves
  <2> HIDE DEF x
  <2>9. ASSUME r.err # "nil"
        PROVE  Moves(v, u) /\ Comes(u, ev \o h, "pending")
    <3>1. u = Return(x, "usage")
      BY <2>5, <2>9
    <3>2. Moves(x, u) /\ Comes(u, ev \o h, "pending")
      BY <1>1, <2>7, <2>8, <3>1, RefuseLive
    <3>3. Moves(v, u)
      BY <2>7, <3>2, MovesOn
    <3> QED BY <3>2, <3>3
  <2>10. ASSUME r.err = "nil"
         PROVE  Moves(v, u) /\ Comes(u, ev \o h, "pending")
    <3>1. u = Write(y, a)
      BY <2>5, <2>10
    <3>2. /\ DOMAIN y = Fields /\ y.given = x.given /\ y.tbl = x.tbl /\ y.out = x.out /\ y.ctx = x.ctx
          /\ y.wroteLST = x.wroteLST /\ y.bufs = Append(x.bufs, Buffer(Wrapper))
      BY <2>8 DEF Fields
    <3> HIDE DEF y
    <3>3. Wrapper # Datagram /\ Wrapper \notin Containers
      BY Codes
    <3>4. Live(y, ev \o HeadOf(Wrapper), "pending")
      BY <2>7, <3>2, <3>3, PushLive
    <3>5. Live(y, ev, "pending")
      <4>1. HeadOf(Wrapper) = << >>
        BY DEF HeadOf
      <4>2. ev \o << >> = ev
        BY <1>1, ConcatNothing
      <4> QED BY <3>4, <4>1, <4>2
    <3>6. IsStack(y.bufs) /\ Containing(y.bufs) = Containing(x.bufs)
      BY <2>8, <3>2, <3>3, PushContaining
    <3>7. OnTable(x, y)
      BY <2>7, <3>2, OnTableItself
    <3>8. Moves(x, y) /\ Ready(y)
      BY <2>8, <3>2, <3>6, <3>7 DEF Moves, Ready
    <3>9. Tabled(y)
      BY <2>7, <3>7, OnTableIs
    <3>10. Reads(r.tbl, A, h, "pending")
      <4>1. NamesAll(r.tbl, r.ids, r.texts)
        BY <1>2, <2>10 DEF FindsAll
      <4> QED BY <2>4, <4>1, MarksRead
    <3>11. a.k = "annotations"
      BY DEF AnnotationAtom
    <3> HIDE DEF a
    <3>12. Value(y.tbl, A, h, "pending")
      BY <2>7, <3>2, <3>10, <3>11, ValueOne
    <3>13. Moves(y, u) /\ Comes(u, ev \o h, "pending")
      BY <3>1, <3>2, <3>5, <3>8, <3>9, <3>12, WriteLive
    <3>14. Moves(x, u)
      BY <2>7, <3>8, <3>13, MovesOn
    <3>15. Moves(v, u)
      BY <2>7, <3>14, MovesOn
    <3> QED BY <3>13, <3>15
  <2> QED BY <2>9, <2>10 DEF h, F
<1> QED BY <1>3, <1>4

\* A writer after a step sees names as the one before.
LEMMA MovesTwin ==
  ASSUME NEW v, Tabled(v), NEW u, Moves(v, u)
  PROVE  Twin(v, u) /\ Tabled(u) /\ u.ctx = v.ctx /\ DOMAIN u = Fields /\ IsStack(u.bufs)
<1>1. Tabled(u)
  BY OnTableIs DEF Moves
<1>2. u.given = v.given /\ (v.given => u.tbl = v.tbl)
  BY DEF Moves, OnTable, Grown
<1> QED BY <1>1, <1>2 DEF Twin, Moves, Tabled

\* More was to come when it failed.
LEMMA ComesLonger ==
  ASSUME NEW u, u.ret # "nil", NEW ev, NEW wayE, Comes(u, ev, wayE), NEW more, IsStack(more), NEW way
  PROVE  Comes(u, ev \o more, way)
<1> DEFINE F == ev \o more
<1>1. Begun(u, ev)
  BY DEF Comes
<1>2. Begun(u, F)
  BY <1>1, BegunLonger
<1> HIDE DEF F
<1>3. Comes(u, F, way)
  BY <1>2 DEF Comes
<1> QED BY <1>3 DEF F

\* The field name and the annotations are forgotten, the error is cleared.
LEMMA ClearLive ==
  ASSUME NEW v, Placed(v), Tabled(v), NEW ev, NEW way, Live(v, ev, way),
         NEW u, u = Return(Clear(v), "nil")
  PROVE  Moves(v, u) /\ Placed(u) /\ Live(u, ev, way) /\ u.ret = "nil"
<1> DEFINE x == Clear(v)
<1>1. DOMAIN v = Fields /\ IsStack(v.bufs)
  BY DEF Placed
<1>2. DOMAIN x = Fields /\ \A f \in Fields \ {"fieldName", "annotations"} : x[f] = v[f]
  BY <1>1 DEF Clear, Fields
<1>3. Placed(x)
  BY ClearPlaced DEF Stays
<1> HIDE DEF x
<1>4. Placed(u)
  BY <1>3, ReturnPlaced DEF Stays, x
<1>5. DOMAIN u = Fields /\ u.ret = "nil" /\ \A f \in Fields \ {"ret"} : u[f] = x[f]
  BY <1>2 DEF Return, Fields, x
<1>6. /\ u.given = v.given /\ u.tbl = v.tbl /\ u.bufs = v.bufs /\ u.ctx = v.ctx
      /\ u.wroteLST = v.wroteLST /\ u.out = v.out
  BY <1>2, <1>5 DEF Fields
<1>7. Moves(v, u)
  BY <1>1, <1>5, <1>6, MovesItself DEF Ready
<1>8. Live(u, ev, way)
  BY <1>6, <1>7, LiveStays DEF Moves, Ready
<1> QED BY <1>4, <1>5, <1>7, <1>8

\* beginValue adds the prefix, and has the table written if there is one.
LEMMA BeginValueLive ==
  ASSUME NEW v, Placed(v), Tabled(v), NEW ev, Live(v, ev, "whole"),
         IsToken(v.fieldName), AreTokens(v.annotations), NEW u, u = BeginValue(v)
  PROVE  Moves(v, u) /\ Comes(u, ev \o PrefixOf(v), "pending") /\ (u.ret = "nil" => Ready(u))
<1> DEFINE v1    == Return(Clear(v), "nil")
           v2    == BeginTable(v1)
           v3    == BeginName(v2, v.fieldName)
           name  == v.fieldName
           marks == v.annotations
           h     == FieldOf(v, name)
           m     == MarksOf(v, marks)
           F     == ev \o h
           G     == ev \o (h \o m)
<1>1. u = BeginMarks(v3, marks)
  BY DEF BeginValue
<1>2. Moves(v, v1) /\ Placed(v1) /\ Live(v1, ev, "whole") /\ v1.ret = "nil"
  BY ClearLive
<1>3. DOMAIN v = Fields
  BY DEF Placed
<1> HIDE DEF v1
<1>4. Tabled(v1)
  BY <1>2, MovesTwin
<1>5. Moves(v1, v2) /\ Comes(v2, ev, "whole") /\ (v2.ret = "nil" => Ready(v2))
  BY <1>2, <1>4, BeginTableLive
<1> HIDE DEF v2
<1>6. Moves(v, v2)
  BY <1>2, <1>5, MovesOn
<1>7. Twin(v, v2) /\ Tabled(v2) /\ v2.ctx = v.ctx /\ DOMAIN v2 = Fields
  BY <1>6, MovesTwin
<1>8. IsStack(ev) /\ IsStack(h) /\ IsStack(m) /\ IsStack(h \o m)
  <2>1. IsStack(ev)
    BY LiveLeads
  <2>2. IsStack(h) /\ IsStack(m)
    BY PrefixIsList
  <2> HIDE DEF h, m
  <2> QED BY <2>1, <2>2, StackConcat
<1>9. PrefixOf(v) = h \o m
  BY DEF PrefixOf
<1>10. F \o m = G
  <2> HIDE DEF h, m
  <2>1. Assoc(ev, h, m)
    BY <1>8, Associates
  <2> QED BY <2>1, Zenon DEF Assoc
<1> HIDE DEF name, marks
<1>11. FieldOf(v2, name) = h
  BY <1>3, <1>7, PrefixAlike DEF name, marks
<1>12. IsToken(name) /\ AreTokens(marks)
  BY DEF name, marks
<1>18. v3 = BeginName(v2, name)
  BY DEF name
<1> HIDE DEF h, m, F, G, v3
<1>13. ASSUME v2.ret # "nil"
       PROVE  Moves(v, u) /\ Comes(u, G, "pending") /\ (u.ret = "nil" => Ready(u))
  <2>1. u = v2
    BY <1>1, <1>13 DEF BeginMarks, BeginName, v3
  <2>2. Comes(u, ev \o (h \o m), "pending")
    BY <1>5, <1>8, <1>13, <2>1, ComesLonger
  <2> QED BY <1>6, <1>13, <2>1, <2>2 DEF G
<1>14. ASSUME v2.ret = "nil"
       PROVE  Moves(v, u) /\ Comes(u, G, "pending") /\ (u.ret = "nil" => Ready(u))
  <2>1. Live(v2, ev, "whole") /\ Ready(v2)
    BY <1>5, <1>14 DEF Comes
  <2>2. Moves(v2, v3) /\ Comes(v3, F, "pending")
    <3>1. Moves(v2, v3) /\ Comes(v3, ev \o FieldOf(v2, name), "pending")
      BY <1>7, <1>12, <1>14, <1>18, <2>1, BeginNameLive
    <3> QED BY <1>11, <3>1 DEF F
  <2>3. Moves(v, v3) /\ Ready(v3)
    BY <1>6, <2>1, <2>2, MovesOn DEF Moves
  <2>4. Twin(v, v3) /\ Tabled(v3) /\ v3.ctx = v.ctx /\ DOMAIN v3 = Fields
    BY <2>3, MovesTwin
  <2>5. MarksOf(v3, marks) = m
    BY <1>3, <1>12, <2>4, PrefixAlike DEF m
  <2>6. ASSUME v3.ret # "nil"
        PROVE  Moves(v, u) /\ Comes(u, G, "pending") /\ (u.ret = "nil" => Ready(u))
    <3>1. u = v3
      BY <1>1, <2>6 DEF BeginMarks
    <3>2. Comes(u, F \o m, "pending")
      BY <1>8, <2>2, <2>6, <3>1, ComesLonger
    <3> QED BY <1>10, <2>3, <2>6, <3>1, <3>2
  <2>7. ASSUME v3.ret = "nil"
        PROVE  Moves(v, u) /\ Comes(u, G, "pending") /\ (u.ret = "nil" => Ready(u))
    <3>1. Live(v3, F, "pending")
      BY <2>2, <2>7 DEF Comes
    <3>2. Moves(v3, u) /\ Comes(u, F \o m, "pending")
      <4>1. Moves(v3, u) /\ Comes(u, F \o MarksOf(v3, marks), "pending")
        BY <1>1, <1>12, <2>3, <2>4, <2>7, <3>1, BeginMarksLive
      <4> QED BY <2>5, <4>1
    <3>3. Moves(v, u) /\ Ready(u)
      BY <2>3, <3>2, MovesOn DEF Moves
    <3> QED BY <1>10, <3>2, <3>3
  <2> QED BY <2>6, <2>7
<1>15. Moves(v, u) /\ Comes(u, G, "pending") /\ (u.ret = "nil" => Ready(u))
  BY <1>13, <1>14
<1> QED BY <1>9, <1>15 DEF G

\* PopAndEmit is a step but for the container it takes off.
LEMMA PopAndEmitMoves ==
  ASSUME NEW v, DOMAIN v = Fields, Tabled(v), IsStack(v.bufs), v.bufs # << >>, NEW u, u = PopAndEmit(v)
  PROVE  /\ DOMAIN u = Fields /\ IsStack(u.bufs) /\ OnTable(v, u) /\ u.ctx = v.ctx
         /\ Ready(v) => Ready(u)
         /\ Containing(u.bufs) = Containing(Pop(v.bufs))
<1> DEFINE b == Top(v.bufs)
           x == [v EXCEPT !.bufs = Pop(@)]
<1>1. u = Emit(x, NodeAtoms(b), NodeLen(b))
  BY DEF PopAndEmit
<1>2. /\ DOMAIN x = Fields /\ x.bufs = Pop(v.bufs)
      /\ \A f \in Fields \ {"bufs"} : x[f] = v[f]
  BY DEF Fields
<1> HIDE DEF x, b
<1>3. x.given = v.given /\ x.tbl = v.tbl /\ x.wroteLST = v.wroteLST /\ x.ctx = v.ctx
  BY <1>2 DEF Fields
<1>4. IsStack(x.bufs)
  BY <1>2, PopContaining
<1>5. Tabled(x)
  BY <1>3 DEF Tabled
<1>6. Moves(x, u)
  BY <1>1, <1>2, <1>4, <1>5, EmitMoves
<1>7. OnTable(v, u)
  BY <1>3, <1>6 DEF Moves, OnTable
<1> QED BY <1>2, <1>3, <1>6, <1>7 DEF Moves, Ready

\* endValue adds nothing: a wrapper has no event.
LEMMA EndValueLive ==
  ASSUME NEW v, Placed(v), AllMeasured(v.bufs), Tabled(v), Ready(v), NEW ev, Live(v, ev, "whole"),
         NEW u, u = EndValue(v)
  PROVE  Moves(v, u) /\ Comes(u, ev, "whole")
<1>1. DOMAIN v = Fields /\ IsStack(v.bufs)
  BY DEF Placed
<1>2. CASE v.bufs # << >> /\ Top(v.bufs).code = Wrapper
  <2> DEFINE b == Top(v.bufs)
  <2>1. u = PopAndEmit(v)
    BY <1>2 DEF EndValue
  <2>2. Measured(b)
    BY <1>1, <1>2, MeasuredPop
  <2>3. Plain(b.atoms)
    <3>1. Len(v.bufs) \in 1 .. Len(v.bufs)
      BY <1>1, <1>2, StackLen
    <3> QED BY <3>1 DEF Placed, AllPlain, Top
  <2>4. b.code # Datagram /\ b.code \notin Containers
    BY <1>2, Codes
  <2>5. Comes(u, ev \o EndOf(b.code = Wrapper), "whole")
    BY <1>1, <1>2, <2>1, <2>2, <2>3, <2>4, PopAndEmitLive
  <2>6. ev \o EndOf(b.code = Wrapper) = ev
    <3>1. EndOf(b.code = Wrapper) = << >>
      BY <1>2 DEF EndOf
    <3>2. IsStack(ev)
      BY LiveLeads
    <3> QED BY <3>1, <3>2, ConcatNothing
  <2>7. Moves(v, u)
    BY <1>1, <1>2, <2>1, <2>4, PopAndEmitMoves, PopContaining DEF Moves
  <2> QED BY <2>5, <2>6, <2>7
<1>3. CASE ~(v.bufs # << >> /\ Top(v.bufs).code = Wrapper)
  <2>1. u = Return(v, "nil")
    BY <1>3 DEF EndValue
  <2>2. /\ DOMAIN u = Fields /\ u.given = v.given /\ u.tbl = v.tbl /\ u.bufs = v.bufs /\ u.ctx = v.ctx
        /\ u.wroteLST = v.wroteLST /\ u.out = v.out /\ u.ret = "nil"
    BY <1>1, <2>1 DEF Return, Fields
  <2>3. Moves(v, u)
    BY <1>1, <2>2, MovesItself DEF Ready
  <2>4. Live(u, ev, "whole")
    BY <2>2, <2>3, LiveStays DEF Moves, Ready
  <2> QED BY <2>2, <2>3, <2>4 DEF Comes
<1> QED BY <1>2, <1>3
-----------------------------------------------------------------------------
(***************************************************************************)
(* The calls.                                                              *)
(***************************************************************************)
\* Every context has its buffer.
Even(v) == Containing(v.bufs) = Len(v.ctx)

\* The call was to add up to the events, and its error is stored.
Outcome(v, u, ev) ==
  /\ DOMAIN u = Fields /\ OnTable(v, u) /\ u.err = u.ret
  /\ Comes(u, ev, "whole")
  /\ u.ret = "nil" /\ Even(v) => Even(u)

\* A writer of whole values that has stored no error.
Writing(v, ev) ==
  /\ Placed(v) /\ Sound(v) /\ Tabled(v) /\ Live(v, ev, "whole") /\ v.err = "nil"
  /\ IsToken(v.fieldName) /\ AreTokens(v.annotations)

\* An outcome is stored,
LEMMA StoreOutcome ==
  ASSUME NEW v, NEW x, DOMAIN x = Fields, OnTable(v, x), Tabled(v), NEW ev, Comes(x, ev, "whole"),
         x.ret = "nil" /\ Even(v) => Even(x), NEW u, u = Store(x)
  PROVE  Outcome(v, u, ev)
<1>1. /\ DOMAIN u = Fields /\ u.bufs = x.bufs /\ u.out = x.out /\ u.ret = x.ret /\ u.err = x.ret
      /\ u.given = x.given /\ u.tbl = x.tbl /\ u.wroteLST = x.wroteLST /\ u.ctx = x.ctx
  BY StoreEmitted DEF Emitted
<1>2. Tabled(x)
  BY OnTableIs
<1>3. OnTable(x, u)
  BY <1>1, <1>2, OnTableItself
<1>4. OnTable(v, u)
  BY <1>3, OnTableOn
<1>5. Comes(u, ev, "whole")
  BY <1>1, <1>2, <1>3, ComesStays DEF Ready
<1>6. Even(x) => Even(u)
  BY <1>1 DEF Even
<1> QED BY <1>1, <1>4, <1>5, <1>6 DEF Outcome

\* and a step has one.
LEMMA MovesOutcome ==
  ASSUME NEW v, NEW x, Moves(v, x), Tabled(v), NEW ev, Comes(x, ev, "whole"), NEW u, u = Store(x)
  PROVE  Outcome(v, u, ev)
<1>1. DOMAIN x = Fields /\ OnTable(v, x) /\ (Even(v) => Even(x))
  BY DEF Moves, Even
<1> QED BY <1>1, StoreOutcome

\* A value adds its prefix and its own events, or nothing but the beginning of them is out.
LEMMA WriteValueLive ==
  ASSUME NEW v, NEW ev, Writing(v, ev), NEW A, NEW E, Value(v.tbl, A, E, "whole"),
         NEW u, u = WriteValue(v, A)
  PROVE  Outcome(v, u, ev \o (PrefixOf(v) \o E))
<1> DEFINE b == BeginValue(v)
           e == EmitNext(b, A)
           x == EndNext(e)
           P == PrefixOf(v)
           F == ev \o P
           G == ev \o (P \o E)
<1>1. u = Store(x)
  BY DEF WriteValue, Writing
<1>2. Placed(v) /\ Sound(v) /\ Tabled(v) /\ Live(v, ev, "whole")
      /\ IsToken(v.fieldName) /\ AreTokens(v.annotations)
  BY DEF Writing
<1>3. Moves(v, b) /\ Comes(b, F, "pending") /\ (b.ret = "nil" => Ready(b))
  BY <1>2, BeginValueLive
<1>4. Placed(b) /\ Sound(b)
  BY <1>2, BeginValuePlaced, BeginValueSound DEF Prepared
<1>5. IsStack(ev) /\ IsStack(P) /\ IsStack(E)
  BY <1>2, LiveLeads, PrefixIsList DEF Value, Reads
<1>6. F \o E = G /\ IsStack(F)
  <2> HIDE DEF P
  <2>1. Assoc(ev, P, E)
    BY <1>5, Associates
  <2>2. F \o E = G
    BY <2>1, Zenon DEF Assoc
  <2> QED BY <1>5, <2>2, StackConcat
<1> HIDE DEF b, P, F, G, x
<1>7. Tabled(b) /\ DOMAIN b = Fields /\ IsStack(b.bufs)
  BY <1>2, <1>3, MovesTwin
<1>8. ASSUME b.ret # "nil"
      PROVE  Moves(v, x) /\ Comes(x, G, "whole")
  <2>1. x = b
    BY <1>8 DEF x, EndNext, EmitNext
  <2>2. Comes(b, F \o E, "whole")
    BY <1>3, <1>5, <1>8, ComesLonger
  <2> QED BY <1>3, <1>6, <2>1, <2>2
<1>9. ASSUME b.ret = "nil"
      PROVE  Moves(v, x) /\ Comes(x, G, "whole")
  <2>1. e = Emit(b, A, SizeOf(A))
    BY <1>9 DEF EmitNext
  <2>2. Live(b, F, "pending") /\ Ready(b)
    BY <1>3, <1>9 DEF Comes
  <2>3. Later(v.tbl, b.tbl)
    BY <1>2, <1>3, OnTableIs DEF Moves
  <2>4. Value(b.tbl, A, E, "whole") /\ Sized(A) /\ Plain(A)
    BY <2>3, ReadsLater DEF Value, Reads, Solid
  <2> HIDE DEF e
  <2>5. Comes(e, F \o E, "whole")
    BY <1>7, <2>1, <2>2, <2>4, EmitLive
  <2>6. Moves(b, e)
    BY <1>7, <2>1, EmitMoves
  <2>7. Placed(e)
    BY <1>4, <2>1, <2>4, EmitPlaced DEF Stays
  <2>8. Sound(e)
    BY <1>4, <2>1, <2>4, EmitSound DEF Follows
  <2>9. Moves(v, e) /\ Ready(e)
    BY <1>2, <1>3, <2>2, <2>6, MovesOn DEF Moves
  <2>10. Tabled(e)
    BY <1>2, <2>9, MovesTwin
  <2>11. ASSUME e.ret # "nil"
         PROVE  Moves(v, x) /\ Comes(x, G, "whole")
    <3>1. x = e
      BY <2>11 DEF x, EndNext, e
    <3> QED BY <1>6, <2>5, <2>9, <3>1
  <2>12. ASSUME e.ret = "nil"
         PROVE  Moves(v, x) /\ Comes(x, G, "whole")
    <3>1. x = EndValue(e)
      BY <2>12 DEF x, EndNext, e
    <3>2. Live(e, G, "whole")
      BY <1>6, <2>5, <2>12 DEF Comes
    <3>3. AllMeasured(e.bufs)
      BY <2>8 DEF Sound
    <3>4. Moves(e, x) /\ Comes(x, G, "whole")
      BY <2>7, <2>9, <2>10, <3>1, <3>2, <3>3, EndValueLive
    <3>5. Moves(v, x)
      BY <1>2, <2>9, <3>4, MovesOn
    <3> QED BY <3>4, <3>5
  <2> QED BY <2>11, <2>12
<1>10. Moves(v, x) /\ Comes(x, G, "whole")
  BY <1>8, <1>9
<1>11. Outcome(v, u, G)
  BY <1>1, <1>2, <1>10, MovesOutcome
<1> QED BY <1>11 DEF G, P

\* The values of the calls.
LEMMA ScalarValue ==
  ASSUME NEW sizes \in Scalars, NEW t, NEW way
  PROVE  Value(t, ScalarAtoms(sizes), <<ScalarEvent(sizes)>>, way)
<1> DEFINE A == ScalarAtoms(sizes)
           E == <<ScalarEvent(sizes)>>
<1>1. PICK n \in Nat \ {0} : n = Len(sizes) /\ \A i \in 1 .. n : sizes[i] \in Nat \ {0}
  <2>1. sizes \in Seq(Nat \ {0}) /\ sizes # << >>
    BY ScalarsAssumption
  <2>2. Len(sizes) \in Nat /\ Len(sizes) > 0
    BY <2>1, StackLen DEF IsStack
  <2>3. \A i \in 1 .. Len(sizes) : sizes[i] \in Nat \ {0}
    BY <2>1, ElementOfSeq
  <2> QED BY <2>2, <2>3
<1>2. A = Parts(sizes, n)
  BY <1>1 DEF ScalarAtoms, Parts, Part
<1>3. Reads(t, A, E, way)
  BY <1>1, <1>2, PartsRead
<1>4. Plain(A)
  BY ScalarsPlain
<1>5. A # << >>
  <2>1. IsStack(Parts(sizes, n)) /\ Len(Parts(sizes, n)) = n
    BY PartsAre
  <2> QED BY <1>2, <2>1, StackLen
<1> HIDE DEF A, E
<1>6. Value(t, A, E, way)
  BY <1>3, <1>4, <1>5 DEF Value, Reads, Solid
<1> QED BY <1>6 DEF A, E

\* A symbol is a value.
LEMMA SymbolValue ==
  ASSUME NEW t, NEW id, NEW text, Means(t, id, text)
  PROVE  Value(t, <<SymbolAtom(id, text)>>, <<SymbolEvent(id, text)>>, "whole")
<1>1. Reads(t, <<SymbolAtom(id, text)>>, <<SymbolEvent(id, text)>>, "whole")
  BY SymbolReads
<1>2. SymbolAtom(id, text).k = "symbol"
  BY DEF SymbolAtom
<1> QED BY <1>1, <1>2, ValueOne

\* The event of a container's tag names its kind.
LEMMA HeadOfContext ==
  ASSUME NEW c \in Contexts
  PROVE  HeadOf(CodeOf[c]) = <<[e |-> "begin", c |-> c]>>
<1>1. \A x \in Contexts : CodeOf[x] = CodeOf[c] => x = c
  BY DEF Contexts, CodeOf
<1>2. (CHOOSE x \in Contexts : CodeOf[x] = CodeOf[c]) = c
  BY <1>1
<1>3. CodeOf[c] # Wrapper
  BY Codes
<1> QED BY <1>2, <1>3 DEF HeadOf

\* The begin of a container adds its prefix and its event.
LEMMA BeginLive ==
  ASSUME NEW v, NEW ev, Writing(v, ev), v.ctx \in Seq(Contexts), NEW c \in Contexts,
         NEW u, u = Begin(v, c)
  PROVE  Outcome(v, u, ev \o (PrefixOf(v) \o <<[e |-> "begin", c |-> c]>>))
<1> DEFINE b == BeginValue(v)
           x == EnterNext(b, c)
           P == PrefixOf(v)
           E == HeadOf(CodeOf[c])
           F == ev \o P
           G == ev \o (P \o E)
<1>1. u = Store(x)
  BY DEF Begin, Writing
<1>2. Placed(v) /\ Tabled(v) /\ Live(v, ev, "whole")
      /\ IsToken(v.fieldName) /\ AreTokens(v.annotations)
  BY DEF Writing
<1>3. Moves(v, b) /\ Comes(b, F, "pending") /\ (b.ret = "nil" => Ready(b))
  BY <1>2, BeginValueLive
<1>5. IsStack(ev) /\ IsStack(P) /\ IsStack(E)
  BY <1>2, LiveLeads, PrefixIsList, HeadIsList
<1> HIDE DEF b, P, E
<1>6. F \o E = G
  <2>1. Assoc(ev, P, E)
    BY <1>5, Associates
  <2> QED BY <2>1, Zenon DEF Assoc
<1> HIDE DEF F, G
<1>7. Tabled(b) /\ DOMAIN b = Fields /\ IsStack(b.bufs) /\ b.ctx = v.ctx
  BY <1>2, <1>3, MovesTwin
<1>8. ASSUME b.ret # "nil"
      PROVE  Outcome(v, u, G)
  <2>1. x = b
    BY <1>8 DEF EnterNext
  <2>2. Comes(b, F \o E, "whole")
    BY <1>3, <1>5, <1>8, ComesLonger
  <2> QED BY <1>1, <1>2, <1>3, <1>6, <2>1, <2>2, MovesOutcome
<1>9. ASSUME b.ret = "nil"
      PROVE  Outcome(v, u, G)
  <2>1. x = [b EXCEPT !.ctx = Append(@, c), !.bufs = Append(@, Buffer(CodeOf[c]))]
    BY <1>9 DEF EnterNext
  <2>2. /\ DOMAIN x = Fields /\ x.given = b.given /\ x.tbl = b.tbl /\ x.out = b.out /\ x.ret = "nil"
        /\ x.wroteLST = b.wroteLST /\ x.ctx = Append(v.ctx, c)
        /\ x.bufs = Append(b.bufs, Buffer(CodeOf[c]))
    BY <1>7, <1>9, <2>1 DEF Fields
  <2> HIDE DEF x
  <2>3. CodeOf[c] \in Containers /\ CodeOf[c] # Datagram
    BY Codes
  <2>4. Live(b, F, "pending")
    BY <1>3, <1>9 DEF Comes
  <2>5. Live(x, F \o E, "whole")
    BY <2>2, <2>3, <2>4, PushLive DEF E
  <2>6. Containing(x.bufs) = Containing(b.bufs) + 1
    BY <1>7, <2>2, <2>3, PushContaining
  <2>7. Containing(b.bufs) = Containing(v.bufs)
    BY <1>3 DEF Moves
  <2>8. Len(x.ctx) = Len(v.ctx) + 1
    BY <2>2, AppendProperties
  <2>9. Even(v) => Even(x)
    BY <2>6, <2>7, <2>8 DEF Even
  <2>10. OnTable(b, x)
    BY <1>7, <2>2, OnTableItself
  <2>11. OnTable(v, x)
    BY <1>2, <1>3, <2>10, OnTableOn DEF Moves
  <2>12. Comes(x, G, "whole")
    BY <1>6, <2>2, <2>5 DEF Comes
  <2> QED BY <1>1, <1>2, <2>2, <2>9, <2>11, <2>12, StoreOutcome
<1>10. Outcome(v, u, G)
  BY <1>8, <1>9
<1>11. E = <<[e |-> "begin", c |-> c]>>
  BY HeadOfContext DEF E
<1> QED BY <1>10, <1>11 DEF G, P

\* There are no containers in no buffers.
LEMMA NothingContained == Containing(<< >>) = 0
<1>1. Above(1, << >>) = {}
  BY DEF Above, IsContainer
<1>2. Cardinality({}) = 0
  BY FS_EmptySet
<1> QED BY <1>1, <1>2 DEF Containing

\* A call that is refused adds nothing.
LEMMA RefuseOutcome ==
  ASSUME NEW v, NEW ev, Writing(v, ev), NEW more, IsStack(more), NEW err, err # "nil",
         NEW u, u = Store(Return(v, err))
  PROVE  Outcome(v, u, ev \o more)
<1>1. DOMAIN v = Fields /\ Tabled(v) /\ Live(v, ev, "whole")
  BY DEF Writing, Placed
<1> DEFINE x == Return(v, err)
<1>2. Moves(v, x) /\ Comes(x, ev \o more, "whole")
  BY <1>1, RefuseLive
<1> HIDE DEF x
<1>3. u = Store(x)
  BY DEF x
<1> QED BY <1>1, <1>2, <1>3, MovesOutcome

\* A writer with an open container has its buffer on top, not a wrapper.
LEMMA ContainerOnTop ==
  ASSUME NEW v, Closed(v), Even(v), v.ctx # << >>
  PROVE  v.bufs # << >> /\ Top(v.bufs).code \in Containers
<1>1. v.ctx \in Seq(Contexts) /\ IsStack(v.bufs) /\ Mirrors(v.bufs, v.ctx)
  BY DEF Closed, IsWriter
<1>2. Len(v.ctx) > 0
  BY <1>1, StackLen DEF IsStack
<1>3. v.bufs # << >>
  BY <1>2, NothingContained DEF Even
<1> QED BY <1>1, <1>3, TopIsContainer

\* The end of a container adds its event.
LEMMA EndLive ==
  ASSUME NEW v, NEW ev, Writing(v, ev), Closed(v), Even(v), NEW c, NEW u, u = End(v, c)
  PROVE  Outcome(v, u, ev \o <<[e |-> "end"]>>)
<1> DEFINE E  == <<[e |-> "end"]>>
           F  == ev \o E
           b  == Top(v.bufs)
           v1 == PopAndEmit(v)
           v2 == [Clear(v1) EXCEPT !.ctx = Pop(@)]
           x  == IF v1.ret # "nil" THEN v1 ELSE EndValue(v2)
<1>1. /\ Placed(v) /\ Sound(v) /\ Tabled(v) /\ Live(v, ev, "whole") /\ DOMAIN v = Fields
      /\ IsStack(v.bufs) /\ v.ctx \in Seq(Contexts) /\ v.err = "nil"
  BY DEF Writing, Placed, Closed, IsWriter
<1>2. CASE v.ctx = << >> \/ Top(v.ctx) # c
  <2>1. u = Store(Return(v, "usage"))
    BY <1>1, <1>2 DEF End
  <2>2. IsStack(E)
    BY Tuples
  <2> HIDE DEF E
  <2>3. Outcome(v, u, ev \o E)
    BY <2>1, <2>2, RefuseOutcome
  <2> QED BY <2>3 DEF E
<1>3. ASSUME v.ctx # << >>, Top(v.ctx) = c
      PROVE  Outcome(v, u, F)
  <2>1. v.bufs # << >> /\ b.code \in Containers
    BY <1>3, ContainerOnTop
  <2>2. u = Store(x)
    BY <1>1, <1>3, <2>1 DEF End
  <2>3. b.code # Wrapper /\ b.code # Datagram
    BY <2>1, Codes
  <2>4. Measured(b)
    BY <1>1, <2>1, MeasuredPop DEF Sound
  <2>5. Plain(b.atoms)
    <3>1. Len(v.bufs) \in 1 .. Len(v.bufs)
      BY <1>1, <2>1, StackLen
    <3> QED BY <1>1, <3>1 DEF Placed, AllPlain, Top
  <2>6. Ready(v)
    BY <1>1, <2>1 DEF Placed, Ready
  <2>7. Emitted(v, v1) /\ Comes(v1, ev \o EndOf(b.code = Wrapper), "whole")
    BY <1>1, <2>1, <2>3, <2>4, <2>5, <2>6, PopAndEmitLive
  <2>8. EndOf(b.code = Wrapper) = E
    BY <2>3 DEF EndOf
  <2>9. Comes(v1, F, "whole")
    BY <2>7, <2>8
  <2>10. /\ DOMAIN v1 = Fields /\ IsStack(v1.bufs) /\ OnTable(v, v1) /\ v1.ctx = v.ctx /\ Ready(v1)
         /\ Containing(v1.bufs) = Containing(Pop(v.bufs))
    BY <1>1, <2>1, <2>6, PopAndEmitMoves
  <2>11. Placed(v1) /\ Sound(v1) /\ Tabled(v1)
    BY <1>1, <2>1, <2>10, PopAndEmitPlaced, PopAndEmitSound, OnTableIs DEF Stays, Follows
  <2> HIDE DEF b, v1, F
  <2>12. Containing(v.bufs) = Containing(Pop(v.bufs)) + 1
    BY <1>1, <2>1, PopContaining DEF b
  <2>13. ASSUME v1.ret # "nil"
         PROVE  Outcome(v, u, F)
    <3>1. u = Store(v1)
      BY <2>2, <2>13
    <3> QED BY <1>1, <2>9, <2>10, <2>13, <3>1, StoreOutcome
  <2>14. ASSUME v1.ret = "nil"
         PROVE  Outcome(v, u, F)
    <3> DEFINE y == EndValue(v2)
    <3>1. u = Store(y)
      BY <2>2, <2>14
    <3>2. DOMAIN v2 = Fields /\ v2.ctx = Pop(v.ctx)
          /\ \A f \in Fields \ {"ctx", "fieldName", "annotations"} : v2[f] = v1[f]
      BY <2>10 DEF Clear, Fields
    <3> HIDE DEF v2, y
    <3>3. /\ v2.given = v1.given /\ v2.tbl = v1.tbl /\ v2.bufs = v1.bufs /\ v2.out = v1.out
          /\ v2.wroteLST = v1.wroteLST
      BY <3>2 DEF Fields
    <3>4. OnTable(v1, v2) /\ Tabled(v2)
      BY <2>11, <3>3, OnTableItself DEF Tabled
    <3>5. Live(v2, F, "whole")
      <4>1. Live(v1, F, "whole")
        BY <2>9, <2>14 DEF Comes
      <4> QED BY <2>11, <3>3, <3>4, <4>1, LiveStays DEF Ready
    <3>6. Placed(v2) /\ AllMeasured(v2.bufs) /\ Ready(v2)
      BY <2>10, <2>11, <3>2, <3>3, OtherFieldsPlaced DEF Stays, Sound, Ready
    <3>7. Moves(v2, y) /\ Comes(y, F, "whole")
      BY <3>4, <3>5, <3>6, EndValueLive DEF y
    <3>8. OnTable(v, y)
      <4>1. OnTable(v, v2)
        BY <1>1, <2>10, <3>4, OnTableOn
      <4> QED BY <1>1, <3>7, <4>1, OnTableOn DEF Moves
    <3>9. Even(y)
      <4>1. PICK n \in Nat : Len(v.ctx) = n + 1 /\ Len(Pop(v.ctx)) = n
        BY <1>1, <1>3, TopOf DEF IsStack
      <4>2. Containing(v.bufs) = n + 1
        BY <4>1 DEF Even
      <4>3. Containing(Pop(v.bufs)) \in Nat
        <5>1. IsStack(Pop(v.bufs)) /\ 1 \in Nat
          BY <1>1, <2>1, PopContaining
        <5> QED BY <5>1, AboveFinite DEF Containing
      <4>4. Containing(v2.bufs) = n
        BY <2>10, <2>12, <3>3, <4>2, <4>3
      <4> QED BY <3>2, <3>7, <4>1, <4>4 DEF Even, Moves
    <3>10. DOMAIN y = Fields
      BY <3>7 DEF Moves
    <3> QED BY <1>1, <3>1, <3>7, <3>8, <3>9, <3>10, StoreOutcome
  <2> QED BY <2>13, <2>14
<1> QED BY <1>2, <1>3

\* FieldName adds nothing,
LEMMA FieldNameLive ==
  ASSUME NEW v, NEW ev, Writing(v, ev), NEW name, NEW u, u = FieldName(v, name)
  PROVE  Outcome(v, u, ev)
<1>1. /\ Tabled(v) /\ Live(v, ev, "whole") /\ DOMAIN v = Fields /\ v.err = "nil" /\ IsStack(ev)
  BY LiveLeads DEF Writing, Placed
<1>2. CASE ~InStruct(v)
  <2>1. u = Store(Return(v, "usage"))
    BY <1>1, <1>2 DEF FieldName
  <2>2. Outcome(v, u, ev \o << >>)
    BY <2>1, Tuples, RefuseOutcome
  <2>3. ev \o << >> = ev
    BY <1>1, ConcatNothing
  <2> QED BY <2>2, <2>3
<1>3. CASE InStruct(v)
  <2>1. u = [v EXCEPT !.fieldName = name, !.ret = "nil"]
    BY <1>1, <1>3 DEF FieldName
  <2>2. /\ DOMAIN u = Fields /\ u.given = v.given /\ u.tbl = v.tbl /\ u.bufs = v.bufs /\ u.ctx = v.ctx
        /\ u.wroteLST = v.wroteLST /\ u.out = v.out /\ u.ret = "nil" /\ u.err = "nil"
    BY <1>1, <2>1 DEF Fields
  <2>3. OnTable(v, u)
    BY <1>1, <2>2, OnTableItself
  <2>4. Live(u, ev, "whole")
    BY <1>1, <2>2, <2>3, LiveStays DEF Ready
  <2> QED BY <2>2, <2>3, <2>4 DEF Outcome, Comes, Even
<1> QED BY <1>2, <1>3

\* nor do Annotation and Annotations.
LEMMA AnnotationsLive ==
  ASSUME NEW v, NEW ev, Writing(v, ev), NEW marks, NEW u, u = Annotations(v, marks)
  PROVE  Outcome(v, u, ev)
<1>1. /\ Tabled(v) /\ Live(v, ev, "whole") /\ DOMAIN v = Fields /\ v.err = "nil"
  BY DEF Writing, Placed
<1>2. u = [v EXCEPT !.annotations = @ \o marks, !.ret = "nil"]
  BY <1>1 DEF Annotations
<1>3. /\ DOMAIN u = Fields /\ u.given = v.given /\ u.tbl = v.tbl /\ u.bufs = v.bufs /\ u.ctx = v.ctx
      /\ u.wroteLST = v.wroteLST /\ u.out = v.out /\ u.ret = "nil" /\ u.err = "nil"
  BY <1>1, <1>2 DEF Fields
<1>4. OnTable(v, u)
  BY <1>1, <1>3, OnTableItself
<1>5. Live(u, ev, "whole")
  BY <1>1, <1>3, <1>4, LiveStays DEF Ready
<1> QED BY <1>3, <1>4, <1>5 DEF Outcome, Comes, Even

\* A symbol that was looked up adds its prefix and its event.
LEMMA WriteResolvedLive ==
  ASSUME NEW v, NEW ev, Writing(v, ev), NEW r, Finds(v.given, v.tbl, r), NEW u, u = WriteResolved(v, r)
  PROVE  Outcome(v, u, ev \o (PrefixOf(v) \o <<[e |-> "symbol", name |-> Seen(r)]>>))
<1> DEFINE E    == <<[e |-> "symbol", name |-> Seen(r)]>>
           P    == PrefixOf(v)
           G    == ev \o (P \o E)
           x    == [v EXCEPT !.tbl = r.tbl]
           v1   == [v EXCEPT !.tbl = r.tbl, !.err = r.err]
           more == P \o E
<1>1. /\ Placed(v) /\ Sound(v) /\ Tabled(v) /\ Live(v, ev, "whole") /\ v.err = "nil"
      /\ IsToken(v.fieldName) /\ AreTokens(v.annotations) /\ DOMAIN v = Fields
  BY DEF Writing, Placed
<1>2. Grown(v.given, v.tbl, r.tbl)
  BY DEF Finds
<1>3. /\ DOMAIN v1 = Fields /\ v1.tbl = r.tbl /\ v1.err = r.err
      /\ \A f \in Fields \ {"tbl", "err"} : v1[f] = v[f]
  BY <1>1 DEF Fields
<1>4. IsStack(P) /\ IsStack(E)
  BY Tuples, PrefixIsList
<1>5. IsStack(more)
  <2> HIDE DEF P, E
  <2> QED BY <1>4, StackConcat
<1> HIDE DEF v1, x
<1>6. /\ v1.given = v.given /\ v1.bufs = v.bufs /\ v1.ctx = v.ctx /\ v1.out = v.out
      /\ v1.wroteLST = v.wroteLST /\ v1.fieldName = v.fieldName /\ v1.annotations = v.annotations
  BY <1>3 DEF Fields
<1>7. OnTable(v, v1)
  BY <1>2, <1>3, <1>6 DEF OnTable
<1>8. Tabled(v1)
  BY <1>1, <1>7, OnTableIs
<1>9. Live(v1, ev, "whole")
  BY <1>1, <1>6, <1>7, LiveStays DEF Ready
<1>10. u = IF r.err # "nil" THEN Return(v1, r.err) ELSE WriteValue(v1, <<SymbolAtom(r.id, r.text)>>)
  BY DEF WriteResolved, v1
<1>11. ASSUME r.err # "nil"
       PROVE  Outcome(v, u, G)
  <2>1. u = Return(v1, r.err)
    BY <1>10, <1>11
  <2> HIDE DEF more
  <2>2. Moves(v1, u) /\ Comes(u, ev \o more, "whole")
    BY <1>3, <1>5, <1>8, <1>9, <1>11, <2>1, RefuseLive
  <2>3. u.err = r.err /\ u.ret = r.err
    BY <1>3, <2>1 DEF Return, Fields
  <2>4. OnTable(v, u)
    BY <1>1, <1>7, <2>2, OnTableOn DEF Moves
  <2>5. DOMAIN u = Fields
    BY <2>2 DEF Moves
  <2>6. Outcome(v, u, ev \o more)
    BY <1>11, <2>2, <2>3, <2>4, <2>5 DEF Outcome
  <2> QED BY <2>6 DEF more
<1>12. ASSUME r.err = "nil"
       PROVE  Outcome(v, u, G)
  <2> DEFINE A == <<SymbolAtom(r.id, r.text)>>
             S == <<SymbolEvent(r.id, r.text)>>
  <2>1. u = WriteValue(v1, A)
    BY <1>10, <1>12
  <2>2. Means(r.tbl, r.id, r.text)
    BY <1>12 DEF Finds
  <2>3. Value(v1.tbl, A, S, "whole")
    BY <1>3, <2>2, SymbolValue
  <2>4. S = E
    BY SeenIs DEF SymbolEvent
  <2>5. Placed(v1)
    BY <1>1, <1>3, <1>6, OtherFieldsPlaced DEF Stays
  <2>6. Sound(v1)
    BY <1>1, <1>2, <1>3, <1>6 DEF Sound, InStruct, Grown
  <2>7. Writing(v1, ev)
    BY <1>1, <1>3, <1>6, <1>8, <1>9, <1>12, <2>5, <2>6 DEF Writing
  <2> HIDE DEF A, S
  <2>8. Outcome(v1, u, ev \o (PrefixOf(v1) \o S))
    BY <2>1, <2>3, <2>7, WriteValueLive
  <2>9. PrefixOf(v1) = P
    <3>1. Twin(v, v1)
      BY <1>1, <1>2, <1>3, <1>6 DEF Twin, Tabled, Grown
    <3>2. /\ FieldOf(v1, v.fieldName) = FieldOf(v, v.fieldName)
          /\ MarksOf(v1, v.annotations) = MarksOf(v, v.annotations)
      BY <1>1, <1>3, <1>6, <3>1, PrefixAlike
    <3> QED BY <1>6, <3>2 DEF PrefixOf
  <2>10. Outcome(v1, u, G)
    BY <2>4, <2>8, <2>9
  <2> HIDE DEF G
  <2>11. OnTable(v, u)
    BY <1>1, <1>7, <2>10, OnTableOn DEF Outcome
  <2> QED BY <1>6, <2>10, <2>11 DEF Outcome, Even
<1>13. Outcome(v, u, G)
  BY <1>11, <1>12
<1> QED BY <1>13

\* A symbol token adds the event of its id or its text, or it has neither.
LEMMA WriteSymbolLive ==
  ASSUME NEW v, NEW ev, Writing(v, ev), NEW tok, IsToken(tok), NEW u, u = WriteSymbol(v, tok)
  PROVE  \/ u = Return(v, "usage")
         \/ Outcome(v, u, ev \o (PrefixOf(v)
              \o <<[e    |-> "symbol",
                    name |-> IF tok.sid # SymbolIDUnknown THEN [id |-> tok.sid]
                             ELSE [text |-> tok.text]]>>))
<1>1. CASE tok.sid # SymbolIDUnknown
  <2>1. u = WriteValue(v, <<SymbolAtom(tok.sid, NoText)>>)
    BY <1>1 DEF WriteSymbol
  <2>2. Value(v.tbl, <<SymbolAtom(tok.sid, NoText)>>, <<SymbolEvent(tok.sid, NoText)>>, "whole")
    BY SymbolValue DEF Means
  <2>3. SymbolEvent(tok.sid, NoText) = [e |-> "symbol", name |-> [id |-> tok.sid]]
    BY DEF SymbolEvent, Seen
  <2>4. Outcome(v, u, ev \o (PrefixOf(v) \o <<SymbolEvent(tok.sid, NoText)>>))
    BY <2>1, <2>2, WriteValueLive
  <2> QED BY <1>1, <2>3, <2>4
<1>2. CASE ~(tok.sid # SymbolIDUnknown) /\ tok.text # NoText
  <2> DEFINE r == ResolveFromTable(v, tok.text)
  <2>1. u = WriteResolved(v, r)
    BY <1>2 DEF WriteSymbol
  <2>2. Finds(v.given, v.tbl, r)
    BY <1>2, ResolveFromTableFinds DEF IsToken, Writing, Tabled
  <2>3. Seen(r) = [text |-> tok.text]
    BY <1>2 DEF Seen, ResolveFromTable, Resolved
  <2> HIDE DEF r
  <2>4. Outcome(v, u, ev \o (PrefixOf(v) \o <<[e |-> "symbol", name |-> Seen(r)]>>))
    BY <2>1, <2>2, WriteResolvedLive
  <2> QED BY <1>2, <2>3, <2>4
<1>3. CASE ~(tok.sid # SymbolIDUnknown) /\ ~(tok.text # NoText)
  BY <1>3 DEF WriteSymbol
<1> QED BY <1>1, <1>2, <1>3

\* The datagram lies alone at top level, and what it holds is all there is.
LEMMA DatagramHolds ==
  ASSUME NEW v, NEW ev, Writing(v, ev), Closed(v), Even(v), v.ctx = << >>, v.bufs # << >>
  PROVE  /\ Len(v.bufs) = 1 /\ Pop(v.bufs) = << >> /\ ~v.given
         /\ Top(v.bufs).code = Datagram /\ Plain(Top(v.bufs).atoms)
         /\ v.out = << >> /\ Fits(v, Decode(v.out))
         /\ Reads(v.tbl, Top(v.bufs).atoms, ev, "whole")
<1> DEFINE b == Top(v.bufs)
           t == v.tbl
<1>1. /\ Placed(v) /\ Live(v, ev, "whole") /\ IsStack(v.bufs) /\ Mirrors(v.bufs, << >>)
  BY DEF Writing, Closed, IsWriter
<1>2. Len(v.bufs) = 1 /\ Pop(v.bufs) = << >>
  BY <1>1, DatagramAlone, PopAlone
<1>3. b = v.bufs[1]
  BY <1>2 DEF Top
<1>4. b.code = Datagram
  <2>1. b.code # Wrapper
    BY <1>1, MirrorsIsOpen
  <2>2. b.code \in Containers \cup {Datagram, Wrapper}
    BY <1>1, <1>2, <1>3 DEF Mirrors
  <2>3. Containing(v.bufs) = 0
    BY DEF Even
  <2>4. b.code \notin Containers
    BY <1>1, <1>2, <2>3, PopContaining, NothingContained
  <2> QED BY <2>1, <2>2, <2>4
<1>5. ~v.given /\ Plain(b.atoms)
  BY <1>1, <1>2, <1>3, <1>4 DEF Placed, AllPlain
<1>6. PICK n, base, before :
        /\ n \in Nat /\ Len(v.bufs) = n + 1 /\ Based(v, base)
        /\ Held(t, v.bufs, n, base, before) /\ Adds(t, b, "whole", before, ev)
  BY <1>1, LiveStack
<1>7. n = 0
  <2>1. \A k \in Nat : k + 1 = 1 => k = 0
    OBVIOUS
  <2>2. n + 1 = 1
    BY <1>2, <1>6, Zenon
  <2> QED BY <1>6, <2>1, <2>2, Zenon
<1>8. before = base
  BY <1>6, <1>7, HeldNone
<1>9. v.out = << >> /\ base = << >> /\ Fits(v, Decode(v.out))
  BY <1>3, <1>4, <1>6 DEF Based, Collecting
<1>10. PICK E : Reads(t, b.atoms, E, "whole") /\ ev = (before \o Front(b.code)) \o E
  BY <1>6 DEF Adds
<1>11. ev = E
  <2> DEFINE none == << >>
  <2>1. Front(b.code) = none /\ before = none
    BY <1>4, <1>8, <1>9 DEF Front
  <2>2. IsStack(none) /\ IsStack(E)
    BY <1>10, Tuples DEF Reads
  <2>3. none \o none = none /\ none \o E = E
    BY <2>2, ConcatNothing
  <2> HIDE DEF none
  <2> QED BY <1>10, <2>1, <2>3
<1> QED BY <1>2, <1>4, <1>5, <1>9, <1>10, <1>11

\* To write nothing out cannot fail.
LEMMA EmitNothing ==
  ASSUME NEW v, DOMAIN v = Fields, IsStack(v.out), NEW u, u = EmitTo(v, << >>)
  PROVE  u.ret = "nil" /\ u.out = v.out
<1> DEFINE none == << >>
<1>1. Len(none) = 0 /\ v.out \o none = v.out
  BY ConcatNothing
<1> HIDE DEF none
<1>2. {i \in 1 .. Len(none) : v.writes + i \in v.fault[1] .. v.fault[2]} = {}
  BY <1>1
<1>3. u = EmitTo(v, none)
  BY DEF none
<1>4. u = [v EXCEPT !.out = @ \o none, !.writes = @ + Len(none), !.ret = "nil"]
  BY <1>2, <1>3 DEF EmitTo
<1>5. u.out = v.out \o none /\ u.ret = "nil"
  BY <1>4 DEF Fields
<1> QED BY <1>1, <1>5

\* The atoms of the datagram are emitted.
LEMMA DatagramLive ==
  ASSUME NEW v, DOMAIN v = Fields, Tabled(v), v.bufs = << >>, Ready(v), Live(v, << >>, "whole"),
         NEW A, Plain(A), NEW E, Reads(v.tbl, A, E, "whole"), NEW len, NEW u, u = Emit(v, A, len)
  PROVE  Moves(v, u) /\ u.bufs = << >> /\ Comes(u, E, "whole")
<1> DEFINE none == << >>
<1>1. IsStack(none) /\ IsStack(E) /\ none \o E = E
  BY Tuples, ConcatNothing DEF Reads
<1>2. u = EmitTo(v, A)
  BY DEF Emit
<1>3. u.bufs = << >>
  BY <1>2, EmitToEmitted
<1>4. Moves(v, u)
  BY <1>1, EmitMoves
<1>5. CASE A = << >>
  <2>1. E = none
    BY <1>5, ReadsEmpty
  <2>2. IsStack(v.out)
    BY DEF Live, Based, IsOutput
  <2>3. u.ret = "nil" /\ u.out = v.out
    BY <1>2, <1>5, <2>2, EmitNothing
  <2>4. Emitted(v, u)
    BY <1>2, EmitToEmitted
  <2>5. Live(u, none, "whole")
    BY <1>3, <1>4, <2>3, <2>4, LiveStays DEF Moves, Emitted, Ready
  <2> QED BY <1>3, <1>4, <2>1, <2>3, <2>5 DEF Comes
<1>6. CASE A # << >>
  <2>1. Value(v.tbl, A, E, "whole")
    BY <1>6 DEF Value, Reads, Solid
  <2>2. Live(v, none, "whole")
    OBVIOUS
  <2> HIDE DEF none
  <2>3. Comes(u, none \o E, "whole")
    BY <2>1, <2>2, EmitLive
  <2> QED BY <1>1, <1>3, <1>4, <2>3
<1> QED BY <1>5, <1>6

\* Finish adds nothing: what is collected is written out behind its table, and reads as before.
LEMMA FinishLive ==
  ASSUME NEW v, NEW ev, Writing(v, ev), Closed(v), Even(v), NEW u, u = Finish(v)
  PROVE  \/ u = Return(v, "usage")
         \/ u.ret = "io" /\ u.err # "io"
         \/ Outcome(v, u, ev)
<1> DEFINE v0  == Clear(v)
           v1  == [v0 EXCEPT !.wroteLST = FALSE]
           b   == Top(v.bufs)
           v2  == [v1 EXCEPT !.bufs = Pop(@)]
           x   == WriteLST(v2)
           y   == Emit(x, NodeAtoms(b), NodeLen(b))
<1>1. /\ Placed(v) /\ Tabled(v) /\ Live(v, ev, "whole") /\ DOMAIN v = Fields
      /\ IsStack(v.bufs) /\ v.err = "nil" /\ IsStack(ev)
  BY LiveLeads DEF Writing, Placed
<1>2. /\ DOMAIN v1 = Fields /\ v1.wroteLST = FALSE
      /\ \A f \in Fields \ {"wroteLST", "fieldName", "annotations"} : v1[f] = v[f]
  BY <1>1 DEF Clear, Fields
<1>3. u = IF v.ctx # << >> THEN Return(v, "usage")
          ELSE IF v.bufs = << >> THEN Return(v1, "nil")
          ELSE IF Len(v.bufs) > 1 THEN Return([v1 EXCEPT !.bufs = Pop(@)], "panic")
          ELSE IF x.ret # "nil" THEN x ELSE Store(y)
  BY <1>1 DEF Finish
<1> HIDE DEF v1
<1>4. /\ v1.given = v.given /\ v1.tbl = v.tbl /\ v1.bufs = v.bufs /\ v1.out = v.out
      /\ v1.ctx = v.ctx /\ v1.err = v.err
  BY <1>2 DEF Fields
<1>5. OnTable(v, v1) /\ Tabled(v1)
  BY <1>1, <1>4, OnTableItself DEF Tabled
<1>6. CASE v.ctx # << >>
  BY <1>3, <1>6
<1>7. ASSUME v.ctx = << >>, v.bufs = << >>
      PROVE  Outcome(v, u, ev)
  <2>1. u = Return(v1, "nil")
    BY <1>3, <1>7
  <2>2. /\ DOMAIN u = Fields /\ u.ret = "nil" /\ u.given = v.given /\ u.tbl = v.tbl
        /\ u.bufs = v.bufs /\ u.out = v.out /\ u.ctx = v.ctx /\ u.err = "nil" /\ u.wroteLST = FALSE
    BY <1>1, <1>2, <1>4, <2>1 DEF Return, Fields
  <2>3. OnTable(v, u)
    BY <1>1, <2>2, OnTableItself
  <2>4. Ready(u) => Ready(v)
    BY <2>2 DEF Ready
  <2>5. Live(u, ev, "whole")
    BY <1>1, <2>2, <2>3, <2>4, LiveStays
  <2> QED BY <2>2, <2>3, <2>5 DEF Outcome, Comes, Even
<1>8. ASSUME v.ctx = << >>, v.bufs # << >>, ~(u.ret = "io" /\ u.err # "io")
      PROVE  Outcome(v, u, ev)
  <2>1. /\ Len(v.bufs) = 1 /\ Pop(v.bufs) = << >> /\ ~v.given /\ b.code = Datagram /\ Plain(b.atoms)
        /\ v.out = << >> /\ Fits(v, Decode(v.out)) /\ Reads(v.tbl, b.atoms, ev, "whole")
    BY <1>8, DatagramHolds
  <2>2. u = IF x.ret # "nil" THEN x ELSE Store(y)
    BY <1>3, <1>8, <2>1
  <2>3. /\ DOMAIN v2 = Fields /\ v2.bufs = << >>
        /\ \A f \in Fields \ {"bufs"} : v2[f] = v1[f]
    BY <1>2, <1>4, <2>1 DEF Fields
  <2>4. NodeAtoms(b) = b.atoms
    BY <2>1 DEF NodeAtoms
  <2> HIDE DEF v2
  <2>5. v2.given = v.given /\ v2.tbl = v.tbl /\ v2.out = v.out /\ v2.ctx = v.ctx
    BY <1>4, <2>3 DEF Fields
  <2>6. OnTable(v, v2) /\ Tabled(v2)
    BY <1>1, <2>5, OnTableItself DEF Tabled
  <2>7. Waits(v2, << >>)
    <3>1. IsOutput(<< >>) /\ Decode(<< >>) = Start
      BY DecodeNothing
    <3>2. Start = At(<< >>, SystemTable, << >>) /\ Start.tbl = SystemTable
      BY DEF Start, At
    <3>3. Fits(v2, Decode(v2.out))
      BY <2>1, <2>5 DEF Fits
    <3> QED BY <2>1, <2>5, <3>1, <3>2, <3>3, Tuples DEF Waits
  <2>8. Emitted(v2, x) /\ x.bufs = << >> /\ x.ret \in {"nil", "io"} /\ Comes(x, << >>, "whole")
    BY <2>3, <2>6, <2>7, WriteLSTLive
  <2> HIDE DEF x, b
  <2>9. OnTable(v, x) /\ Tabled(x) /\ DOMAIN x = Fields /\ Ready(x) /\ x.ctx = << >> /\ x.tbl = v.tbl
    BY <1>1, <1>8, <2>1, <2>5, <2>6, <2>8, OnTableItself, OnTableIs DEF Emitted, Ready
  <2>10. ASSUME x.ret # "nil"
         PROVE  Outcome(v, u, ev)
    <3> DEFINE none == << >>
    <3>1. u = x /\ x.ret = "io"
      BY <2>2, <2>8, <2>10
    <3>2. x.err = "io"
      BY <1>8, <3>1
    <3>3. Comes(x, none, "whole") /\ none \o ev = ev
      BY <1>1, <2>8, ConcatNothing
    <3> HIDE DEF none
    <3>4. Comes(x, none \o ev, "whole")
      BY <1>1, <2>10, <3>3, ComesLonger
    <3> QED BY <2>9, <3>1, <3>2, <3>3, <3>4 DEF Outcome
  <2>11. ASSUME x.ret = "nil"
         PROVE  Outcome(v, u, ev)
    <3>1. Live(x, << >>, "whole")
      BY <2>8, <2>11 DEF Comes
    <3>2. y = Emit(x, b.atoms, NodeLen(b))
      BY <2>4
    <3>3. Reads(x.tbl, b.atoms, ev, "whole")
      BY <2>1, <2>9
    <3>4. Moves(x, y) /\ y.bufs = << >> /\ Comes(y, ev, "whole")
      BY <2>1, <2>8, <2>9, <3>1, <3>2, <3>3, DatagramLive
    <3> HIDE DEF y
    <3>5. u = Store(y)
      BY <2>2, <2>11
    <3>6. OnTable(v, y)
      BY <1>1, <2>9, <3>4, OnTableOn DEF Moves
    <3>7. Even(y)
      <4>1. y.ctx = << >> /\ Len(<< >>) = 0
        BY <2>9, <3>4 DEF Moves
      <4> QED BY <3>4, <4>1, NothingContained DEF Even
    <3>8. DOMAIN y = Fields
      BY <3>4 DEF Moves
    <3> QED BY <1>1, <3>4, <3>5, <3>6, <3>7, <3>8, StoreOutcome
  <2> QED BY <2>10, <2>11
<1> QED BY <1>6, <1>7, <1>8
-----------------------------------------------------------------------------
(***************************************************************************)
(* What holds of every writer, errors or not.                              *)
(***************************************************************************)
\* A table that grows, and tokens.
Labelled(v) ==
  /\ DOMAIN v = Fields /\ Tabled(v)
  /\ IsToken(v.fieldName) /\ AreTokens(v.annotations)

Grows(v, u) == Labelled(u) /\ OnTable(v, u)

\* Growing is transitive.
LEMMA GrowsOn ==
  ASSUME NEW v, Labelled(v), NEW u, Grows(v, u), NEW x, Grows(u, x)
  PROVE  Grows(v, x)
BY OnTableOn DEF Grows, Labelled

\* The same table and some tokens are as good.
LEMMA SameGrows ==
  ASSUME NEW v, Labelled(v), NEW u, DOMAIN u = Fields, u.given = v.given, u.tbl = v.tbl,
         IsToken(u.fieldName), AreTokens(u.annotations)
  PROVE  Grows(v, u)
BY OnTableItself DEF Grows, Labelled, Tabled

\* An emit leaves the table alone,
LEMMA EmittedGrows ==
  ASSUME NEW v, Labelled(v), NEW u, Emitted(v, u)
  PROVE  Grows(v, u)
BY SameGrows DEF Labelled, Emitted

\* and so does an error.
LEMMA ReturnGrows ==
  ASSUME NEW v, Labelled(v), NEW err
  PROVE  Grows(v, v) /\ Grows(v, Return(v, err)) /\ Grows(v, Store(v))
<1>1. Emitted(v, v) /\ Emitted(v, Return(v, err)) /\ Emitted(v, Store(v))
  BY DEF Emitted, Return, Store, Fields, Labelled
<1> QED BY <1>1, EmittedGrows

\* No name and no annotations are tokens.
LEMMA NoTokens == IsToken(NoName) /\ AreTokens(<< >>)
<1>1. NoName.text = NoText
  BY DEF NoName, Token
<1> DEFINE none == << >>
<1>2. IsStack(none) /\ Len(none) = 0
  BY Tuples
<1> HIDE DEF none
<1>3. AreTokens(none)
  BY <1>2 DEF AreTokens
<1> QED BY <1>1, <1>3 DEF IsToken, none

\* To forget the name and the annotations leaves the table alone.
LEMMA ClearGrows ==
  ASSUME NEW v, Labelled(v)
  PROVE  Grows(v, Clear(v))
<1>1. /\ DOMAIN Clear(v) = Fields /\ Clear(v).given = v.given /\ Clear(v).tbl = v.tbl
      /\ Clear(v).fieldName = NoName /\ Clear(v).annotations = << >>
  BY DEF Clear, Fields, Labelled
<1> QED BY <1>1, NoTokens, SameGrows

\* An emit leaves the table alone,
LEMMA EmitGrows ==
  ASSUME NEW v, Labelled(v), NEW A, NEW len
  PROVE  Grows(v, Emit(v, A, len))
BY EmitEmitted, EmittedGrows DEF Labelled

\* and so does a single atom.
LEMMA WriteGrows ==
  ASSUME NEW v, Labelled(v), NEW a
  PROVE  Grows(v, Write(v, a))
BY EmitGrows DEF Write

\* A table that has grown.
LEMMA TableGrows ==
  ASSUME NEW v, Labelled(v), NEW tbl, Grown(v.given, v.tbl, tbl)
  PROVE  Grows(v, [v EXCEPT !.tbl = tbl])
<1> DEFINE u == [v EXCEPT !.tbl = tbl]
<1>1. DOMAIN u = Fields /\ u.tbl = tbl /\ \A f \in Fields \ {"tbl"} : u[f] = v[f]
  BY DEF Labelled, Fields
<1> HIDE DEF u
<1>2. u.given = v.given /\ u.fieldName = v.fieldName /\ u.annotations = v.annotations
  BY <1>1 DEF Fields
<1>3. OnTable(v, u)
  BY <1>1, <1>2 DEF OnTable
<1>4. Tabled(u)
  BY <1>3, OnTableIs DEF Labelled
<1> QED BY <1>1, <1>2, <1>3, <1>4 DEF Grows, Labelled, u

\* Buffers are pushed and popped, the context changes, the table is written.
LEMMA OthersGrow ==
  ASSUME NEW v, Labelled(v), NEW bufs, NEW ctx
  PROVE  /\ Grows(v, [v EXCEPT !.bufs = bufs]) /\ Grows(v, [v EXCEPT !.ctx = ctx])
         /\ Grows(v, [v EXCEPT !.ctx = ctx, !.bufs = bufs])
         /\ \A yes : Grows(v, [v EXCEPT !.wroteLST = yes])
<1>1. Grows(v, [v EXCEPT !.bufs = bufs])
  BY SameGrows DEF Labelled, Fields
<1>2. Grows(v, [v EXCEPT !.ctx = ctx])
  BY SameGrows DEF Labelled, Fields
<1>3. Grows(v, [v EXCEPT !.ctx = ctx, !.bufs = bufs])
  <2> DEFINE u == [v EXCEPT !.ctx = ctx, !.bufs = bufs]
  <2>1. /\ DOMAIN u = Fields /\ u.given = v.given /\ u.tbl = v.tbl
        /\ u.fieldName = v.fieldName /\ u.annotations = v.annotations
    BY DEF Labelled, Fields
  <2> HIDE DEF u
  <2>2. Grows(v, u)
    BY <2>1, SameGrows DEF Labelled
  <2> QED BY <2>2 DEF u
<1>4. ASSUME NEW yes
      PROVE  Grows(v, [v EXCEPT !.wroteLST = yes])
  BY SameGrows DEF Labelled, Fields
<1> QED BY <1>1, <1>2, <1>3, <1>4

\* To write the table leaves it alone,
LEMMA WriteLSTGrows ==
  ASSUME NEW v, Labelled(v)
  PROVE  Grows(v, WriteLST(v))
<1> DEFINE x == Write(v, Bvm)
           y == Write(x, TableAtom(v.tbl))
<1>1. WriteLST(v) = x \/ WriteLST(v) = Store(y)
  BY DEF WriteLST
<1>2. Grows(v, x)
  BY WriteGrows
<1> HIDE DEF x
<1>3. Grows(x, y)
  BY <1>2, WriteGrows DEF Grows
<1> HIDE DEF y
<1>4. Grows(y, Store(y))
  BY <1>3, ReturnGrows DEF Grows
<1>5. Grows(v, y)
  BY <1>2, <1>3, GrowsOn
<1>6. Grows(v, Store(y))
  BY <1>4, <1>5, GrowsOn
<1> QED BY <1>1, <1>2, <1>6

\* and so does the step of beginValue that does.
LEMMA BeginTableGrows ==
  ASSUME NEW v, Labelled(v)
  PROVE  Grows(v, BeginTable(v))
<1> DEFINE x == [v EXCEPT !.wroteLST = TRUE]
<1>1. BeginTable(v) = WriteLST(x) \/ BeginTable(v) = v
  BY DEF BeginTable
<1>2. Grows(v, x)
  BY OthersGrow
<1> HIDE DEF x
<1>3. Grows(x, WriteLST(x))
  BY <1>2, WriteLSTGrows DEF Grows
<1>4. Grows(v, WriteLST(x))
  BY <1>2, <1>3, GrowsOn
<1> QED BY <1>1, <1>4, ReturnGrows

\* A field name may grow the table,
LEMMA BeginNameGrows ==
  ASSUME NEW v, Labelled(v), NEW name, IsToken(name)
  PROVE  Grows(v, BeginName(v, name))
<1> DEFINE r == ResolveName(v, name)
           x == [v EXCEPT !.tbl = r.tbl]
           y == Write(x, FieldAtom(r.id, r.text))
<1>1. BeginName(v, name) = v \/ BeginName(v, name) = Return(v, "usage") \/ BeginName(v, name) = y
  BY DEF BeginName, WriteFieldName, WriteName
<1>2. Grown(v.given, v.tbl, r.tbl)
  BY ResolveNameFinds DEF Finds, Labelled, Tabled
<1> HIDE DEF r
<1>3. Grows(v, x)
  BY <1>2, TableGrows
<1> HIDE DEF x
<1>4. Grows(x, y)
  BY <1>3, WriteGrows DEF Grows
<1> HIDE DEF y
<1>5. Grows(v, y)
  BY <1>3, <1>4, GrowsOn
<1> QED BY <1>1, <1>5, ReturnGrows

\* and so may annotations, even when one of them fails.
LEMMA BeginMarksGrows ==
  ASSUME NEW v, Labelled(v), NEW marks, AreTokens(marks)
  PROVE  Grows(v, BeginMarks(v, marks))
<1> DEFINE r == ResolveMarks(v, marks)
           x == [v EXCEPT !.tbl = r.tbl]
           y == [x EXCEPT !.bufs = Append(@, Buffer(Wrapper))]
           z == Write(y, AnnotationAtom(r.ids, r.texts))
<1>1. BeginMarks(v, marks) = v \/ BeginMarks(v, marks) = Return(x, "usage") \/ BeginMarks(v, marks) = z
  BY DEF BeginMarks, WriteAnnotations, WriteMarks
<1>2. Grown(v.given, v.tbl, r.tbl)
  BY ResolveMarksFinds DEF FindsAll, Labelled, Tabled
<1> HIDE DEF r
<1>3. Grows(v, x)
  BY <1>2, TableGrows
<1> HIDE DEF x
<1>4. Grows(x, y) /\ Grows(x, Return(x, "usage"))
  BY <1>3, OthersGrow, ReturnGrows DEF Grows
<1> HIDE DEF y
<1>5. Grows(y, z)
  BY <1>4, WriteGrows DEF Grows
<1> HIDE DEF z
<1>6. Grows(v, y) /\ Grows(v, Return(x, "usage"))
  BY <1>3, <1>4, GrowsOn
<1>7. Grows(v, z)
  BY <1>5, <1>6, GrowsOn
<1> QED BY <1>1, <1>6, <1>7, ReturnGrows

\* beginValue grows the table,
LEMMA BeginValueGrows ==
  ASSUME NEW v, Labelled(v)
  PROVE  Grows(v, BeginValue(v))
<1> DEFINE v0 == Clear(v)
           v1 == Return(v0, "nil")
           v2 == BeginTable(v1)
           v3 == BeginName(v2, v.fieldName)
           v4 == BeginMarks(v3, v.annotations)
<1>1. BeginValue(v) = v4
  BY DEF BeginValue
<1>2. Grows(v, v0)
  BY ClearGrows
<1> HIDE DEF v0
<1>3. Grows(v, v1)
  BY <1>2, ReturnGrows, GrowsOn DEF Grows
<1> HIDE DEF v1
<1>4. Grows(v, v2)
  BY <1>3, BeginTableGrows, GrowsOn DEF Grows
<1> HIDE DEF v2
<1>5. Grows(v, v3)
  BY <1>4, BeginNameGrows, GrowsOn DEF Grows, Labelled
<1> HIDE DEF v3
<1>6. Grows(v, v4)
  BY <1>5, BeginMarksGrows, GrowsOn DEF Grows, Labelled
<1> HIDE DEF v4
<1> QED BY <1>1, <1>6

\* endValue leaves it alone,
LEMMA PopAndEmitGrows ==
  ASSUME NEW v, Labelled(v)
  PROVE  Grows(v, PopAndEmit(v)) /\ Grows(v, EndValue(v))
<1> DEFINE b == Top(v.bufs)
           x == [v EXCEPT !.bufs = Pop(@)]
           u == PopAndEmit(v)
<1>1. u = Emit(x, NodeAtoms(b), NodeLen(b))
  BY DEF PopAndEmit
<1>2. Grows(v, x)
  BY OthersGrow
<1> HIDE DEF x, u
<1>3. Grows(x, u)
  BY <1>1, <1>2, EmitGrows DEF Grows
<1>4. Grows(v, u)
  BY <1>2, <1>3, GrowsOn
<1>5. EndValue(v) = u \/ EndValue(v) = Return(v, "nil")
  BY DEF EndValue, u
<1> QED BY <1>4, <1>5, ReturnGrows DEF u

\* a value grows it
LEMMA WriteValueGrows ==
  ASSUME NEW v, Labelled(v), NEW A
  PROVE  Grows(v, WriteValue(v, A))
<1> DEFINE b == BeginValue(v)
           e == EmitNext(b, A)
           x == EndNext(e)
<1>1. WriteValue(v, A) = Return(v, v.err) \/ WriteValue(v, A) = Store(x)
  BY DEF WriteValue
<1>2. Grows(v, b)
  BY BeginValueGrows
<1> HIDE DEF b
<1>3. Grows(b, e)
  BY <1>2, EmitGrows, ReturnGrows DEF Grows, EmitNext
<1> HIDE DEF e
<1>4. Grows(v, e)
  BY <1>2, <1>3, GrowsOn
<1>5. Grows(e, x)
  BY <1>4, PopAndEmitGrows, ReturnGrows DEF Grows, EndNext
<1> HIDE DEF x
<1>6. Grows(v, x)
  BY <1>4, <1>5, GrowsOn
<1>7. Grows(v, Store(x))
  BY <1>6, ReturnGrows, GrowsOn DEF Grows
<1> QED BY <1>1, <1>7, ReturnGrows

\* and so does the begin of a container.
LEMMA BeginGrows ==
  ASSUME NEW v, Labelled(v), NEW c
  PROVE  Grows(v, Begin(v, c))
<1> DEFINE b == BeginValue(v)
           x == [b EXCEPT !.ctx = Append(@, c), !.bufs = Append(@, Buffer(CodeOf[c]))]
<1>1. Begin(v, c) = Return(v, v.err) \/ Begin(v, c) = Store(b) \/ Begin(v, c) = Store(x)
  BY DEF Begin, EnterNext
<1>2. Grows(v, b)
  BY BeginValueGrows
<1> HIDE DEF b
<1>3. Grows(b, x)
  BY <1>2, OthersGrow DEF Grows
<1> HIDE DEF x
<1>4. Grows(v, x)
  BY <1>2, <1>3, GrowsOn
<1>5. Grows(v, Store(b)) /\ Grows(v, Store(x))
  BY <1>2, <1>4, ReturnGrows, GrowsOn DEF Grows
<1> QED BY <1>1, <1>5, ReturnGrows

\* The end of a container leaves the table alone,
LEMMA EndGrows ==
  ASSUME NEW v, Labelled(v), NEW c
  PROVE  Grows(v, End(v, c))
<1> DEFINE r  == Return(v, "usage")
           v1 == IF v.bufs # << >> THEN PopAndEmit(v) ELSE Return(v, "nil")
           v2 == Clear(v1)
           v3 == [v2 EXCEPT !.ctx = Pop(@)]
           v4 == EndValue(v3)
<1>1. End(v, c) = Return(v, v.err) \/ End(v, c) = Store(r) \/ End(v, c) = Store(v1) \/ End(v, c) = Store(v4)
  BY DEF End
<1>2. Grows(v, v1) /\ Grows(v, r)
  BY PopAndEmitGrows, ReturnGrows
<1> HIDE DEF v1, r
<1>3. Grows(v, v2)
  BY <1>2, ClearGrows, GrowsOn DEF Grows
<1> HIDE DEF v2
<1>4. Grows(v2, v3)
  BY <1>3, OthersGrow DEF Grows
<1> HIDE DEF v3
<1>5. Grows(v, v3)
  BY <1>3, <1>4, GrowsOn
<1>6. Grows(v3, v4)
  BY <1>5, PopAndEmitGrows DEF Grows
<1> HIDE DEF v4
<1>7. Grows(v, v4)
  BY <1>5, <1>6, GrowsOn
<1>8. Grows(v, Store(r)) /\ Grows(v, Store(v1)) /\ Grows(v, Store(v4))
  BY <1>2, <1>7, ReturnGrows, GrowsOn DEF Grows
<1> QED BY <1>1, <1>8, ReturnGrows

\* and so does Finish.
LEMMA FinishGrows ==
  ASSUME NEW v, Labelled(v)
  PROVE  Grows(v, Finish(v))
<1> DEFINE v0  == Clear(v)
           v1  == [v0 EXCEPT !.wroteLST = FALSE]
           b   == Top(v.bufs)
           v2  == [v1 EXCEPT !.bufs = Pop(@)]
           x   == WriteLST(v2)
           y   == Emit(x, NodeAtoms(b), NodeLen(b))
<1>1. \/ Finish(v) = Return(v, v.err) \/ Finish(v) = Return(v, "usage")
      \/ Finish(v) = Return(v1, "nil") \/ Finish(v) = Return(v2, "panic")
      \/ Finish(v) = x \/ Finish(v) = Store(y)
  BY DEF Finish
<1>2. Grows(v, v0)
  BY ClearGrows
<1> HIDE DEF v0
<1>3. Grows(v0, v1)
  BY <1>2, OthersGrow DEF Grows
<1> HIDE DEF v1
<1>4. Grows(v, v1)
  BY <1>2, <1>3, GrowsOn
<1>5. Grows(v1, v2)
  BY <1>4, OthersGrow DEF Grows
<1> HIDE DEF v2
<1>6. Grows(v, v2)
  BY <1>4, <1>5, GrowsOn
<1>7. Grows(v2, x)
  BY <1>6, WriteLSTGrows DEF Grows
<1> HIDE DEF x
<1>8. Grows(v, x)
  BY <1>6, <1>7, GrowsOn
<1>9. Grows(x, y)
  BY <1>8, EmitGrows DEF Grows
<1> HIDE DEF y
<1>10. Grows(v, y)
  BY <1>8, <1>9, GrowsOn
<1>11. Grows(v, Return(v1, "nil")) /\ Grows(v, Return(v2, "panic")) /\ Grows(v, Store(y))
  BY <1>4, <1>6, <1>10, ReturnGrows, GrowsOn DEF Grows
<1> QED BY <1>1, <1>8, <1>11, ReturnGrows

\* The pending name is a token,
LEMMA FieldNameGrows ==
  ASSUME NEW v, Labelled(v), NEW name, IsToken(name)
  PROVE  Grows(v, FieldName(v, name))
<1> DEFINE u == [v EXCEPT !.fieldName = name, !.ret = "nil"]
           r == Return(v, "usage")
<1>1. FieldName(v, name) = Return(v, v.err) \/ FieldName(v, name) = Store(r) \/ FieldName(v, name) = u
  BY DEF FieldName
<1>2. /\ DOMAIN u = Fields /\ u.given = v.given /\ u.tbl = v.tbl /\ u.fieldName = name
      /\ u.annotations = v.annotations
  BY DEF Labelled, Fields
<1> HIDE DEF u
<1>3. Grows(v, u)
  BY <1>2, SameGrows DEF Labelled
<1>4. Grows(v, r)
  BY ReturnGrows
<1> HIDE DEF r
<1>5. Grows(v, Store(r))
  BY <1>4, ReturnGrows, GrowsOn DEF Grows
<1> QED BY <1>1, <1>3, <1>5, ReturnGrows

\* and so are the annotations.
LEMMA AnnotationsGrow ==
  ASSUME NEW v, Labelled(v), NEW m, IsToken(m)
  PROVE  Grows(v, Annotations(v, <<m>>))
<1> DEFINE one   == <<m>>
           marks == v.annotations
           more  == marks \o one
           u     == [v EXCEPT !.annotations = more, !.ret = "nil"]
<1>1. Annotations(v, one) = Return(v, v.err) \/ Annotations(v, one) = u
  BY DEF Annotations
<1>2. IsStack(one) /\ Len(one) = 1 /\ one[1] = m
  BY Tuples
<1>3. IsStack(marks) /\ \A i \in 1 .. Len(marks) : IsToken(marks[i])
  BY DEF Labelled, AreTokens
<1> HIDE DEF one, marks
<1>4. /\ IsStack(more) /\ Len(marks) \in Nat /\ Len(more) = Len(marks) + 1
      /\ \A i \in 1 .. Len(marks) + 1 : more[i] = IF i <= Len(marks) THEN marks[i] ELSE one[i - Len(marks)]
  BY <1>2, <1>3, StackConcat, StackLen
<1>5. ASSUME NEW i \in 1 .. Len(marks) + 1
      PROVE  IsToken(more[i])
  <2>1. CASE i <= Len(marks)
    BY <1>3, <1>4, <2>1
  <2>2. CASE ~(i <= Len(marks))
    <3>1. i - Len(marks) = 1
      BY <1>4, <2>2
    <3>2. more[i] = m
      BY <1>2, <1>4, <2>2, <3>1
    <3> QED BY <3>2
  <2> QED BY <2>1, <2>2
<1> HIDE DEF more
<1>6. AreTokens(more)
  BY <1>4, <1>5 DEF AreTokens
<1>7. /\ DOMAIN u = Fields /\ u.given = v.given /\ u.tbl = v.tbl /\ u.fieldName = v.fieldName
      /\ u.annotations = more
  BY DEF Labelled, Fields
<1> HIDE DEF u
<1>8. Grows(v, u)
  BY <1>6, <1>7, SameGrows DEF Labelled
<1> QED BY <1>1, <1>8, ReturnGrows DEF one

\* The stored error is the one returned, whatever was stored before.
LEMMA WriteResolvedGrows ==
  ASSUME NEW v, Labelled(v), NEW r, Grown(v.given, v.tbl, r.tbl), NEW u, u = WriteResolved(v, r)
  PROVE  Grows(v, u) /\ u.err = u.ret
<1> DEFINE x == [v EXCEPT !.tbl = r.tbl]
           y == [x EXCEPT !.err = r.err]
           A == <<SymbolAtom(r.id, r.text)>>
<1>1. Grows(v, x)
  BY TableGrows
<1>2. y = [v EXCEPT !.tbl = r.tbl, !.err = r.err]
  OBVIOUS
<1>3. u = IF r.err # "nil" THEN Return(y, r.err) ELSE WriteValue(y, A)
  BY <1>2, Zenon DEF WriteResolved
<1> HIDE DEF x
<1>4. DOMAIN x = Fields
  BY <1>1 DEF Grows, Labelled
<1>5. DOMAIN y = Fields /\ y.err = r.err /\ Emitted(x, y)
  BY <1>4 DEF Emitted, Fields
<1> HIDE DEF y, A
<1>6. Grows(v, y)
  BY <1>1, <1>5, EmittedGrows, GrowsOn DEF Grows
<1>7. Grows(v, u)
  BY <1>3, <1>6, WriteValueGrows, ReturnGrows, GrowsOn DEF Grows
<1>8. u.err = u.ret
  <2>1. CASE r.err # "nil"
    BY <1>3, <1>5, <2>1 DEF Return, Fields
  <2>2. CASE r.err = "nil"
    <3> DEFINE z == EndNext(EmitNext(BeginValue(y), A))
    <3>1. u = Store(z)
      BY <1>3, <1>5, <2>2 DEF WriteValue
    <3>2. DOMAIN z = Fields
      <4> DEFINE b == BeginValue(y)
                 e == EmitNext(b, A)
      <4>1. Labelled(b)
        BY <1>6, BeginValueGrows DEF Grows
      <4> HIDE DEF b
      <4>2. Labelled(e)
        BY <4>1, EmitGrows DEF Grows, EmitNext
      <4> HIDE DEF e
      <4>3. Labelled(EndNext(e))
        BY <4>2, PopAndEmitGrows DEF Grows, EndNext
      <4> QED BY <4>3 DEF Labelled, e, b
    <3> HIDE DEF z
    <3> QED BY <3>1, <3>2 DEF Store, Fields
  <2> QED BY <2>1, <2>2
<1> QED BY <1>7, <1>8
-----------------------------------------------------------------------------
(***************************************************************************)
(* A call, and what its caller has said.                                   *)
(***************************************************************************)
\* As long as no error is stored all that was said can be read, from the output
\* and the buffers; after an error the output still reads as its beginning.
Told(v, ev) ==
  /\ Labelled(v) /\ Begun(v, ev)
  /\ v.err = "nil" => Live(v, ev, "whole") /\ Even(v)

\* An error that is only returned changes nothing,
LEMMA ReturnTells ==
  ASSUME NEW v, NEW ev, Told(v, ev), v.err = "nil", NEW err, NEW u, u = Return(v, err)
  PROVE  Told(u, ev)
<1>1. /\ u.err = v.err /\ u.out = v.out /\ u.bufs = v.bufs /\ u.ctx = v.ctx /\ u.tbl = v.tbl
      /\ u.given = v.given /\ u.wroteLST = v.wroteLST
  BY DEF Told, Labelled, Return, Fields
<1>2. Tabled(v) /\ Grows(v, u)
  BY ReturnGrows DEF Told, Labelled
<1>3. OnTable(v, u) /\ Labelled(u)
  BY <1>2 DEF Grows
<1>4. Live(u, ev, "whole")
  BY <1>1, <1>2, <1>3, LiveStays DEF Told, Ready
<1>5. Begun(u, ev)
  BY <1>1, <1>2, <1>3, BegunStays DEF Told
<1>6. Even(u)
  BY <1>1 DEF Told, Even
<1> QED BY <1>3, <1>4, <1>5, <1>6 DEF Told

\* an outcome changes what was said with what is out,
LEMMA OutcomeTells ==
  ASSUME NEW v, NEW ev, Told(v, ev), v.err = "nil", NEW u, Grows(v, u),
         NEW F, IsStack(F), Outcome(v, u, F),
         NEW next, next = IF u.ret = "nil" \/ u.out # v.out THEN F ELSE ev
  PROVE  Told(u, next)
<1>1. Labelled(u) /\ OnTable(v, u) /\ Tabled(v)
  BY DEF Grows, Told, Labelled
<1>2. u.err = u.ret /\ Comes(u, F, "whole") /\ (u.ret = "nil" /\ Even(v) => Even(u))
  BY DEF Outcome
<1>3. CASE u.ret = "nil"
  <2>1. Live(u, F, "whole") /\ next = F
    BY <1>2, <1>3 DEF Comes
  <2>2. Begun(u, F)
    BY <2>1, LiveBegun
  <2>3. Even(u)
    BY <1>2, <1>3 DEF Told
  <2> QED BY <1>1, <2>1, <2>2, <2>3 DEF Told
<1>4. CASE u.ret # "nil" /\ u.out # v.out
  <2>1. Begun(u, F) /\ next = F
    BY <1>2, <1>4 DEF Comes
  <2> QED BY <1>1, <1>2, <1>4, <2>1 DEF Told
<1>5. CASE u.ret # "nil" /\ u.out = v.out
  <2>1. Begun(u, ev) /\ next = ev
    BY <1>1, <1>5, BegunStays DEF Told
  <2> QED BY <1>1, <1>2, <1>5, <2>1 DEF Told
<1> QED BY <1>3, <1>4, <1>5

\* and a writer with an error stays where it is.
LEMMA ErrorTells ==
  ASSUME NEW v, NEW ev, Told(v, ev), v.err # "nil", NEW u, Grows(v, u), u.err = v.err, u.out = v.out
  PROVE  Told(u, ev)
<1>1. Labelled(u) /\ OnTable(v, u) /\ Tabled(v)
  BY DEF Grows, Told, Labelled
<1>2. Begun(u, ev)
  BY <1>1, BegunStays DEF Told
<1> QED BY <1>1, <1>2 DEF Told

\* The inductive invariant, together with IInv, LInv and Placed(w).
MInv == kept => Told(w, said)

\* What a method does to a writer that has been told ev, to be told F.
Does(v, u, ev, F) ==
  /\ Grows(v, u)
  /\ v.err = "nil" =>
       u = Return(v, "usage") \/ (u.ret = "io" /\ u.err # "io") \/ Outcome(v, u, F)
  /\ v.err # "nil" /\ u.err = v.err => u.ret # "nil"

\* A call that does its part keeps the invariant, as the caller saw it go.
LEMMA CallTells ==
  ASSUME MInv, NEW u, NEW more, IsStack(more), Call(u, more),
         kept => Does(w, u, said, said \o more)
  PROVE  MInv'
<1> SUFFICES ASSUME kept' PROVE Told(w', said')
  BY DEF MInv
<1> DEFINE F == said \o more
<1>1. /\ kept /\ w' = u
      /\ w.err # "nil" => u.err = w.err /\ u.out = w.out
      /\ u.ret = "io" => u.err = "io"
  BY DEF Call
<1>2. said' = IF u.ret = "nil" \/ u.out # w.out THEN F ELSE said
  BY DEF Call
<1>3. Told(w, said) /\ Does(w, u, said, F)
  BY <1>1 DEF MInv
<1>4. IsStack(said) /\ IsStack(F) /\ Grows(w, u)
  BY <1>3, StackConcat DEF Told, Begun, Does
<1> HIDE DEF F
<1>5. CASE w.err # "nil"
  <2>1. u.err = w.err /\ u.out = w.out /\ u.ret # "nil"
    BY <1>1, <1>3, <1>5 DEF Does
  <2>2. said' = said
    BY <1>2, <2>1
  <2>3. Told(u, said)
    BY <1>3, <1>4, <1>5, <2>1, ErrorTells
  <2> QED BY <1>1, <2>2, <2>3
<1>6. CASE w.err = "nil" /\ u = Return(w, "usage")
  <2>1. u.ret = "usage" /\ u.out = w.out
    BY <1>3, <1>6 DEF Told, Labelled, Return, Fields
  <2>2. said' = said
    BY <1>2, <2>1
  <2>3. Told(u, said)
    BY <1>3, <1>6, ReturnTells
  <2> QED BY <1>1, <2>2, <2>3
<1>7. CASE w.err = "nil" /\ Outcome(w, u, F)
  <2> DEFINE next == IF u.ret = "nil" \/ u.out # w.out THEN F ELSE said
  <2>1. Told(u, next)
    BY <1>3, <1>4, <1>7, OutcomeTells
  <2> QED BY <1>1, <1>2, <2>1
<1> QED BY <1>1, <1>3, <1>5, <1>6, <1>7 DEF Does
-----------------------------------------------------------------------------
(***************************************************************************)
(* What every call does.                                                   *)
(***************************************************************************)
\* A writer between two calls.
Resting(v, ev) == Closed(v) /\ Sound(v) /\ Placed(v) /\ Told(v, ev)

\* A writer at rest can write.
LEMMA RestingWrites ==
  ASSUME NEW v, NEW ev, Resting(v, ev)
  PROVE  /\ v.err = "nil" => Writing(v, ev) /\ Even(v)
         /\ Labelled(v) /\ IsStack(ev) /\ IsTableOf(v.given, v.tbl) /\ v.given \in BOOLEAN
BY DEF Resting, Told, Writing, Labelled, Begun, Tabled

\* A stored error is returned again.
LEMMA ReturnsError ==
  ASSUME NEW v, Labelled(v), v.err # "nil"
  PROVE  Return(v, v.err).ret # "nil"
BY DEF Labelled, Return, Fields

\* Each of the calls does its part: a value,
LEMMA WriteValueDoes ==
  ASSUME NEW v, NEW ev, Resting(v, ev), NEW A, NEW E, Value(v.tbl, A, E, "whole"),
         NEW u, u = WriteValue(v, A)
  PROVE  Does(v, u, ev, ev \o (PrefixOf(v) \o E))
<1>1. Grows(v, u)
  BY RestingWrites, WriteValueGrows
<1>2. ASSUME v.err = "nil"
      PROVE  Outcome(v, u, ev \o (PrefixOf(v) \o E))
  BY <1>2, RestingWrites, WriteValueLive
<1>3. ASSUME v.err # "nil"
      PROVE  u.ret # "nil"
  <2>1. u = Return(v, v.err)
    BY <1>3 DEF WriteValue
  <2> QED BY <1>3, <2>1, RestingWrites, ReturnsError
<1> QED BY <1>1, <1>2, <1>3 DEF Does

\* a symbol that was looked up, which overwrites the stored error,
LEMMA WriteResolvedDoes ==
  ASSUME NEW v, NEW ev, Resting(v, ev), NEW r, Finds(v.given, v.tbl, r), NEW u, u = WriteResolved(v, r)
  PROVE  Does(v, u, ev, ev \o (PrefixOf(v) \o <<[e |-> "symbol", name |-> Seen(r)]>>))
<1>1. Grows(v, u) /\ u.err = u.ret
  BY RestingWrites, WriteResolvedGrows DEF Finds
<1>2. ASSUME v.err = "nil"
      PROVE  Outcome(v, u, ev \o (PrefixOf(v) \o <<[e |-> "symbol", name |-> Seen(r)]>>))
  BY <1>2, RestingWrites, WriteResolvedLive
<1> QED BY <1>1, <1>2 DEF Does

\* The event of a token.
TokenEvent(tok) ==
  [e |-> "symbol", name |-> IF tok.sid # SymbolIDUnknown THEN [id |-> tok.sid] ELSE [text |-> tok.text]]

\* a symbol token,
LEMMA WriteSymbolDoes ==
  ASSUME NEW v, NEW ev, Resting(v, ev), NEW tok, IsToken(tok), NEW u, u = WriteSymbol(v, tok)
  PROVE  Does(v, u, ev, ev \o (PrefixOf(v) \o <<TokenEvent(tok)>>))
<1> DEFINE F == ev \o (PrefixOf(v) \o <<TokenEvent(tok)>>)
<1>1. ASSUME v.err = "nil"
      PROVE  u = Return(v, "usage") \/ Outcome(v, u, F)
  BY <1>1, RestingWrites, WriteSymbolLive DEF TokenEvent
<1> HIDE DEF F
<1>2. CASE tok.sid # SymbolIDUnknown
  <2>1. u = WriteValue(v, <<SymbolAtom(tok.sid, NoText)>>)
    BY <1>2 DEF WriteSymbol
  <2>2. Grows(v, u)
    BY <2>1, RestingWrites, WriteValueGrows
  <2>3. ASSUME v.err # "nil"
        PROVE  u.ret # "nil"
    <3>1. u = Return(v, v.err)
      BY <2>1, <2>3 DEF WriteValue
    <3> QED BY <2>3, <3>1, RestingWrites, ReturnsError
  <2>4. Does(v, u, ev, F)
    BY <1>1, <2>2, <2>3 DEF Does
  <2> QED BY <2>4 DEF F
<1>3. CASE ~(tok.sid # SymbolIDUnknown) /\ tok.text # NoText
  <2>1. u = WriteResolved(v, ResolveFromTable(v, tok.text)) /\ tok.text \in Text
    BY <1>3 DEF WriteSymbol, IsToken
  <2>2. Finds(v.given, v.tbl, ResolveFromTable(v, tok.text))
    BY <2>1, RestingWrites, ResolveFromTableFinds
  <2>3. Grows(v, u) /\ u.err = u.ret
    BY <2>1, <2>2, RestingWrites, WriteResolvedGrows DEF Finds
  <2>4. Does(v, u, ev, F)
    BY <1>1, <2>3 DEF Does
  <2> QED BY <2>4 DEF F
<1>4. CASE ~(tok.sid # SymbolIDUnknown) /\ ~(tok.text # NoText)
  <2>1. u = Return(v, "usage")
    BY <1>4 DEF WriteSymbol
  <2>2. Grows(v, u)
    BY <2>1, RestingWrites, ReturnGrows
  <2>3. u.ret = "usage"
    BY <2>1, RestingWrites DEF Labelled, Return, Fields
  <2>4. Does(v, u, ev, F)
    BY <2>1, <2>2, <2>3 DEF Does
  <2> QED BY <2>4 DEF F
<1> QED BY <1>2, <1>3, <1>4

\* the begin
LEMMA BeginDoes ==
  ASSUME NEW v, NEW ev, Resting(v, ev), NEW c \in Contexts, NEW u, u = Begin(v, c)
  PROVE  Does(v, u, ev, ev \o (PrefixOf(v) \o <<[e |-> "begin", c |-> c]>>))
<1>1. Grows(v, u)
  BY RestingWrites, BeginGrows
<1>2. v.ctx \in Seq(Contexts)
  BY DEF Resting, Closed, IsWriter
<1>3. ASSUME v.err = "nil"
      PROVE  Outcome(v, u, ev \o (PrefixOf(v) \o <<[e |-> "begin", c |-> c]>>))
  BY <1>2, <1>3, RestingWrites, BeginLive
<1>4. ASSUME v.err # "nil"
      PROVE  u.ret # "nil"
  <2>1. u = Return(v, v.err)
    BY <1>4 DEF Begin
  <2> QED BY <1>4, <2>1, RestingWrites, ReturnsError
<1> QED BY <1>1, <1>3, <1>4 DEF Does

\* and the end of a container,
LEMMA EndDoes ==
  ASSUME NEW v, NEW ev, Resting(v, ev), NEW c, NEW u, u = End(v, c)
  PROVE  Does(v, u, ev, ev \o <<[e |-> "end"]>>)
<1>1. Grows(v, u)
  BY RestingWrites, EndGrows
<1>2. ASSUME v.err = "nil"
      PROVE  Outcome(v, u, ev \o <<[e |-> "end"]>>)
  BY <1>2, RestingWrites, EndLive DEF Resting
<1>3. ASSUME v.err # "nil"
      PROVE  u.ret # "nil"
  <2>1. u = Return(v, v.err)
    BY <1>3 DEF End
  <2> QED BY <1>3, <2>1, RestingWrites, ReturnsError
<1> QED BY <1>1, <1>2, <1>3 DEF Does

\* Finish,
LEMMA FinishDoes ==
  ASSUME NEW v, NEW ev, Resting(v, ev), NEW u, u = Finish(v)
  PROVE  Does(v, u, ev, ev)
<1>1. Grows(v, u)
  BY RestingWrites, FinishGrows
<1>2. ASSUME v.err = "nil"
      PROVE  u = Return(v, "usage") \/ (u.ret = "io" /\ u.err # "io") \/ Outcome(v, u, ev)
  BY <1>2, RestingWrites, FinishLive DEF Resting
<1>3. ASSUME v.err # "nil"
      PROVE  u.ret # "nil"
  <2>1. u = Return(v, v.err)
    BY <1>3 DEF Finish
  <2> QED BY <1>3, <2>1, RestingWrites, ReturnsError
<1> QED BY <1>1, <1>2, <1>3 DEF Does

\* a field name
LEMMA FieldNameDoes ==
  ASSUME NEW v, NEW ev, Resting(v, ev), NEW name, IsToken(name), NEW u, u = FieldName(v, name)
  PROVE  Does(v, u, ev, ev)
<1>1. Grows(v, u)
  BY RestingWrites, FieldNameGrows
<1>2. ASSUME v.err = "nil"
      PROVE  Outcome(v, u, ev)
  BY <1>2, RestingWrites, FieldNameLive
<1>3. ASSUME v.err # "nil"
      PROVE  u.ret # "nil"
  <2>1. u = Return(v, v.err)
    BY <1>3 DEF FieldName
  <2> QED BY <1>3, <2>1, RestingWrites, ReturnsError
<1> QED BY <1>1, <1>2, <1>3 DEF Does

\* and an annotation.
LEMMA AnnotationsDo ==
  ASSUME NEW v, NEW ev, Resting(v, ev), NEW m, IsToken(m), NEW u, u = Annotations(v, <<m>>)
  PROVE  Does(v, u, ev, ev)
<1>1. Grows(v, u)
  BY RestingWrites, AnnotationsGrow
<1>2. ASSUME v.err = "nil"
      PROVE  Outcome(v, u, ev)
  BY <1>2, RestingWrites, AnnotationsLive
<1>3. ASSUME v.err # "nil"
      PROVE  u.ret # "nil"
  <2>1. u = Return(v, v.err)
    BY <1>3 DEF Annotations
  <2> QED BY <1>3, <2>1, RestingWrites, ReturnsError
<1> QED BY <1>1, <1>2, <1>3 DEF Does
-----------------------------------------------------------------------------
(***************************************************************************)
(* The invariant.                                                          *)
(***************************************************************************)
\* With nothing to be told.
LEMMA CallTellsNothing ==
  ASSUME MInv, NEW u, Call(u, << >>), kept => Does(w, u, said, said)
  PROVE  MInv'
<1> DEFINE none == << >>
<1>1. IsStack(none) /\ Call(u, none)
  BY Tuples
<1>2. ASSUME kept
      PROVE  Does(w, u, said, said \o none)
  <2>1. IsStack(said)
    BY <1>2 DEF MInv, Told, Begun
  <2>2. said \o none = said
    BY <2>1, ConcatNothing
  <2> HIDE DEF none
  <2> QED BY <1>2, <2>2
<1> HIDE DEF none
<1> QED BY <1>1, <1>2, CallTells

\* With a value, or the begin of one, to be told.
LEMMA CallTellsValue ==
  ASSUME MInv, NEW u, NEW e, Call(u, Prefix \o <<e>>),
         kept => Does(w, u, said, said \o (PrefixOf(w) \o <<e>>))
  PROVE  MInv'
<1> DEFINE more == PrefixOf(w) \o <<e>>
<1>1. IsStack(more)
  BY PrefixIsList, Tuples, StackConcat
<1>2. Call(u, more)
  BY PrefixIs
<1> HIDE DEF more
<1>3. kept => Does(w, u, said, said \o more)
  BY DEF more
<1> QED BY <1>1, <1>2, <1>3, CallTells

\* Every call keeps the invariant.
LEMMA NextMInv ==
  ASSUME IInv, LInv, Placed(w), MInv, [Next]_vars
  PROVE  MInv'
<1>1. kept => Resting(w, said)
  BY DEF IInv, LInv, MInv, Resting
<1>2. ASSUME NEW tok \in Names \cup Marks \cup Symbols
      PROVE  IsToken(tok)
  BY TokensAssumption DEF IsToken
<1>3. CASE CallFieldName
  <2>1. PICK n \in Names : Call(FieldName(w, n), << >>)
    BY <1>3 DEF CallFieldName
  <2>2. kept => Does(w, FieldName(w, n), said, said)
    BY <1>1, <1>2, FieldNameDoes
  <2> QED BY <2>1, <2>2, CallTellsNothing
<1>4. CASE CallAnnotations
  <2>1. PICK m \in Marks : Call(Annotations(w, <<m>>), << >>)
    BY <1>4 DEF CallAnnotations
  <2>2. kept => Does(w, Annotations(w, <<m>>), said, said)
    BY <1>1, <1>2, AnnotationsDo
  <2> QED BY <2>1, <2>2, CallTellsNothing
<1>5. CASE CallScalar
  <2>1. PICK s \in Scalars : Call(WriteValue(w, ScalarAtoms(s)), Prefix \o <<[e |-> "scalar", sizes |-> s]>>)
    BY <1>5 DEF CallScalar
  <2> DEFINE e == ScalarEvent(s)
             u == WriteValue(w, ScalarAtoms(s))
  <2>2. Call(u, Prefix \o <<e>>)
    BY <2>1 DEF ScalarEvent
  <2>3. Value(w.tbl, ScalarAtoms(s), <<e>>, "whole")
    BY ScalarValue
  <2>4. kept => Does(w, u, said, said \o (PrefixOf(w) \o <<e>>))
    BY <1>1, <2>3, WriteValueDoes
  <2> HIDE DEF e, u
  <2> QED BY <2>2, <2>4, CallTellsValue
<1>6. CASE CallSymbol
  <2>1. PICK t \in Symbols :
          Call(WriteSymbol(w, t),
               Prefix \o <<[e    |-> "symbol",
                            name |-> IF t.sid # SymbolIDUnknown THEN [id |-> t.sid]
                                     ELSE [text |-> t.text]]>>)
    BY <1>6 DEF CallSymbol
  <2> DEFINE e == TokenEvent(t)
             u == WriteSymbol(w, t)
  <2>2. Call(u, Prefix \o <<e>>)
    BY <2>1 DEF TokenEvent
  <2>3. kept => Does(w, u, said, said \o (PrefixOf(w) \o <<e>>))
    BY <1>1, <1>2, WriteSymbolDoes
  <2> HIDE DEF e, u
  <2> QED BY <2>2, <2>3, CallTellsValue
<1>7. CASE CallSymbolFromString
  <2>1. PICK s \in Strings :
          Call(WriteSymbolFromString(w, s), Prefix \o <<[e |-> "symbol", name |-> Seen(Resolve(w, s))]>>)
    BY <1>7 DEF CallSymbolFromString
  <2> DEFINE r == Resolve(w, s)
             e == [e |-> "symbol", name |-> Seen(r)]
             u == WriteResolved(w, r)
  <2>2. Call(u, Prefix \o <<e>>)
    BY <2>1 DEF WriteSymbolFromString
  <2>3. kept => Finds(w.given, w.tbl, r)
    BY <1>1, RestingWrites, TokensAssumption, ResolveFinds
  <2> HIDE DEF r
  <2>4. kept => Does(w, u, said, said \o (PrefixOf(w) \o <<e>>))
    BY <1>1, <2>3, WriteResolvedDoes
  <2> HIDE DEF e, u
  <2> QED BY <2>2, <2>4, CallTellsValue
<1>8. CASE CallBegin
  <2>1. PICK c \in Kinds : Call(Begin(w, c), Prefix \o <<[e |-> "begin", c |-> c]>>)
    BY <1>8 DEF CallBegin
  <2> DEFINE e == [e |-> "begin", c |-> c]
             u == Begin(w, c)
  <2>2. Call(u, Prefix \o <<e>>)
    BY <2>1
  <2>3. kept => Does(w, u, said, said \o (PrefixOf(w) \o <<e>>))
    BY <1>1, KindsAssumption, BeginDoes
  <2> HIDE DEF e, u
  <2> QED BY <2>2, <2>3, CallTellsValue
<1>9. CASE CallEnd
  <2>1. PICK c \in Kinds : Call(End(w, c), <<[e |-> "end"]>>)
    BY <1>9 DEF CallEnd
  <2> DEFINE more == <<[e |-> "end"]>>
             u    == End(w, c)
  <2>2. Call(u, more) /\ IsStack(more)
    BY <2>1, Tuples
  <2>3. kept => Does(w, u, said, said \o more)
    BY <1>1, EndDoes
  <2> HIDE DEF more, u
  <2> QED BY <2>2, <2>3, CallTells
<1>10. CASE CallFinish
  <2>1. Call(Finish(w), << >>)
    BY <1>10 DEF CallFinish
  <2>2. kept => Does(w, Finish(w), said, said)
    BY <1>1, FinishDoes
  <2> QED BY <2>1, <2>2, CallTellsNothing
<1>11. CASE UNCHANGED vars
  BY <1>11 DEF vars, MInv, Told, Labelled, Begun, Live, Even, Tabled, Based, Shipped, Collecting, Fits,
               Meets, Ready
<1> QED BY <1>3, <1>4, <1>5, <1>6, <1>7, <1>8, <1>9, <1>10, <1>11 DEF Next
-----------------------------------------------------------------------------
(***************************************************************************)
(* A new writer.                                                           *)
(***************************************************************************)
\* Every table that a writer imports is one that readers can find.
LEMMA ImportsOffered ==
  /\ IsStack(Imports) /\ \A i \in 1 .. Len(Imports) : Offered(Imports[i])
  /\ \A i \in 2 .. Len(Table.imports) : Offered(Table.imports[i])
<1>1. IsStack(Imports)
  BY ImportsAssumption DEF IsStack
<1>2. \A i \in 1 .. Len(Imports) : Importable(Imports[i]) /\ Imports[i] \in Catalog
  BY ImportableAssumption, Zenon DEF Catalog
<1>3. Len(Table.imports) \in Nat
  BY TableAssumption, LenProperties
<1>4. \A i \in 2 .. Len(Table.imports) : i \in 1 .. Len(Table.imports)
  BY <1>3
<1>5. \A i \in 2 .. Len(Table.imports) : Importable(Table.imports[i]) /\ Table.imports[i] \in Catalog
  BY <1>4, ImportableAssumption, Zenon DEF Catalog
<1> QED BY <1>1, <1>2, <1>5 DEF Offered

\* A new builder is a table that grows,
LEMMA BuilderIsTable == IsTableOf(FALSE, NewBuilder(Imports))
<1> DEFINE tbl  == NewBuilder(Imports)
           none == << >>
<1>1. AreImports(Imports)
  BY ImportsOffered, OfferedIs DEF AreImports
<1>2. IsBuilder(tbl)
  BY <1>1, NewBuilderIsBuilder
<1>3. ProcessImports(Imports) = Full(Imports)
  <2>1. CASE Imports = << >>
    BY <2>1, Zenon DEF ProcessImports, Full
  <2>2. CASE Imports # << >>
    <3>1. Len(Imports) \in Nat /\ Len(Imports) > 0
      BY <2>2, ImportsOffered, StackLen, EmptySeq DEF IsStack
    <3>2. Offered(Imports[1])
      BY <3>1, ImportsOffered
    <3>3. Imports[1].name # "$ion"
      BY <3>2, Zenon DEF Offered, Importable
    <3> QED BY <3>3, Zenon DEF ProcessImports, Full
  <2> QED BY <2>1, <2>2
<1>4. tbl.imports = Full(Imports)
  BY <1>3 DEF NewBuilder, NewLocalTable
<1>5. PICK n \in Nat : /\ n = Len(Imports) /\ Len(Full(Imports)) = n + 1 /\ Full(Imports)[1] = V1System
                       /\ \A i \in 1 .. n : Full(Imports)[i + 1] = Imports[i]
  BY <1>1, FullImports
<1> HIDE DEF tbl
<1>6. ASSUME NEW i \in 2 .. Len(tbl.imports)
      PROVE  Offered(tbl.imports[i])
  <2>1. i \in 2 .. n + 1
    BY <1>4, <1>5
  <2>2. PICK k \in 1 .. n : i = k + 1
    <3>1. i - 1 \in 1 .. n /\ i = (i - 1) + 1
      BY <2>1
    <3> QED BY <3>1
  <2>3. tbl.imports[i] = Imports[k]
    BY <1>4, <1>5, <2>2
  <2> QED BY <1>5, <2>3, ImportsOffered
<1>7. IsWritable(tbl)
  BY <1>2, <1>4, <1>5, <1>6, Zenon DEF IsWritable, IsBuilder
<1> QED BY <1>2, <1>7, Zenon DEF IsTableOf, tbl

\* and the one of NewBinaryWriterLST a table that can be read again.
LEMMA GivenIsTable == IsTableOf(TRUE, Table)
<1> DEFINE imps == Table.imports
<1>1. IsStack(imps) /\ imps[1] = V1System /\ imps # << >>
  BY TableAssumption DEF IsStack
<1>2. \A i \in 2 .. Len(imps) : Offered(imps[i])
  BY ImportsOffered
<1>3. AreImports(imps)
  <2> HIDE DEF imps
  <2>1. PICK n \in Nat : n = Len(imps)
    BY <1>1, StackLen
  <2>2. ASSUME NEW i \in 1 .. Len(imps)
        PROVE  IsShared(imps[i])
    <3>1. CASE i = 1
      BY <1>1, <3>1, V1SystemIsShared
    <3>2. CASE i # 1
      <4>1. i \in 2 .. Len(imps)
        BY <2>1, <3>2
      <4> QED BY <1>2, <4>1, OfferedIs
    <3> QED BY <3>1, <3>2
  <2> QED BY <1>1, <2>2 DEF AreImports
<1>4. IsTable(NewLocalTable(imps, Table.symbols))
  BY <1>3, TableAssumption, NewLocalTableIsTable
<1>5. IsTable(Table)
  BY <1>4, TableAssumption, Zenon
<1>6. IsWritable(Table)
  BY <1>1, <1>2, <1>5 DEF IsWritable
<1> QED BY <1>6, Zenon DEF IsTableOf

\* A new writer has a table and no tokens.
LEMMA NewLabelled ==
  ASSUME NEW v, DOMAIN v = Fields, v.fieldName = NoName, v.annotations = << >>,
         v.given \in BOOLEAN, IsTableOf(v.given, v.tbl)
  PROVE  Labelled(v)
BY NoTokens DEF Labelled, Tabled

\* Nothing was said to a new writer, neither to one that collects its symbols
LEMMA NewBuilderTold ==
  ASSUME NEW fault, NEW v, v = NewWriter(FALSE, NewBuilder(Imports), <<Buffer(Datagram)>>, fault)
  PROVE  Told(v, << >>)
<1> DEFINE t    == NewBuilder(Imports)
           b    == Buffer(Datagram)
           bufs == <<b>>
           none == << >>
<1>1. IsTableOf(FALSE, t)
  BY BuilderIsTable
<1>2. b.code = Datagram /\ b.atoms = none
  BY DEF Buffer
<1>3. IsStack(none) /\ none \o none = none /\ none = << >>
  BY Tuples, ConcatNothing
<1>4. IsStack(bufs) /\ Len(bufs) = 1 /\ Top(bufs) = b /\ bufs[1] = b /\ bufs # << >>
  BY Tuples DEF Top
<1>5. Containing(bufs) = 0
  <2>1. Mirrors(bufs, << >>) /\ Len(<< >>) = 0
    BY MirrorsDatagram
  <2> HIDE DEF b, bufs
  <2>2. bufs[1].code = Datagram /\ 1 \in 1 .. Len(bufs)
    BY <1>2, <1>4
  <2> QED BY <2>1, <2>2 DEF Mirrors, Containing
<1>6. IsOutput(none) /\ Decode(none) = Start
  BY DecodeNothing
<1>7. Reads(t, none, none, "whole")
  BY ReadsNothing
<1>8. v = NewWriter(FALSE, t, bufs, fault)
  OBVIOUS
<1> HIDE DEF t, b, bufs
<1>9. /\ Labelled(v) /\ ~v.given /\ v.tbl = t /\ v.bufs = bufs /\ v.out = << >>
      /\ v.ctx = << >> /\ v.err = "nil" /\ ~v.wroteLST
  <2>1. /\ DOMAIN v = Fields /\ v.tbl = t /\ v.bufs = bufs /\ v.out = << >> /\ v.ctx = << >>
        /\ v.err = "nil" /\ v.fieldName = NoName /\ v.annotations = << >>
    BY <1>8 DEF NewWriter, Fields
  <2>2. v.given = FALSE /\ v.wroteLST = FALSE
    BY <1>8 DEF NewWriter
  <2>3. IsTableOf(v.given, v.tbl) /\ v.given \in BOOLEAN
    BY <1>1, <2>1, <2>2, Zenon
  <2>4. Labelled(v)
    BY <2>1, <2>3, NewLabelled
  <2> QED BY <2>1, <2>2, <2>4, Zenon
<1>10. Fits(v, Start)
  <2>1. MaxID(SystemTable) \in 0 .. MaxID(t)
    BY <1>1, SystemFits DEF IsTableOf
  <2> QED BY <1>9, <2>1 DEF Fits, Start
<1>11. Based(v, none)
  <2>1. Collecting(v)
    BY <1>2, <1>4, <1>9 DEF Collecting
  <2> QED BY <1>3, <1>6, <1>9, <1>10, <2>1 DEF Based
<1>12. Held(v.tbl, v.bufs, 0, none, none)
  <2> HIDE DEF none
  <2> DEFINE evs == [i \in {0} |-> none]
  <2>1. evs[0] = none
    OBVIOUS
  <2>2. Holding(v.tbl, v.bufs, evs, 0)
    BY DEF Holding
  <2> HIDE DEF evs
  <2> QED BY <1>3, <2>1, <2>2 DEF Held
<1>13. Adds(v.tbl, b, "whole", none, none)
  <2>1. Front(b.code) = none
    BY <1>2 DEF Front
  <2> HIDE DEF none
  <2>2. none = (none \o Front(b.code)) \o none
    BY <1>3, <2>1
  <2>3. Reads(v.tbl, b.atoms, none, "whole")
    BY <1>2, <1>7, <1>9
  <2> QED BY <1>3, <2>2, <2>3 DEF Adds
<1> HIDE DEF none
<1>14. Live(v, none, "whole")
  <2>1. IsStack(v.bufs) /\ Top(v.bufs) = b
    BY <1>4, <1>9, Zenon
  <2>2. Len(v.bufs) = 1
    BY <1>4, <1>9, Zenon
  <2>3. 0 \in Nat /\ 0 + 1 = 1
    OBVIOUS
  <2>4. Len(v.bufs) = 0 + 1
    BY <2>2, <2>3, Zenon
  <2> QED BY <1>11, <1>12, <1>13, <2>1, <2>3, <2>4, StackLive
<1>15. Begun(v, none)
  BY <1>14, LiveBegun
<1>16. Even(v)
  <2>1. Len(<< >>) = 0
    OBVIOUS
  <2> QED BY <1>5, <1>9, <2>1 DEF Even
<1>17. Told(v, none)
  BY <1>9, <1>14, <1>15, <1>16 DEF Told
<1> QED BY <1>17 DEF none

\* nor to one with a table.
LEMMA NewGivenTold ==
  ASSUME NEW fault, NEW v, v = NewWriter(TRUE, Table, << >>, fault)
  PROVE  Told(v, << >>)
<1> DEFINE none == << >>
<1>1. /\ Labelled(v) /\ v.given /\ v.tbl = Table /\ v.bufs = << >> /\ v.out = << >>
      /\ v.ctx = << >> /\ v.err = "nil" /\ ~v.wroteLST
  <2>1. /\ DOMAIN v = Fields /\ v.tbl = Table /\ v.bufs = << >> /\ v.out = << >> /\ v.ctx = << >>
        /\ v.err = "nil" /\ v.fieldName = NoName /\ v.annotations = << >>
    BY DEF NewWriter, Fields
  <2>2. v.given = TRUE /\ v.wroteLST = FALSE
    BY DEF NewWriter
  <2>3. IsTableOf(v.given, v.tbl) /\ v.given \in BOOLEAN
    BY GivenIsTable, <2>1, <2>2, Zenon
  <2>4. Labelled(v)
    BY <2>1, <2>3, NewLabelled
  <2> QED BY <2>1, <2>2, <2>4, Zenon
<1>2. IsStack(none) /\ IsOutput(none) /\ Decode(none) = Start
  BY Tuples, DecodeNothing
<1>3. Start = At(none, Start.tbl, none)
  BY DEF Start, At
<1>4. ~Collecting(v) /\ ~Ready(v) /\ Fits(v, Start)
  BY <1>1 DEF Collecting, Ready, Fits
<1>5. Based(v, none)
  BY <1>1, <1>2, <1>3, <1>4 DEF Based, Meets
<1>6. Live(v, none, "whole")
  BY <1>1, <1>2, <1>5 DEF Live
<1>7. Even(v)
  <2>1. Len(<< >>) = 0
    OBVIOUS
  <2> QED BY <1>1, <2>1, NothingContained DEF Even
<1> HIDE DEF none
<1>8. Begun(v, none)
  BY <1>6, LiveBegun
<1>9. Told(v, none)
  BY <1>1, <1>6, <1>7, <1>8 DEF Told
<1> QED BY <1>9 DEF none

\* The invariant holds of a new writer,
LEMMA InitMInv == Init => MInv
<1> SUFFICES ASSUME Init PROVE MInv
  OBVIOUS
<1>1. PICK fault \in Faults :
        \/ w = NewWriter(FALSE, NewBuilder(Imports), <<Buffer(Datagram)>>, fault)
        \/ w = NewWriter(TRUE, Table, << >>, fault)
  BY DEF Init
<1>2. said = << >>
  BY DEF Init
<1>3. Told(w, << >>)
  BY <1>1, NewBuilderTold, NewGivenTold
<1> QED BY <1>2, <1>3 DEF MInv

\* so it always holds.
LEMMA ToldAlways == Spec => []MInv
<1>1. Init => MInv
  BY InitMInv
<1>2. MInv /\ Placed(w) /\ LInv /\ IInv /\ [Next]_vars => MInv'
  BY NextMInv
<1>3. Init => Placed(w)
  BY InitPlaced
<1>4. Placed(w) /\ IInv /\ [Next]_vars => Placed(w)'
  BY NextPlaced
<1> QED BY <1>1, <1>2, <1>3, <1>4, Invariant, SoundAlways, PTL DEF Spec
-----------------------------------------------------------------------------
(***************************************************************************)
(* The theorems.                                                           *)
(***************************************************************************)
\* For every table, every value and wherever Write fails: as long as no error was
\* forgotten, the whole atoms of the output read as the beginning of what the caller
\* said.  No value is lost from the middle or read under another container or name
\* (binarywriter.go, buf.go: the buffers that hold back what is said).
THEOREM OutputLeads == Spec => []OutputIsPrefix
<1>1. MInv => OutputIsPrefix
  <2> SUFFICES ASSUME MInv, kept PROVE Begins(Decode(Whole(w.out)))
    BY DEF OutputIsPrefix
  <2> DEFINE d == Decode(Whole(w.out))
  <2> HIDE DEF d
  <2>1. AllShipped(d) => Shipped(w, d)
    BY DEF AllShipped, Shipped
  <2>2. Shipped(w, d) => Reached(d, said)
    BY DEF MInv, Told, Begun, d
  <2>3. ASSUME Reached(d, said)
        PROVE  d.ok /\ Len(d.events) <= Len(said) /\ d.events = SubSeq(said, 1, Len(d.events))
    BY <2>3, LeadsIsPart DEF Reached
  <2>4. Begins(d)
    BY <2>1, <2>2, <2>3 DEF Begins
  <2> QED BY <2>4 DEF d
<1> QED BY <1>1, ToldAlways, PTL

\* When no error is stored or was forgotten and nothing is buffered, a reader of the
\* output gets all that was said and nothing else, every name with its own text,
\* through the table in front of it (Finish, binarywriter.go:412, 491).
THEOREM ValuesAreRead == Spec => []WrittenIsRead
<1>1. MInv => WrittenIsRead
  <2> SUFFICES ASSUME MInv, w.err = "nil", kept, w.ctx = << >>, w.bufs = << >>
               PROVE  Decoded(Decode(w.out))
    BY DEF WrittenIsRead
  <2> DEFINE d == Decode(w.out)
  <2> HIDE DEF d
  <2>1. Based(w, said) /\ ~Collecting(w)
    BY DEF MInv, Told, Live, Collecting
  <2>2. Meets(w, d, said)
    BY <2>1 DEF Based, d
  <2>3. AllShipped(d) => Shipped(w, d)
    BY DEF AllShipped, Shipped
  <2>4. Shipped(w, d) => d = At(said, d.tbl, << >>)
    BY <2>2 DEF Meets
  <2>5. At(said, d.tbl, << >>).ok = TRUE /\ At(said, d.tbl, << >>).open = << >>
        /\ At(said, d.tbl, << >>).events = said
    BY DEF At
  <2>6. Decoded(d)
    BY <2>3, <2>4, <2>5 DEF Decoded, Delivered
  <2> QED BY <2>6 DEF d
<1> QED BY <1>1, ToldAlways, PTL
=============================================================================
