----------------------------- MODULE CopyProofs -----------------------------
(***************************************************************************)
(* Proofs about the error report of ion-go process: a failure is reported  *)
(* once, and what is reported did happen.                                  *)
(***************************************************************************)
EXTENDS Copy, Lemmas

\* Where the command is at its end (main.go): nothing follows.
Over == {"done", "stopped", "panic"}

Reports == [type : {"read", "write"}, loc : Nat, idx : Nat]
-----------------------------------------------------------------------------
(***************************************************************************)
(* Each failure once.                                                      *)
(***************************************************************************)
\* A report of failures in files before f, at indices up to n, in their order.
Ordered(r, f, n) ==
  /\ r \in Seq(Reports)
  /\ \A i \in 1 .. Len(r) : r[i].loc < f /\ r[i].idx <= n
  /\ \A i, j \in 1 .. Len(r) : i < j => r[i].loc < r[j].loc /\ r[i].idx <= r[j].idx

\* The invariant: while the command runs, the file it is in has no report yet.  The
\* one of Finish names a file behind the last, and the command is over.
InOrder ==
  /\ file \in Nat /\ idx \in Nat
  /\ Ordered(report, file + 1, idx)
  /\ pc \notin Over => Ordered(report, file, idx)

LEMMA InReport ==
  ASSUME NEW r \in Seq(Reports), NEW i \in 1 .. Len(r)
  PROVE  r[i].loc \in Nat /\ r[i].idx \in Nat
<1>1. r[i] \in Reports
  OBVIOUS
<1>2. QED
  BY <1>1 DEF Reports

\* What is in order stays so, of later files and indices.
LEMMA OrderedGrows ==
  ASSUME NEW r, NEW f \in Nat, NEW n \in Nat, Ordered(r, f, n)
  PROVE  Ordered(r, f + 1, n) /\ Ordered(r, f, n + 1)
<1>1. r \in Seq(Reports)
  BY DEF Ordered
<1>2. \A i \in 1 .. Len(r) : r[i].loc \in Nat /\ r[i].idx \in Nat
  BY <1>1, InReport
<1>3. \A i \in 1 .. Len(r) : r[i].loc < f + 1 /\ r[i].idx <= n + 1
  BY <1>2 DEF Ordered
<1>4. QED
  BY <1>3 DEF Ordered

\* One more report, of the file the command is in (ErrorReport.Append).
LEMMA OrderedAppend ==
  ASSUME NEW r, NEW f \in Nat, NEW n \in Nat, Ordered(r, f, n), NEW t \in {"read", "write"}
  PROVE  Ordered(Append(r, [type |-> t, loc |-> f, idx |-> n]), f + 1, n)
<1> DEFINE e == [type |-> t, loc |-> f, idx |-> n]
           s == Append(r, e)
<1>1. r \in Seq(Reports) /\ e \in Reports
  BY DEF Ordered, Reports
<1>2. s \in Seq(Reports) /\ Len(s) = Len(r) + 1 /\ s[Len(r) + 1] = e
      /\ \A i \in 1 .. Len(r) : s[i] = r[i]
  BY <1>1
<1>3. \A i \in 1 .. Len(s) : i \in 1 .. Len(r) \/ i = Len(r) + 1
  BY <1>1, <1>2
<1>4. e.loc = f /\ e.idx = n
  OBVIOUS
<1>5. \A i \in 1 .. Len(r) : /\ s[i].loc \in Nat /\ s[i].idx \in Nat
                             /\ s[i].loc < f /\ s[i].idx <= n
  BY <1>1, <1>2, InReport DEF Ordered
<1>6. Len(r) \in Nat
  BY <1>1
<1> HIDE DEF e, s
<1>7. \A i \in 1 .. Len(s) : s[i].loc < f + 1 /\ s[i].idx <= n
  BY <1>2, <1>3, <1>4, <1>5
<1>8. ASSUME NEW i \in 1 .. Len(s), NEW j \in 1 .. Len(s), i < j
      PROVE  s[i].loc < s[j].loc /\ s[i].idx <= s[j].idx
  <2>1. i \in 1 .. Len(r)
    BY <1>2, <1>6, <1>8
  <2>2. CASE j \in 1 .. Len(r)
    BY <1>2, <2>1, <2>2, <1>8 DEF Ordered
  <2>3. CASE j = Len(r) + 1
    BY <1>2, <1>4, <1>5, <2>1, <2>3
  <2>4. QED
    BY <1>3, <2>2, <2>3
<1>9. Ordered(s, f + 1, n)
  BY <1>2, <1>7, <1>8 DEF Ordered
<1>10. QED
  BY <1>9 DEF e, s

\* A file is left with one report of its own, or by a panic without.
LEMMA GivesUpOnce ==
  ASSUME InOrder, pc \notin Over, NEW t \in {"read", "write"}, GiveUp(t)
  PROVE  file' \in Nat /\ Ordered(report', file', idx)
<1>1. CASE errors
  <2>1. file' = file + 1 /\ report' = Append(report, [type |-> t, loc |-> file, idx |-> idx])
    BY <1>1 DEF GiveUp, Err
  <2>2. file \in Nat /\ idx \in Nat /\ Ordered(report, file, idx)
    BY DEF InOrder
  <2>3. Ordered(report', file + 1, idx)
    BY <2>1, <2>2, OrderedAppend, Zenon
  <2>4. QED
    BY <2>1, <2>2, <2>3
<1>2. CASE ~errors
  BY <1>2, OrderedGrows DEF InOrder, GiveUp
<1>3. QED
  BY <1>1, <1>2

\* What every step does to the report.
Reporting ==
  \/ file' = file /\ report' = report
  \/ file' = file + 1 /\ report' = report
  \/ \E t \in {"read", "write"} : GiveUp(t)

LEMMA CheckedReports ==
  ASSUME NEW label, Checked(label)
  PROVE  Reporting
<1>1. CASE w'.ret = "nil"
  BY <1>1 DEF Checked, Continue, NoReport, Reporting
<1>2. CASE w'.ret = "panic"
  BY <1>2 DEF Checked, Continue, NoReport, Reporting
<1>3. CASE w'.ret \notin {"nil", "panic"}
  BY <1>3 DEF Checked, Reporting
<1>4. QED
  BY <1>1, <1>2, <1>3

LEMMA ReportingInOrder ==
  ASSUME InOrder, pc \notin Over, Reporting, idx' \in {idx, idx + 1}
  PROVE  InOrder'
<1>1. CASE file' = file /\ report' = report
  BY <1>1, OrderedGrows DEF InOrder
<1>2. CASE file' = file + 1 /\ report' = report
  BY <1>2, OrderedGrows DEF InOrder
<1>3. CASE \E t \in {"read", "write"} : GiveUp(t)
  <2>1. file' \in Nat /\ Ordered(report', file', idx)
    BY <1>3, GivesUpOnce
  <2>2. QED
    BY <2>1, OrderedGrows DEF InOrder
<1>4. QED
  BY <1>1, <1>2, <1>3 DEF Reporting

\* Finish comes last, behind all files.
LEMMA FinishInOrder ==
  ASSUME InOrder, FinishOutput
  PROVE  InOrder'
<1>1. file \in Nat /\ idx \in Nat /\ Ordered(report, file, idx) /\ Ordered(report, file + 1, idx)
  BY DEF InOrder, FinishOutput, Over
<1>2. file' = file /\ idx' = idx /\ pc' \in Over
  BY DEF FinishOutput, Goto, Over
<1>3. report' \in {report, Append(report, Err("write"))}
  BY DEF FinishOutput
<1>4. Ordered(report', file + 1, idx)
  BY <1>1, <1>3, OrderedAppend DEF Err
<1>5. QED
  BY <1>1, <1>2, <1>4 DEF InOrder

LEMMA InOrderInit == Init => InOrder
  BY DEF Init, InOrder, Ordered, Over

LEMMA InOrderStep == InOrder /\ [Next]_vars => InOrder'
<1> SUFFICES ASSUME InOrder, [Next]_vars
             PROVE  InOrder'
  OBVIOUS
<1>1. CASE UNCHANGED vars
  BY <1>1 DEF InOrder, vars
<1>2. CASE Open \/ OpenFails
  BY <1>2, ReportingInOrder DEF Open, OpenFails, Over, Reporting, Continue, NoReport, Goto
<1>3. CASE NextValue
  BY <1>3, ReportingInOrder DEF NextValue, Over, Reporting, Continue, NoReport, Goto
<1>4. CASE NoMore
  BY <1>4, ReportingInOrder DEF NoMore, Over, Reporting, NoReport, Goto
<1>5. CASE ReadFails
  BY <1>5, ReportingInOrder DEF ReadFails, Over, Reporting
<1>6. CASE CopyScalar
  BY <1>6, ReportingInOrder DEF CopyScalar, Over, Reporting, Continue, NoReport, Goto
<1>7. CASE CopyUntypedNull
  BY <1>7, ReportingInOrder, CheckedReports DEF CopyUntypedNull, Over
<1>8. CASE CopyNull
  <2>1. file' = file /\ report' = report
    BY <1>8 DEF CopyNull, Continue, NoReport, Goto
  <2>2. QED
    BY <1>8, <2>1, ReportingInOrder DEF CopyNull, Over, Reporting
<1>9. CASE Enter
  BY <1>9, ReportingInOrder, CheckedReports DEF Enter, Over, Reporting, NoReport
<1>10. CASE EnterFails
  BY <1>10, ReportingInOrder DEF EnterFails, Over, Reporting
<1>11. CASE Leave
  BY <1>11, ReportingInOrder, CheckedReports DEF Leave, Over, Reporting, NoReport
<1>12. CASE LeaveFails
  BY <1>12, ReportingInOrder DEF LeaveFails, Over, Reporting
<1>13. CASE FinishOutput
  BY <1>13, FinishInOrder
<1>14. QED
  BY <1>1, <1>2, <1>3, <1>4, <1>5, <1>6, <1>7, <1>8, <1>9, <1>10, <1>11, <1>12, <1>13 DEF Next

\* Whatever fails, in the files and in the output, a failure is reported once, by the
\* innermost call of process() that sees it, and a file is left at its first
\* (process.go:140-208).
THEOREM FailuresAreReportedOnce == Spec => []ReportedOnce
<1>1. InOrder => ReportedOnce
  BY DEF InOrder, Ordered, ReportedOnce
<1>2. QED
  BY <1>1, InOrderInit, InOrderStep, PTL DEF Spec
-----------------------------------------------------------------------------
(***************************************************************************)
(* The writer, as far as its errors go.                                    *)
(***************************************************************************)
Errs == {"nil", "usage", "io"}

TextFields ==
  {"pretty", "quiet", "tbl", "wroteLST", "fault", "writes", "out", "ctx", "err", "ret", "fieldName",
   "annotations", "indent", "needsSeparator", "emptyContainer", "emptyStream"}
EventFields ==
  {"out", "writes", "fault", "err", "ret", "ctx", "depth", "fieldName", "annotations"}

TextFit(v)  == TextFields \subseteq DOMAIN v /\ v.err \in Errs /\ v.tbl = T!NewBuilder(<< >>)
EventFit(v) == EventFields \subseteq DOMAIN v /\ v.err \in Errs

\* A writer of the format; the one that writes nothing has no errors.
Fit(v) ==
  /\ format # "events" => TextFit(v)
  /\ format = "events" => EventFit(v)
  /\ format = "none"   => v.ret = "nil"

\* From v to u no error is forgotten, and the same containers stay open.
Remembers(v, u) ==
  /\ Fit(u)
  /\ v.err # "nil" => u.err # "nil"
Levelly(v, u) == IsText /\ u.err = "nil" => u.ctx = v.ctx

\* The error of the call is the writer's.
Tells(u) == u.ret \notin {"nil", "panic"} => u.err # "nil"
-----------------------------------------------------------------------------
(***************************************************************************)
(* The invariant.                                                          *)
(***************************************************************************)
Occurs(e, s) == \E i \in 1 .. Len(s) : s[i] = e
Told(e)      == Occurs(e, said)

ReadReported == \E i \in 1 .. Len(report) : report[i].type = "read"

\* The values of the containers the reader is in, for each of them and the stream.
Trail(vs, at, p) ==
  /\ p \in Seq(Int) /\ p # << >>
  /\ at \in [1 .. Len(p) -> Seq(Trees)]
  /\ at[1] = vs
  /\ \A n \in 1 .. Len(p) - 1 : /\ p[n] \in 1 .. Len(at[n])
                                /\ at[n + 1] = at[n][p[n]].items

\* The reader is where the path says, and shows what is there.
ReaderFit ==
  /\ \E at : /\ Trail(values, at, path)
             /\ Source!Here \in -1 .. Len(at[Len(path)])
             /\ shown.k = "value" => /\ Source!Here \in 1 .. Len(at[Len(path)])
                                     /\ shown = at[Len(path)][Source!Here].view
  /\ shown.k = "value" \/ shown \in {Source!Nothing, Source!Failed}

FileFit ==
  /\ files \in Inputs /\ file \in Nat \ {0}
  /\ pc \in {"next", "switch", "out"} => file <= Len(files) /\ damaged = files[file].damaged

\* What is being copied was told, and so were the containers it is in.
SaidFit ==
  /\ IsStack(said)
  /\ pc = "switch" => shown.k = "value" /\ Told(EventOf(shown))
  /\ frames \in Seq(T!Contexts)
  /\ \A i \in 1 .. Len(frames) : Told(T!Begun(frames[i]))
  /\ pc = "out" => frames # << >>
  /\ pc = "open" => frames = << >>

\* Until something was left inside a container, the writer is in those of the reader.
WriterFit ==
  /\ Fit(w)
  /\ IsText /\ w.err = "nil" /\ ~ReadReported /\ pc \notin Over => w.ctx = frames

Truthful ==
  /\ InOrder
  /\ format \in {"text", "pretty", "events", "none"}
  /\ FileFit
  /\ ReaderFit
  /\ SaidFit
  /\ WriterFit
  /\ ReportsAreTrue
-----------------------------------------------------------------------------
(***************************************************************************)
(* The methods of the text writer, each from what it calls.                *)
(***************************************************************************)
\* What is written inside a value changes no container and stores no error.
Within(v, u) ==
  /\ TextFit(u)
  /\ u.err = v.err /\ u.ctx = v.ctx /\ u.ret \in Errs

\* A method that opens and closes nothing: it stores its error or keeps the one there is.
Call(v, u) ==
  /\ TextFit(u)
  /\ u.ctx = v.ctx /\ u.ret \in Errs
  /\ v.err # "nil" => u.err # "nil"

LEMMA EmitWithin ==
  ASSUME NEW v, TextFit(v), NEW atoms
  PROVE  Within(v, T!EmitTo(v, atoms)) /\ T!EmitTo(v, atoms).ret \in {"nil", "io"}
  BY DEF TextFit, TextFields, Within, Errs, T!EmitTo

LEMMA WithinTrans ==
  ASSUME NEW v, NEW u, NEW x, Within(v, u), Within(u, x)
  PROVE  Within(v, x)
  BY DEF Within

LEMMA ReturnWithin ==
  ASSUME NEW v, TextFit(v), NEW e \in Errs
  PROVE  Within(v, T!Return(v, e)) /\ T!Return(v, e).ret = e
  BY DEF TextFit, TextFields, Within, Errs, T!Return

LEMMA ClearWithin ==
  ASSUME NEW v, TextFit(v)
  PROVE  /\ TextFit(T!Clear(v)) /\ T!Clear(v).err = v.err /\ T!Clear(v).ctx = v.ctx
         /\ T!Clear(v).ret = v.ret
  BY DEF TextFit, TextFields, T!Clear

LEMMA FieldNameWithin ==
  ASSUME NEW v, TextFit(v)
  PROVE  Within(v, T!WriteFieldName(v))
<1> DEFINE v1 == [v EXCEPT !.fieldName = T!NoName]
<1>1. TextFit(v1) /\ v1.err = v.err /\ v1.ctx = v.ctx
  BY DEF TextFit, TextFields
<1>2. "usage" \in Errs
  BY DEF Errs
<1> HIDE DEF v1
<1>3. Within(v1, T!Return(v1, "usage"))
  BY <1>1, <1>2, ReturnWithin
<1>4. ASSUME NEW a PROVE Within(v1, T!EmitTo(v1, a))
  BY <1>1, EmitWithin
<1>5. Within(v1, T!WriteFieldName(v))
  BY <1>3, <1>4 DEF T!WriteFieldName, v1
<1>6. QED
  BY <1>1, <1>5 DEF Within

LEMMA AnnotationsWithin ==
  ASSUME NEW v, TextFit(v), NEW marks
  PROVE  Within(v, T!WriteAnnotations(v, marks))
<1>1. "usage" \in Errs
  BY DEF Errs
<1>2. ASSUME NEW a PROVE Within(v, T!EmitTo(v, a)) /\ TextFit(T!EmitTo(v, a))
  BY EmitWithin DEF Within
<1>3. ASSUME NEW a PROVE Within(v, T!Return(T!EmitTo(v, a), "usage"))
  BY <1>1, <1>2, ReturnWithin, WithinTrans, Zenon
<1>4. QED
  BY <1>2, <1>3 DEF T!WriteAnnotations

LEMMA BeginRestWithin ==
  ASSUME NEW v, TextFit(v), v.ret \in Errs, NEW name, NEW marks
  PROVE  Within(v, T!BeginRest(v, name, marks))
<1>1. Within(v, v)
  BY DEF Within
<1> DEFINE v1 == T!LayNext(v)
           v2 == T!NameNext(v1, name)
           v3 == T!MarkNext(v2, marks)
<1>2. Within(v, v1)
  BY <1>1, EmitWithin DEF T!LayNext
<1> HIDE DEF v1
<1>3. Within(v1, v2)
  <2> DEFINE x == [v1 EXCEPT !.fieldName = name]
  <2>1. TextFit(x) /\ x.err = v1.err /\ x.ctx = v1.ctx
    BY <1>2 DEF Within, TextFit, TextFields
  <2> HIDE DEF x
  <2>2. Within(x, T!WriteFieldName(x))
    BY <2>1, FieldNameWithin
  <2>3. Within(v1, T!WriteFieldName(x)) /\ Within(v1, v1)
    BY <1>2, <2>1, <2>2 DEF Within
  <2>4. QED
    BY <2>3 DEF T!NameNext, x
<1> HIDE DEF v2
<1>4. Within(v2, v3)
  BY <1>3, AnnotationsWithin DEF T!MarkNext, Within
<1> HIDE DEF v3
<1>5. Within(v, v3)
  BY <1>2, <1>3, <1>4, WithinTrans, Zenon
<1>6. QED
  BY <1>5 DEF T!BeginRest, v1, v2, v3

\* The builder of the command has no imports and is never added to: there is no table.
LEMMA NoTable == T!TableCalls(T!NewBuilder(<< >>)) = << >>
<1> DEFINE b == T!NewBuilder(<< >>)
<1>1. T!ProcessImports(<< >>) = <<T!V1System>>
  BY DEF T!ProcessImports
<1>2. b.imports = <<T!V1System>> /\ b.symbols = << >>
  BY <1>1 DEF T!NewBuilder, T!NewLocalTable
<1>3. T!WriteTo(b) = [kind |-> "absent"]
  BY <1>2 DEF T!WriteTo
<1>4. QED
  BY <1>3 DEF T!TableCalls

LEMMA TableWithin ==
  ASSUME NEW v, TextFit(v), v.ret = "nil"
  PROVE  Within(v, T!WriteTable(v))
<1> DEFINE v1 == [v EXCEPT !.wroteLST = TRUE]
<1>1. Within(v, v1) /\ Within(v, v)
  BY DEF Within, TextFit, TextFields, Errs
<1>2. T!TableCalls(v.tbl) = << >>
  BY NoTable DEF TextFit
<1>3. T!RunCalls(v1, << >>) = v1
  <2> DEFINE Runs(run) == run = [i \in 0 .. Len(<< >>) |->
                                   IF i = 0 THEN v1 ELSE T!DoNext(run[i - 1], << >>[i])]
             g == [i \in 0 .. 0 |-> v1]
             run == CHOOSE f : Runs(f)
  <2>1. Len(<< >>) = 0 /\ \A i \in 0 .. 0 : i = 0
    OBVIOUS
  <2>2. Runs(g)
    BY <2>1
  <2>3. Runs(run)
    BY <2>2
  <2>4. 0 \in 0 .. Len(<< >>)
    BY <2>1
  <2>5. run[0] = v1
    BY <2>3, <2>4
  <2>6. QED
    BY <2>1, <2>5 DEF T!RunCalls
<1> HIDE DEF v1
<1>4. QED
  BY <1>1, <1>2, <1>3 DEF T!WriteTable, v1

LEMMA BeginValueWithin ==
  ASSUME NEW v, TextFit(v)
  PROVE  Within(v, T!BeginValue(v))
<1> DEFINE v1 == T!Clear(v)
           v2 == T!Return(v1, "nil")
           v3 == T!WriteTable(v2)
<1>1. TextFit(v1) /\ v1.err = v.err /\ v1.ctx = v.ctx
  BY ClearWithin
<1> HIDE DEF v1
<1>2. Within(v1, v2) /\ v2.ret = "nil"
  BY <1>1, ReturnWithin DEF Errs
<1> HIDE DEF v2
<1>3. Within(v2, v3)
  BY <1>2, TableWithin DEF Within
<1> HIDE DEF v3
<1>4. Within(v3, T!BeginRest(v3, v.fieldName, v.annotations))
  BY <1>3, BeginRestWithin DEF Within
<1>5. Within(v1, T!BeginRest(v3, v.fieldName, v.annotations))
  BY <1>2, <1>3, <1>4, WithinTrans, Zenon
<1>6. QED
  BY <1>1, <1>5 DEF Within, T!BeginValue, v1, v2, v3

LEMMA StoreCall ==
  ASSUME NEW v, TextFit(v), v.ret \in Errs
  PROVE  /\ TextFit(T!Store(v)) /\ T!Store(v).ctx = v.ctx
         /\ T!Store(v).ret = v.ret /\ T!Store(v).err = v.ret
  BY DEF TextFit, TextFields, Errs, T!Store

\* Only an unfinished lob loses its error.
LEMMA LexemeCall ==
  ASSUME NEW v, TextFit(v), v.ret \in Errs, v.err = "nil", NEW l
  PROVE  /\ Call(v, T!PutLexeme(v, l))
         /\ l.lost = {} => Tells(T!PutLexeme(v, l))
<1> DEFINE v1 == T!EmitTo(v, T!Parts(l))
<1>1. Within(v, v1)
  BY EmitWithin
<1> HIDE DEF v1
<1>2. CASE v.ret # "nil"
  BY <1>2, StoreCall DEF T!PutLexeme, Call, Tells
<1>3. CASE v.ret = "nil" /\ v1.ret = "nil"
  <2>1. /\ TextFit(T!EndValue(v1)) /\ T!EndValue(v1).ctx = v1.ctx /\ T!EndValue(v1).ret = v1.ret
        /\ T!EndValue(v1).err = v1.err
    BY <1>1 DEF Within, TextFit, TextFields, T!EndValue
  <2>2. T!PutLexeme(v, l) = T!EndValue(v1)
    BY <1>3 DEF T!PutLexeme, v1
  <2>3. QED
    BY <1>1, <1>3, <2>1, <2>2 DEF Call, Tells, Within
<1>4. CASE v.ret = "nil" /\ v1.ret # "nil"
  <2>1. T!PutLexeme(v, l) \in {v1, T!Store(v1)} /\ (l.lost = {} => T!PutLexeme(v, l) = T!Store(v1))
    BY <1>4 DEF T!PutLexeme, v1
  <2>2. /\ TextFit(T!Store(v1)) /\ T!Store(v1).ctx = v1.ctx
        /\ T!Store(v1).ret = v1.ret /\ T!Store(v1).err = v1.ret
    BY <1>1, StoreCall DEF Within
  <2>3. QED
    BY <1>1, <1>4, <2>1, <2>2 DEF Call, Tells, Within
<1>5. QED
  BY <1>2, <1>3, <1>4

\* A call on a writer that remembers an error.
LEMMA RememberedCall ==
  ASSUME NEW v, TextFit(v), v.err # "nil"
  PROVE  Call(v, T!Return(v, v.err)) /\ Tells(T!Return(v, v.err))
<1>1. v.err \in Errs
  BY DEF TextFit
<1>2. Within(v, T!Return(v, v.err))
  BY <1>1, ReturnWithin
<1>3. QED
  BY <1>2 DEF Within, Call, Tells

LEMMA FieldNameCall ==
  ASSUME NEW v, TextFit(v), NEW name
  PROVE  Call(v, T!FieldName(v, name)) /\ Tells(T!FieldName(v, name))
<1>1. CASE v.err # "nil"
  BY <1>1, RememberedCall DEF T!FieldName
<1>2. CASE v.err = "nil" /\ ~T!InStruct(v)
  <2>1. Within(v, T!Return(v, "usage")) /\ T!Return(v, "usage").ret = "usage"
    BY ReturnWithin DEF Errs
  <2>2. T!FieldName(v, name) = T!Store(T!Return(v, "usage"))
    BY <1>2 DEF T!FieldName
  <2>3. QED
    BY <1>2, <2>1, <2>2, StoreCall DEF Within, Call, Tells, Errs
<1>3. CASE v.err = "nil" /\ T!InStruct(v)
  BY <1>3 DEF T!FieldName, Call, Tells, TextFit, TextFields, Errs
<1>4. QED
  BY <1>1, <1>2, <1>3

LEMMA AnnotationsCall ==
  ASSUME NEW v, TextFit(v), NEW marks
  PROVE  Call(v, T!Annotations(v, marks)) /\ Tells(T!Annotations(v, marks))
<1>1. CASE v.err # "nil"
  BY <1>1, RememberedCall DEF T!Annotations
<1>2. CASE v.err = "nil"
  BY <1>2 DEF T!Annotations, Call, Tells, TextFit, TextFields, Errs
<1>3. QED
  BY <1>1, <1>2

LEMMA WriteLexemeCall ==
  ASSUME NEW v, TextFit(v), NEW l
  PROVE  Call(v, T!WriteLexeme(v, l)) /\ (l.lost = {} => Tells(T!WriteLexeme(v, l)))
<1>1. CASE v.err # "nil"
  BY <1>1, RememberedCall DEF T!WriteLexeme
<1>2. CASE v.err = "nil"
  <2> DEFINE v1 == T!BeginValue(v)
  <2>1. Within(v, v1)
    BY BeginValueWithin
  <2>2. T!WriteLexeme(v, l) = T!PutLexeme(v1, l)
    BY <1>2 DEF T!WriteLexeme
  <2> HIDE DEF v1
  <2>3. Call(v1, T!PutLexeme(v1, l)) /\ (l.lost = {} => Tells(T!PutLexeme(v1, l)))
    BY <1>2, <2>1, LexemeCall DEF Within
  <2>4. QED
    BY <1>2, <2>1, <2>2, <2>3 DEF Within, Call
<1>3. QED
  BY <1>1, <1>2

LEMMA WriteSymbolCall ==
  ASSUME NEW v, TextFit(v), NEW tok
  PROVE  Call(v, T!WriteSymbol(v, tok))
<1>1. CASE v.err # "nil"
  BY <1>1, RememberedCall DEF T!WriteSymbol
<1>2. CASE v.err = "nil"
  <2> DEFINE v1 == T!BeginValue(v)
  <2>1. Within(v, v1)
    BY BeginValueWithin
  <2>2. T!WriteSymbol(v, tok) =
          IF T!Valid(tok) THEN T!PutLexeme(v1, T!SymbolLexeme(tok))
          ELSE T!Store(IF v1.ret = "nil" THEN T!Return(v1, "usage") ELSE v1)
    BY <1>2 DEF T!WriteSymbol
  <2> HIDE DEF v1
  <2>3. Call(v1, T!PutLexeme(v1, T!SymbolLexeme(tok)))
    BY <1>2, <2>1, LexemeCall DEF Within
  <2>4. Within(v1, T!Return(v1, "usage")) /\ Within(v1, v1)
    BY <2>1, ReturnWithin DEF Errs, Within
  <2>5. Call(v1, T!Store(T!Return(v1, "usage"))) /\ Call(v1, T!Store(v1))
    BY <1>2, <2>1, <2>4, StoreCall DEF Within, Call
  <2>6. Call(v1, T!WriteSymbol(v, tok))
    BY <2>2, <2>3, <2>5
  <2>7. QED
    BY <1>2, <2>1, <2>6 DEF Within, Call
<1>3. QED
  BY <1>1, <1>2

\* A begin that succeeds is one more context; an end, one less.
LEMMA BeginCall ==
  ASSUME NEW v, TextFit(v), NEW c
  PROVE  LET u == T!Begin(v, c)
         IN  /\ TextFit(u) /\ u.ret \in Errs /\ Tells(u)
             /\ v.err # "nil" => u.err # "nil"
             /\ u.ret = "nil" => u.ctx = Append(v.ctx, c)
<1>1. CASE v.err # "nil"
  <2>1. T!Begin(v, c) = T!Return(v, v.err)
    BY <1>1 DEF T!Begin
  <2>2. v.err \in Errs
    BY DEF TextFit
  <2>3. Within(v, T!Return(v, v.err)) /\ T!Return(v, v.err).ret = v.err
    BY <2>2, ReturnWithin
  <2>4. QED
    BY <1>1, <2>1, <2>3 DEF Within, Tells
<1>2. CASE v.err = "nil"
  <2> DEFINE v1 == T!BeginValue(v)
             v2 == [v1 EXCEPT !.ctx = Append(@, c), !.indent = @ + 1,
                              !.needsSeparator = FALSE, !.emptyContainer = TRUE]
             v3 == T!EmitTo(v2, <<T!Opening(c)>>)
             u  == T!Begin(v, c)
  <2>1. Within(v, v1)
    BY BeginValueWithin
  <2>2. u = IF v1.ret # "nil" THEN T!Store(v1) ELSE T!Store(v3)
    BY <1>2 DEF T!Begin, T!Enter
  <2> HIDE DEF v1
  <2>3. TextFit(v2) /\ v2.ctx = Append(v1.ctx, c) /\ v2.err = v1.err
    BY <2>1 DEF Within, TextFit, TextFields
  <2> HIDE DEF v2, u
  <2>4. Within(v2, v3)
    BY <2>3, EmitWithin
  <2> HIDE DEF v3
  <2>5. CASE v1.ret # "nil"
    BY <1>2, <2>1, <2>2, <2>5, StoreCall DEF Within, Tells, u
  <2>6. CASE v1.ret = "nil"
    BY <1>2, <2>1, <2>2, <2>3, <2>4, <2>6, StoreCall DEF Within, Tells, u
  <2>7. QED
    BY <2>5, <2>6
<1>3. QED
  BY <1>1, <1>2

LEMMA EndCall ==
  ASSUME NEW v, TextFit(v), NEW c
  PROVE  LET u == T!End(v, c)
         IN  /\ TextFit(u) /\ u.ret \in Errs /\ Tells(u)
             /\ v.err # "nil" => u.err # "nil"
             /\ u.ret = "nil" => u.ctx = T!Pop(v.ctx)
<1> DEFINE u == T!End(v, c)
<1>1. CASE v.err # "nil"
  <2>1. T!End(v, c) = T!Return(v, v.err)
    BY <1>1 DEF T!End
  <2>2. v.err \in Errs
    BY DEF TextFit
  <2>3. Within(v, T!Return(v, v.err)) /\ T!Return(v, v.err).ret = v.err
    BY <2>2, ReturnWithin
  <2>4. QED
    BY <1>1, <2>1, <2>3 DEF Within, Tells
<1>2. CASE v.err = "nil" /\ (v.ctx = << >> \/ T!Top(v.ctx) # c)
  <2>1. Within(v, T!Return(v, "usage")) /\ T!Return(v, "usage").ret = "usage"
    BY ReturnWithin DEF Errs
  <2>2. u = T!Store(T!Return(v, "usage"))
    BY <1>2 DEF T!End
  <2> HIDE DEF u
  <2>3. QED
    BY <1>2, <2>1, <2>2, StoreCall DEF Within, Tells, u, Errs
<1>3. CASE v.err = "nil" /\ ~(v.ctx = << >> \/ T!Top(v.ctx) # c)
  <2> DEFINE v0 == [v EXCEPT !.indent = @ - 1]
             v1 == T!Leave(v0, c)
             v2 == T!Clear(v1)
             v3 == [v2 EXCEPT !.ctx = T!Pop(@)]
             v4 == T!EndValue(v3)
  <2>1. u = IF v1.ret # "nil" THEN T!Store(v1) ELSE v4
    BY <1>3 DEF T!End
  <2>2. TextFit(v0) /\ v0.ctx = v.ctx /\ v0.err = v.err
    BY DEF TextFit, TextFields
  <2> HIDE DEF v0, u
  <2>3. Within(v0, v1)
    BY <2>2, EmitWithin DEF T!Leave
  <2> HIDE DEF v1
  <2>4. TextFit(v2) /\ v2.ctx = v1.ctx /\ v2.ret = v1.ret /\ v2.err = v1.err
    BY <2>3, ClearWithin DEF Within
  <2> HIDE DEF v2
  <2>5. TextFit(v3) /\ v3.ctx = T!Pop(v2.ctx) /\ v3.ret = v2.ret /\ v3.err = v2.err
    BY <2>4 DEF TextFit, TextFields
  <2> HIDE DEF v3
  <2>6. TextFit(v4) /\ v4.ctx = v3.ctx /\ v4.ret = v3.ret /\ v4.err = v3.err
    BY <2>5 DEF TextFit, TextFields, T!EndValue
  <2> HIDE DEF v4
  <2>7. CASE v1.ret # "nil"
    BY <1>3, <2>1, <2>2, <2>3, <2>7, StoreCall DEF Within, Tells, u
  <2>8. CASE v1.ret = "nil"
    BY <1>3, <2>1, <2>2, <2>3, <2>4, <2>5, <2>6, <2>8 DEF Within, Tells, u, Errs
  <2>9. QED
    BY <2>7, <2>8
<1>4. QED
  BY <1>1, <1>2, <1>3

\* Finish refuses a writer inside a container, and does not remember that it did.
LEMMA FinishCall ==
  ASSUME NEW v, TextFit(v)
  PROVE  LET u == T!Finish(v)
         IN  /\ TextFit(u) /\ u.ret \in Errs
             /\ v.err # "nil" => u.err # "nil"
             /\ u.ret # "nil" => u.err # "nil" \/ (v.err = "nil" /\ v.ctx # << >>)
<1> DEFINE u == T!Finish(v)
<1>1. CASE v.err # "nil"
  <2>1. T!Finish(v) = T!Return(v, v.err)
    BY <1>1 DEF T!Finish
  <2>2. v.err \in Errs
    BY DEF TextFit
  <2>3. Within(v, T!Return(v, v.err)) /\ T!Return(v, v.err).ret = v.err
    BY <2>2, ReturnWithin
  <2>4. QED
    BY <1>1, <2>1, <2>3 DEF Within
<1>2. CASE v.err = "nil" /\ v.ctx # << >>
  <2>1. T!Finish(v) = T!Return(v, "usage")
    BY <1>2 DEF T!Finish
  <2>2. Within(v, T!Return(v, "usage"))
    BY ReturnWithin DEF Errs
  <2>3. QED
    BY <1>2, <2>1, <2>2 DEF Within
<1>3. CASE v.err = "nil" /\ v.ctx = << >>
  <2> DEFINE v1 == T!Return(v, "nil")
             v2 == T!EmitTo(v, <<T!Newline>>)
             v3 == T!Clear(v2)
             v4 == [v3 EXCEPT !.needsSeparator = FALSE, !.emptyStream = TRUE]
  <2>1. u \in {T!Clear(v1), T!Store(v2)} \/ (v2.ret = "nil" /\ u = v4)
    BY <1>3 DEF T!Finish
  <2> HIDE DEF u
  <2>2. Within(v, v1) /\ v1.ret = "nil" /\ Within(v, v2)
    BY ReturnWithin, EmitWithin DEF Errs
  <2> HIDE DEF v1, v2
  <2>3. /\ TextFit(T!Clear(v1)) /\ T!Clear(v1).ret = v1.ret
        /\ TextFit(v3) /\ v3.ret = v2.ret /\ v3.err = v2.err
    BY <2>2, ClearWithin DEF Within
  <2> HIDE DEF v3
  <2>4. TextFit(v4) /\ v4.ret = v3.ret
    BY <2>3 DEF TextFit, TextFields
  <2> HIDE DEF v4
  <2>5. TextFit(T!Store(v2)) /\ T!Store(v2).ret = v2.ret /\ T!Store(v2).err = v2.ret
    BY <2>2, StoreCall DEF Within
  <2>6. QED
    BY <1>3, <2>1, <2>2, <2>3, <2>4, <2>5 DEF Within, u
<1>4. QED
  BY <1>1, <1>2, <1>3
-----------------------------------------------------------------------------
(***************************************************************************)
(* The writer of events: its encoder remembers its error, and a struct is  *)
(* its only panic.                                                         *)
(***************************************************************************)
EventCall(v, u) ==
  /\ EventFit(u)
  /\ v.err # "nil" => u.err # "nil"
  /\ Tells(u)

LEMMA EncodeCall ==
  ASSUME NEW v, EventFit(v), NEW event
  PROVE  EventCall(v, E!Encode(v, event)) /\ E!Encode(v, event).ret \in Errs
<1> DEFINE v1 == E!EmitTo(v, <<event>>)
<1>1. EventFields \subseteq DOMAIN v1 /\ v1.err = v.err /\ v1.ret \in {"nil", "io"}
  BY DEF EventFit, EventFields, E!EmitTo
<1> HIDE DEF v1
<1>2. /\ EventFields \subseteq DOMAIN E!Store(v1)
      /\ E!Store(v1).err = v1.ret /\ E!Store(v1).ret = v1.ret
  BY <1>1 DEF EventFields, E!Store
<1>3. CASE v.err # "nil"
  <2>1. E!Encode(v, event) = E!Return(v, v.err)
    BY <1>3 DEF E!Encode
  <2>2. /\ EventFields \subseteq DOMAIN E!Return(v, v.err)
        /\ E!Return(v, v.err).err = v.err /\ E!Return(v, v.err).ret = v.err
    BY DEF EventFit, EventFields, E!Return
  <2>3. QED
    BY <1>3, <2>1, <2>2 DEF EventCall, EventFit, Tells
<1>4. CASE v.err = "nil"
  <2>1. E!Encode(v, event) = E!Store(v1)
    BY <1>4 DEF E!Encode, v1
  <2>2. QED
    BY <1>1, <1>2, <1>4, <2>1 DEF EventCall, EventFit, Tells, Errs
<1>5. QED
  BY <1>3, <1>4

LEMMA WriteEventCall ==
  ASSUME NEW v, EventFit(v), NEW type, NEW event
  PROVE  EventCall(v, E!WriteEvent(v, type, event)) /\ E!WriteEvent(v, type, event).ret \in Errs
<1> DEFINE v1 == E!Clear(v)
<1>1. EventFit(v1) /\ v1.err = v.err
  BY DEF EventFit, EventFields, E!Clear
<1> HIDE DEF v1
<1>2. ASSUME NEW e PROVE EventCall(v1, E!Encode(v1, e)) /\ E!Encode(v1, e).ret \in Errs
  BY <1>1, EncodeCall
<1>3. QED
  BY <1>1, <1>2 DEF EventCall, E!WriteEvent, v1

LEMMA BeginEventCall ==
  ASSUME NEW v, EventFit(v), NEW c
  PROVE  LET u == E!BeginEvent(v, T!Begun(c))
         IN  EventCall(v, u) /\ (u.ret = "panic" => c = "struct")
<1> DEFINE v1 == E!WriteEvent(v, "CONTAINER_START", T!Begun(c))
           v2 == [v1 EXCEPT !.depth = @ + 1, !.ret = "panic"]
           v3 == [v1 EXCEPT !.depth = @ + 1, !.ret = "nil"]
           u  == E!BeginEvent(v, T!Begun(c))
<1>1. EventCall(v, v1) /\ v1.ret \in Errs
  BY WriteEventCall
<1>2. T!Begun(c).c = c
  BY DEF T!Begun
<1>3. \/ v1.ret # "nil" /\ u = v1
      \/ c = "struct" /\ u = v2
      \/ u = v3
  BY <1>2 DEF E!BeginEvent
<1> HIDE DEF v1, u
<1>4. EventFit(v2) /\ v2.err = v1.err /\ v2.ret = "panic"
  BY <1>1 DEF EventCall, EventFit, EventFields
<1>5. EventFit(v3) /\ v3.err = v1.err /\ v3.ret = "nil"
  BY <1>1 DEF EventCall, EventFit, EventFields
<1> HIDE DEF v2, v3
<1>6. QED
  BY <1>1, <1>3, <1>4, <1>5 DEF EventCall, Tells, Errs, u

LEMMA EndEventCall ==
  ASSUME NEW v, EventFit(v), NEW c
  PROVE  LET u == E!EndEvent(v, T!Ended(c))
         IN  EventCall(v, u) /\ (u.ret = "panic" => c = "struct")
<1> DEFINE v1 == [v EXCEPT !.depth = @ - 1]
           u  == E!EndEvent(v, T!Ended(c))
<1>1. EventFit(v1) /\ v1.err = v.err
  BY DEF EventFit, EventFields
<1>2. EventFit(E!Return(v, "panic")) /\ E!Return(v, "panic").err = v.err /\ E!Return(v, "panic").ret = "panic"
  BY DEF EventFit, EventFields, E!Return
<1> HIDE DEF v1
<1>3. EventCall(v1, E!WriteEvent(v1, "CONTAINER_END", T!Ended(c)))
      /\ E!WriteEvent(v1, "CONTAINER_END", T!Ended(c)).ret \in Errs
  BY <1>1, WriteEventCall
<1>4. T!Ended(c).c = c
  BY DEF T!Ended
<1>5. u = IF c = "struct" THEN E!Return(v, "panic")
          ELSE E!WriteEvent(v1, "CONTAINER_END", T!Ended(c))
  BY <1>4 DEF E!EndEvent, v1
<1> HIDE DEF u
<1>6. QED
  BY <1>1, <1>2, <1>3, <1>5 DEF EventCall, Tells, Errs, u

\* The names of a value are set aside for its event.
LEMMA PendingEventCall ==
  ASSUME NEW v, EventFit(v), NEW x
  PROVE  /\ EventCall(v, E!EventFieldName(v, x)) /\ E!EventFieldName(v, x).ret = "nil"
         /\ EventCall(v, E!EventAnnotations(v, x)) /\ E!EventAnnotations(v, x).ret = "nil"
  BY DEF EventCall, EventFit, EventFields, Tells, E!EventFieldName, E!EventAnnotations
-----------------------------------------------------------------------------
(***************************************************************************)
(* The calls of the command, with any of the writers.                      *)
(***************************************************************************)
Formats == {"text", "pretty", "events", "none"}

LEMMA PassNamesKeeps ==
  ASSUME format \in Formats, NEW v, Fit(v), NEW view
  PROVE  LET u == PassNames(v, view)
         IN  Remembers(v, u) /\ Levelly(v, u) /\ (u.ret # "nil" => u.err # "nil")
<1> DEFINE u == PassNames(v, view)
<1>1. CASE IsText
  <2>1. TextFit(v) /\ format # "events" /\ format # "none"
    BY <1>1 DEF Fit, IsText
  <2> DEFINE v1 == IF view.fieldName = T!NoName THEN T!Return(v, "nil") ELSE T!FieldName(v, view.fieldName)
  <2>2. Call(v, v1) /\ Tells(v1)
    BY <2>1, FieldNameCall, ReturnWithin DEF Errs, Within, Call, Tells
  <2>3. u = IF v1.ret # "nil" \/ view.annotations = << >> THEN v1 ELSE T!Annotations(v1, view.annotations)
    BY <1>1 DEF PassNames
  <2> HIDE DEF v1
  <2>4. Call(v1, T!Annotations(v1, view.annotations)) /\ Tells(T!Annotations(v1, view.annotations))
    BY <2>2, AnnotationsCall DEF Call
  <2> HIDE DEF u
  <2>5. Call(v, u) /\ Tells(u)
    BY <2>2, <2>3, <2>4 DEF Call
  <2>6. QED
    BY <2>1, <2>5 DEF Call, Tells, Errs, Remembers, Levelly, Fit, u
<1>2. CASE format = "events"
  <2>1. EventFit(v) /\ ~IsText
    BY <1>2 DEF Fit, IsText
  <2> DEFINE v1 == IF view.fieldName = T!NoName THEN T!Return(v, "nil")
                   ELSE E!EventFieldName(v, view.fieldName)
  <2>2. EventCall(v, T!Return(v, "nil")) /\ T!Return(v, "nil").ret = "nil"
    BY <2>1 DEF EventCall, EventFit, EventFields, Tells, T!Return
  <2>3. EventCall(v, v1) /\ v1.ret = "nil"
    BY <2>1, <2>2, PendingEventCall
  <2>4. u = IF view.annotations = << >> THEN v1 ELSE E!EventAnnotations(v1, view.annotations)
    BY <1>2, <2>1, <2>3 DEF PassNames
  <2> HIDE DEF v1
  <2>5. EventCall(v1, E!EventAnnotations(v1, view.annotations))
        /\ E!EventAnnotations(v1, view.annotations).ret = "nil"
    BY <2>3, PendingEventCall DEF EventCall
  <2> HIDE DEF u
  <2>6. EventCall(v, u) /\ u.ret = "nil"
    BY <2>3, <2>4, <2>5 DEF EventCall
  <2>7. QED
    BY <1>2, <2>1, <2>6 DEF EventCall, Remembers, Levelly, Fit, u
<1>3. CASE format = "none"
  <2>1. TextFit(v) /\ ~IsText /\ v.ret = "nil"
    BY <1>3 DEF Fit, IsText
  <2>2. Within(v, T!Return(v, "nil")) /\ T!Return(v, "nil").ret = "nil"
    BY <2>1, ReturnWithin DEF Errs
  <2>3. u \in {v, T!Return(v, "nil")}
    BY <1>3, <2>1 DEF PassNames
  <2> HIDE DEF u
  <2>4. TextFit(u) /\ u.err = v.err /\ u.ret = "nil"
    BY <2>1, <2>2, <2>3 DEF Within
  <2>5. QED
    BY <1>3, <2>1, <2>4 DEF Remembers, Levelly, Fit, u
<1>4. QED
  BY <1>1, <1>2, <1>3 DEF Formats, IsText

LEMMA WriteScalarKeeps ==
  ASSUME format \in Formats, NEW v, Fit(v), NEW view
  PROVE  LET u == WriteScalar(v, view)
         IN  /\ Remembers(v, u) /\ Levelly(v, u)
             /\ view.type = "null" => Tells(u) /\ u.ret # "panic"
<1> DEFINE u == WriteScalar(v, view)
<1>1. CASE IsText
  <2>1. TextFit(v) /\ format # "events" /\ format # "none"
    BY <1>1 DEF Fit, IsText
  <2>2. \/ view.type = "symbol" /\ u = T!WriteSymbol(v, view.token)
        \/ view.type # "symbol" /\ u = T!WriteLexeme(v, Lexeme(view))
    BY <2>1 DEF WriteScalar
  <2> HIDE DEF u
  <2>3. view.type = "null" => Lexeme(view) = T!Raw(view.data)
    BY Zenon DEF Lexeme
  <2>4. T!Raw(view.data).lost = {}
    BY DEF T!Raw, T!Lexeme
  <2>5. Call(v, u) /\ (view.type = "null" => Tells(u))
    BY <2>1, <2>2, <2>3, <2>4, WriteSymbolCall, WriteLexemeCall
  <2>6. QED
    BY <2>1, <2>5 DEF Call, Tells, Errs, Remembers, Levelly, Fit, u
<1>2. CASE format = "events"
  <2>1. EventFit(v) /\ ~IsText
    BY <1>2 DEF Fit, IsText
  <2>2. u = E!WriteEvent(v, "SCALAR", EventOf(view))
    BY <1>2 DEF WriteScalar, E!WriteScalar
  <2> HIDE DEF u
  <2>3. EventCall(v, u) /\ u.ret \in Errs
    BY <2>1, <2>2, WriteEventCall
  <2>4. QED
    BY <1>2, <2>1, <2>3 DEF EventCall, Remembers, Levelly, Fit, Errs, u
<1>3. CASE format = "none"
  BY <1>3 DEF WriteScalar, Remembers, Levelly, IsText, Fit, Tells
<1>4. QED
  BY <1>1, <1>2, <1>3 DEF Formats, IsText

LEMMA BeginKeeps ==
  ASSUME format \in Formats, NEW v, Fit(v), NEW c
  PROVE  LET u == Begin(v, c)
         IN  /\ Remembers(v, u) /\ Tells(u)
             /\ u.ret = "panic" => format = "events" /\ c = "struct"
             /\ IsText /\ u.ret = "nil" => u.ctx = Append(v.ctx, c)
<1> DEFINE u == Begin(v, c)
<1>1. CASE IsText
  <2>1. TextFit(v) /\ format # "events" /\ format # "none"
    BY <1>1 DEF Fit, IsText
  <2>2. u = T!Begin(v, c)
    BY <1>1, <2>1 DEF Begin
  <2>3. QED
    BY <2>1, <2>2, BeginCall DEF Remembers, Fit, Errs
<1>2. CASE format = "events"
  <2>1. EventFit(v) /\ ~IsText
    BY <1>2 DEF Fit, IsText
  <2>2. u = E!BeginEvent(v, T!Begun(c))
    BY <1>2, <2>1 DEF Begin
  <2>3. QED
    BY <1>2, <2>1, <2>2, BeginEventCall DEF EventCall, Remembers, Fit
<1>3. CASE format = "none"
  <2>1. u = v /\ ~IsText
    BY <1>3 DEF Begin, IsText
  <2>2. QED
    BY <1>3, <2>1 DEF Remembers, Fit, Tells
<1>4. QED
  BY <1>1, <1>2, <1>3 DEF Formats, IsText

LEMMA EndKeeps ==
  ASSUME format \in Formats, NEW v, Fit(v), NEW c
  PROVE  LET u == End(v, c)
         IN  /\ Remembers(v, u) /\ Tells(u)
             /\ u.ret = "panic" => format = "events" /\ c = "struct"
             /\ IsText /\ u.ret = "nil" => u.ctx = T!Pop(v.ctx)
<1> DEFINE u == End(v, c)
<1>1. CASE IsText
  <2>1. TextFit(v) /\ format # "events" /\ format # "none"
    BY <1>1 DEF Fit, IsText
  <2>2. u = T!End(v, c)
    BY <1>1, <2>1 DEF End
  <2>3. QED
    BY <2>1, <2>2, EndCall DEF Remembers, Fit, Errs
<1>2. CASE format = "events"
  <2>1. EventFit(v) /\ ~IsText
    BY <1>2 DEF Fit, IsText
  <2>2. u = E!EndEvent(v, T!Ended(c))
    BY <1>2, <2>1 DEF End
  <2>3. QED
    BY <1>2, <2>1, <2>2, EndEventCall DEF EventCall, Remembers, Fit
<1>3. CASE format = "none"
  <2>1. u = v /\ ~IsText
    BY <1>3 DEF End, IsText
  <2>2. QED
    BY <1>3, <2>1 DEF Remembers, Fit, Tells
<1>4. QED
  BY <1>1, <1>2, <1>3 DEF Formats, IsText

\* Finish fails on a writer that has an error, or, of text, that is inside a container.
LEMMA FinishKeeps ==
  ASSUME format \in Formats, NEW v, Fit(v)
  PROVE  LET u == Finish(v)
         IN  /\ Remembers(v, u)
             /\ u.ret # "nil" => u.err # "nil" \/ (IsText /\ v.err = "nil" /\ v.ctx # << >>)
<1> DEFINE u == Finish(v)
<1>1. CASE IsText
  <2>1. TextFit(v) /\ format # "events" /\ format # "none"
    BY <1>1 DEF Fit, IsText
  <2>2. u = T!Finish(v)
    BY <1>1, <2>1 DEF Finish
  <2>3. QED
    BY <1>1, <2>1, <2>2, FinishCall DEF Remembers, Fit
<1>2. CASE format = "events"
  <2>1. EventFit(v) /\ ~IsText
    BY <1>2 DEF Fit, IsText
  <2>2. u = E!WriteEvent(v, "STREAM_END", [e |-> "finish"])
    BY <1>2, <2>1 DEF Finish, E!FinishEvents
  <2> HIDE DEF u
  <2>3. EventCall(v, u) /\ u.ret \in Errs
    BY <2>1, <2>2, WriteEventCall
  <2>4. QED
    BY <1>2, <2>1, <2>3 DEF EventCall, Tells, Remembers, Fit, Errs, u
<1>3. CASE format = "none"
  <2>1. u = v /\ ~IsText
    BY <1>3 DEF Finish, IsText
  <2>2. QED
    BY <1>3, <2>1 DEF Remembers, Fit
<1>4. QED
  BY <1>1, <1>2, <1>3 DEF Formats, IsText
-----------------------------------------------------------------------------
(***************************************************************************)
(* The reader, which is any Cursor.                                        *)
(***************************************************************************)
Walks(f, vs, p) ==
  f = [n \in 1 .. Len(p) |-> IF n = 1 THEN vs ELSE f[n - 1][p[n - 1]].items]

LEMMA ItemsOfTrail ==
  ASSUME NEW at, Trail(values, at, path)
  PROVE  Source!Items = at[Len(path)]
<1> DEFINE g == CHOOSE f : Walks(f, values, path)
<1>1. PICK n \in Nat : n = Len(path) /\ n >= 1
  BY DEF Trail
<1>2. /\ at = [k \in 1 .. n |-> at[k]] /\ at[1] = values
      /\ \A k \in 1 .. n - 1 : at[k + 1] = at[k][path[k]].items
  BY <1>1 DEF Trail
<1>3. Walks(at, values, path)
  <2>1. \A k \in 1 .. n : at[k] = IF k = 1 THEN values ELSE at[k - 1][path[k - 1]].items
    <3>1. ASSUME NEW k \in 1 .. n, k # 1
          PROVE  at[k] = at[k - 1][path[k - 1]].items
      <4>1. k - 1 \in 1 .. n - 1 /\ (k - 1) + 1 = k
        BY <1>1, <3>1
      <4>2. QED
        BY <1>2, <4>1
    <3>2. QED
      BY <1>2, <3>1
  <2>2. QED
    BY <1>1, <1>2, <2>1 DEF Walks
<1>4. Walks(g, values, path)
  BY <1>3
<1>5. Source!Items = g[n]
  BY <1>1 DEF Source!Items, Walks
<1> HIDE DEF g
<1>6. \A k \in 1 .. n : g[k] = IF k = 1 THEN values ELSE g[k - 1][path[k - 1]].items
  BY <1>1, <1>4 DEF Walks
<1> DEFINE S == {k \in 0 .. n : k = 0 \/ g[k] = at[k]}
<1>7. 0 \in S
  BY <1>1
<1>8. ASSUME NEW k \in 1 .. n, k - 1 \in S
      PROVE  k \in S
  <2>1. CASE k = 1
    BY <1>1, <1>2, <1>6, <2>1
  <2>2. CASE k # 1
    <3>1. k - 1 \in 1 .. n - 1 /\ (k - 1) + 1 = k
      BY <1>1, <2>2
    <3>2. g[k - 1] = at[k - 1]
      BY <1>8, <3>1
    <3>3. g[k] = g[k - 1][path[k - 1]].items
      BY <1>6, <2>2
    <3>4. at[k] = at[k - 1][path[k - 1]].items
      BY <1>2, <3>1
    <3>5. QED
      BY <3>2, <3>3, <3>4
  <2>3. QED
    BY <2>1, <2>2
<1> HIDE DEF S
<1>9. \A k \in 0 .. n : k \in S
  BY <1>1, <1>7, <1>8, Induction
<1>10. n \in S
  BY <1>1, <1>9
<1>11. QED
  BY <1>1, <1>5, <1>10 DEF S

\* Where the reader is, and that there is a value if it shows one.
At(at, vs, p, sh) ==
  /\ Trail(vs, at, p)
  /\ p[Len(p)] \in -1 .. Len(at[Len(p)])
  /\ sh.k = "value" => /\ p[Len(p)] \in 1 .. Len(at[Len(p)])
                       /\ sh = at[Len(p)][p[Len(p)]].view

LEMMA AtFit ==
  ASSUME NEW at, At(at, values, path, shown), shown.k = "value" \/ shown \in {Source!Nothing, Source!Failed}
  PROVE  ReaderFit
  BY DEF At, ReaderFit, Source!Here

LEMMA FitAt ==
  ASSUME ReaderFit
  PROVE  \E at : At(at, values, path, shown)
  BY DEF At, ReaderFit, Source!Here

LEMMA NothingShown ==
  /\ Source!Nothing.k # "value" /\ Source!Failed.k # "value"
  BY DEF Source!Nothing, Source!Failed

\* Moving within a container leaves the containers as they are.
Moves(vs, at, p, q, i) == Trail(vs, at, q) /\ Len(q) = Len(p) /\ q[Len(p)] = i

LEMMA TrailMoves ==
  ASSUME NEW vs, NEW at, NEW p, Trail(vs, at, p), NEW i \in Int
  PROVE  Moves(vs, at, p, [p EXCEPT ![Len(p)] = i], i)
<1> DEFINE q == [p EXCEPT ![Len(p)] = i]
<1>1. PICK n \in Nat : n = Len(p) /\ n >= 1
  BY DEF Trail
<1>2. q \in Seq(Int) /\ Len(q) = n /\ q[n] = i /\ \A k \in 1 .. n - 1 : q[k] = p[k]
  BY <1>1 DEF Trail
<1> HIDE DEF q
<1>3. q # << >>
  BY <1>1, <1>2
<1>4. Trail(vs, at, q)
  BY <1>1, <1>2, <1>3 DEF Trail
<1>5. Moves(vs, at, p, q, i)
  BY <1>1, <1>2, <1>4 DEF Moves
<1>6. QED
  BY <1>5 DEF q

LEMMA AdvanceFit ==
  ASSUME ReaderFit, Source!Advance, UNCHANGED values
  PROVE  ReaderFit' /\ shown'.k = "value" /\ \E v \in Trees : shown' = v.view
<1>1. PICK at : At(at, values, path, shown)
  BY FitAt
<1>2. Trail(values, at, path) /\ Source!Items = at[Len(path)]
  BY <1>1, ItemsOfTrail DEF At
<1>3. PICK n \in Nat : n = Len(path) /\ n >= 1
  BY <1>2 DEF Trail
<1>4. at[n] \in Seq(Trees)
  BY <1>2, <1>3 DEF Trail
<1>5. PICK i \in Int : i = path[n] /\ i + 1 \in 1 .. Len(at[n])
  BY <1>1, <1>2, <1>3, <1>4 DEF At, Source!Advance, Source!Here, Source!Past
<1>6. path' = [path EXCEPT ![Len(path)] = i + 1] /\ shown' = at[n][i + 1].view
  BY <1>2, <1>3, <1>5 DEF Source!Advance, Source!Here
<1>7. Trail(values, at, path') /\ Len(path') = n /\ path'[n] = i + 1
  <2>1. i + 1 \in Int
    BY <1>5
  <2>2. Moves(values, at, path, path', i + 1)
    BY <1>2, <1>6, <2>1, TrailMoves, Zenon
  <2>3. QED
    BY <1>3, <2>2 DEF Moves
<1>8. at[n][i + 1] \in Trees
  BY <1>4, <1>5
<1>9. shown'.k = "value"
  BY <1>6, <1>8, TreesAssumption
<1>10. At(at, values', path', shown')
  BY <1>4, <1>5, <1>6, <1>7 DEF At
<1>11. ReaderFit'
  BY <1>9, <1>10 DEF At, ReaderFit, Source!Here
<1>12. QED
  BY <1>6, <1>8, <1>9, <1>11

LEMMA EndFit ==
  ASSUME ReaderFit, Source!End, UNCHANGED values
  PROVE  ReaderFit'
<1>1. PICK at : At(at, values, path, shown)
  BY FitAt
<1>2. PICK n \in Nat : n = Len(path) /\ n >= 1 /\ at[n] \in Seq(Trees)
  BY <1>1 DEF At, Trail
<1>3. path' = [path EXCEPT ![Len(path)] = -1] /\ shown' = Source!Nothing
  BY DEF Source!End, Source!Past
<1>4. Trail(values, at, path') /\ Len(path') = n /\ path'[n] = -1
  <2>1. Trail(values, at, path) /\ -1 \in Int
    BY <1>1 DEF At
  <2>2. Moves(values, at, path, path', -1)
    BY <1>3, <2>1, TrailMoves, Zenon
  <2>3. QED
    BY <1>2, <2>2 DEF Moves
<1>5. -1 \in -1 .. Len(at[n])
  BY <1>2
<1>6. At(at, values', path', shown')
  BY <1>3, <1>4, <1>5, NothingShown DEF At
<1>7. QED
  BY <1>3, <1>6 DEF At, ReaderFit, Source!Here

LEMMA FailFit ==
  ASSUME ReaderFit, Source!Fail("Next"), UNCHANGED values
  PROVE  ReaderFit'
<1>1. PICK at : At(at, values, path, shown)
  BY FitAt
<1>2. path' = path /\ shown' = Source!Failed
  BY DEF Source!Fail
<1>3. At(at, values', path', shown')
  BY <1>1, <1>2, NothingShown DEF At
<1>4. QED
  BY <1>2, <1>3 DEF At, ReaderFit, Source!Here

LEMMA StepInFit ==
  ASSUME ReaderFit, Source!StepIn, UNCHANGED values
  PROVE  ReaderFit'
<1>1. PICK at : At(at, values, path, shown)
  BY FitAt
<1>2. PICK n \in Nat : n = Len(path) /\ n >= 1 /\ at[n] \in Seq(Trees) /\ path \in Seq(Int)
  BY <1>1 DEF At, Trail
<1>3. path' = Append(path, 0) /\ shown' = Source!Nothing
      /\ path[n] \in 1 .. Len(at[n])
  BY <1>1, <1>2 DEF Source!StepIn, Source!IsContainer, At
<1> DEFINE inside == at[n][path[n]].items
           at2 == [k \in 1 .. n + 1 |-> IF k = n + 1 THEN inside ELSE at[k]]
           q == Append(path, 0)
<1>4. inside \in Seq(Trees)
  <2>1. at[n][path[n]] \in Trees
    BY <1>2, <1>3
  <2>2. QED
    BY <2>1, TreesAssumption
<1>5. q \in Seq(Int) /\ Len(q) = n + 1 /\ q[n + 1] = 0 /\ (\A k \in 1 .. n : q[k] = path[k])
      /\ q # << >>
  BY <1>2
<1> HIDE DEF q
<1>6. /\ \A k \in 1 .. n : at[k] \in Seq(Trees)
      /\ at[1] = values
      /\ \A k \in 1 .. n - 1 : path[k] \in 1 .. Len(at[k]) /\ at[k + 1] = at[k][path[k]].items
  BY <1>1, <1>2 DEF At, Trail
<1>7. /\ \A k \in 1 .. n : at2[k] = at[k]
      /\ at2[n + 1] = inside
  BY <1>2
<1>8. at2 \in [1 .. n + 1 -> Seq(Trees)]
  BY <1>2, <1>4, <1>6
<1> HIDE DEF at2
<1>9. ASSUME NEW k \in 1 .. n
      PROVE  q[k] \in 1 .. Len(at2[k]) /\ at2[k + 1] = at2[k][q[k]].items
  <2>1. CASE k = n
    BY <1>2, <1>3, <1>5, <1>7, <2>1 DEF inside
  <2>2. CASE k # n
    <3>1. k \in 1 .. n - 1 /\ k + 1 \in 1 .. n
      BY <1>2, <2>2
    <3>2. QED
      BY <1>5, <1>6, <1>7, <3>1
  <2>3. QED
    BY <2>1, <2>2
<1>10. at2[1] = values
  BY <1>2, <1>6, <1>7
<1>11. Trail(values, at2, q)
  <2>1. (n + 1) - 1 = n
    BY <1>2
  <2>2. QED
    BY <1>2, <1>5, <1>8, <1>9, <1>10, <2>1 DEF Trail
<1> HIDE DEF inside
<1>12. At(at2, values', path', shown')
  <2>1. 0 \in -1 .. Len(at2[n + 1])
    BY <1>4, <1>7
  <2>2. QED
    BY <1>3, <1>5, <1>11, <2>1, NothingShown DEF At, q
<1>13. QED
  BY <1>3, <1>12 DEF At, ReaderFit, Source!Here

LEMMA StepOutFit ==
  ASSUME ReaderFit, Source!StepOut, UNCHANGED values
  PROVE  ReaderFit'
<1>1. PICK at : At(at, values, path, shown)
  BY FitAt
<1>2. PICK n \in Nat : n = Len(path) /\ n >= 2 /\ path \in Seq(Int)
  BY <1>1 DEF At, Trail, Source!StepOut
<1>3. path' = SubSeq(path, 1, n - 1) /\ shown' = Source!Nothing
  BY <1>2 DEF Source!StepOut
<1> DEFINE at2 == [k \in 1 .. n - 1 |-> at[k]]
           q == SubSeq(path, 1, n - 1)
<1>4. q \in Seq(Int) /\ Len(q) = n - 1 /\ (\A k \in 1 .. n - 1 : q[k] = path[k])
  BY <1>2
<1> HIDE DEF q
<1>5. q # << >>
  BY <1>2, <1>4
<1>6. /\ \A k \in 1 .. n : at[k] \in Seq(Trees)
      /\ at[1] = values
      /\ \A k \in 1 .. n - 1 : path[k] \in 1 .. Len(at[k]) /\ at[k + 1] = at[k][path[k]].items
  BY <1>1, <1>2 DEF At, Trail
<1>7. (\A k \in 1 .. n - 1 : at2[k] = at[k]) /\ at2 \in [1 .. n - 1 -> Seq(Trees)]
  BY <1>2, <1>6
<1> HIDE DEF at2
<1>8. ASSUME NEW k \in 1 .. (n - 1) - 1
      PROVE  q[k] \in 1 .. Len(at2[k]) /\ at2[k + 1] = at2[k][q[k]].items
  <2>1. k \in 1 .. n - 1 /\ k + 1 \in 1 .. n - 1
    BY <1>2
  <2>2. QED
    BY <1>4, <1>6, <1>7, <2>1
<1>9. at2[1] = values
  BY <1>2, <1>6, <1>7
<1>10. Trail(values, at2, q)
  BY <1>4, <1>5, <1>7, <1>8, <1>9 DEF Trail
<1>11. q[n - 1] \in -1 .. Len(at2[n - 1])
  <2>1. n - 1 \in 1 .. n - 1 /\ n - 1 \in 1 .. n
    BY <1>2
  <2>2. q[n - 1] \in 1 .. Len(at2[n - 1]) /\ at2[n - 1] \in Seq(Trees)
    BY <1>4, <1>6, <1>7, <2>1
  <2>3. QED
    BY <2>2
<1>12. At(at2, values', path', shown')
  BY <1>3, <1>4, <1>10, <1>11, NothingShown DEF At, q
<1>13. QED
  BY <1>3, <1>12 DEF At, ReaderFit, Source!Here

LEMMA RefuseFit ==
  ASSUME ReaderFit, UNCHANGED <<values, path, shown>>
  PROVE  ReaderFit'
  BY DEF ReaderFit, Source!Here
-----------------------------------------------------------------------------
(***************************************************************************)
(* What was told stays told.                                               *)
(***************************************************************************)
MoreSaid == IsStack(said') /\ \A e : Occurs(e, said) => Occurs(e, said')

LEMMA ConcatOccurs ==
  ASSUME NEW s, NEW t, IsStack(s), IsStack(t)
  PROVE  /\ IsStack(s \o t)
         /\ \A e : Occurs(e, s) \/ Occurs(e, t) => Occurs(e, s \o t)
<1>1. PICK S, R : s \in Seq(S) /\ t \in Seq(R)
  BY DEF IsStack
<1> DEFINE st == s \o t
<1>2. /\ st \in Seq(S \cup R) /\ Len(st) = Len(s) + Len(t)
      /\ \A i \in 1 .. Len(s) : st[i] = s[i]
      /\ \A i \in 1 .. Len(t) : st[Len(s) + i] = t[i]
  BY <1>1
<1>3. Len(s) \in Nat /\ Len(t) \in Nat
  BY <1>1
<1> HIDE DEF st
<1>4. ASSUME NEW e, Occurs(e, s) \/ Occurs(e, t)
      PROVE  Occurs(e, st)
  <2>1. CASE Occurs(e, s)
    BY <1>2, <1>3, <2>1 DEF Occurs
  <2>2. CASE Occurs(e, t)
    <3>1. PICK i \in 1 .. Len(t) : t[i] = e
      BY <2>2 DEF Occurs
    <3>2. Len(s) + i \in 1 .. Len(st)
      BY <1>2, <1>3
    <3>3. QED
      BY <1>2, <3>1, <3>2 DEF Occurs
  <2>3. QED
    BY <1>4, <2>1, <2>2
<1>5. IsStack(st)
  BY <1>2 DEF IsStack
<1>6. QED
  BY <1>4, <1>5 DEF st

LEMMA OneOccurs == \A e : IsStack(<<e>>) /\ Occurs(e, <<e>>)
<1>1. TAKE e
<1>2. <<e>> \in Seq({e}) /\ Len(<<e>>) = 1 /\ <<e>>[1] = e
  OBVIOUS
<1>3. IsStack(<<e>>)
  BY <1>2, Zenon DEF IsStack
<1>4. 1 \in 1 .. Len(<<e>>)
  BY <1>2
<1>5. Occurs(e, <<e>>)
  BY <1>2, <1>4, Zenon DEF Occurs
<1>6. QED
  BY <1>3, <1>5

LEMMA PrefixIsList ==
  ASSUME NEW v \in Trees
  PROVE  IsStack(Prefix(v.view))
<1> DEFINE view  == v.view
           names == [i \in 1 .. Len(view.annotations) |->
                       [e |-> "annotation", name |-> T!Meant(view.annotations[i])]]
           first == IF view.fieldName = T!NoName THEN << >>
                    ELSE <<[e |-> "field", name |-> T!Meant(view.fieldName)]>>
<1>1. PICK n \in Nat : n = Len(view.annotations)
  BY TreesAssumption
<1>2. names \in Seq({names[i] : i \in 1 .. n})
  BY <1>1
<1>3. IsStack(<< >>)
  <2>1. << >> \in Seq({})
    OBVIOUS
  <2>2. QED
    BY <2>1, Zenon DEF IsStack
<1>4. IsStack(names) /\ IsStack(first)
  BY <1>2, <1>3, OneOccurs, Zenon DEF IsStack
<1>5. Prefix(view) = first \o names
  BY DEF Prefix
<1> HIDE DEF names, first
<1>6. QED
  BY <1>4, <1>5, ConcatOccurs

LEMMA ValueIsTold ==
  ASSUME IsStack(said), NEW v \in Trees, shown' = v.view,
         said' = said \o Prefix(shown') \o <<EventOf(shown')>>
  PROVE  MoreSaid /\ Occurs(EventOf(shown'), said')
<1>1. IsStack(Prefix(shown'))
  BY PrefixIsList
<1> DEFINE s1 == said \o Prefix(shown')
           e  == EventOf(shown')
<1>2. IsStack(s1) /\ \A x : Occurs(x, said) => Occurs(x, s1)
  BY <1>1, ConcatOccurs
<1>3. IsStack(<<e>>) /\ Occurs(e, <<e>>)
  BY OneOccurs
<1>4. said' = s1 \o <<e>>
  OBVIOUS
<1> HIDE DEF s1, e
<1>5. IsStack(said') /\ \A x : Occurs(x, s1) \/ Occurs(x, <<e>>) => Occurs(x, said')
  BY <1>2, <1>3, <1>4, ConcatOccurs
<1>6. QED
  BY <1>2, <1>3, <1>5 DEF MoreSaid, e

LEMMA SameIsTold ==
  ASSUME IsStack(said), said' = said
  PROVE  MoreSaid
  BY DEF MoreSaid

LEMMA EndIsTold ==
  ASSUME IsStack(said), NEW e, said' = Append(said, e)
  PROVE  MoreSaid
<1>1. PICK S : said \in Seq(S)
  BY DEF IsStack
<1>2. said' = said \o <<e>>
  BY <1>1
<1>3. IsStack(<<e>>)
  BY OneOccurs
<1>4. QED
  BY <1>2, <1>3, ConcatOccurs DEF MoreSaid
-----------------------------------------------------------------------------
(***************************************************************************)
(* What is reported stays true.                                            *)
(***************************************************************************)
NullTold == \E c \in T!Contexts : HasNull(c)

Explained(i) ==
  IF report[i].type = "read" THEN files[report[i].loc].damaged \/ NullTold
  ELSE w.err # "nil" \/ \E j \in 1 .. i - 1 : report[j].type = "read"
AllExplained == \A i \in 1 .. Len(report) : Explained(i)

PanicExplained ==
  pc = "panic" =>
    \/ \E t \in {"bool", "int", "float", "timestamp"} : HasNull(t)
    \/ IsText /\ HasNull("decimal")
    \/ format = "events" /\ Told(T!Begun("struct"))
    \/ ~errors

LEMMA TrueIsExplained ==
  /\ ReportsAreTrue <=> AllExplained /\ PanicExplained
  /\ ReportsAreTrue' <=> AllExplained' /\ PanicExplained'
  BY DEF ReportsAreTrue, AllExplained, Explained, PanicExplained, NullTold, Told, Occurs

LEMMA NullsStayTold ==
  ASSUME MoreSaid
  PROVE  (\A t : HasNull(t) => HasNull(t)') /\ (NullTold => NullTold')
<1>1. \A t : HasNull(t) <=> Occurs([e |-> "null", type |-> t], said)
  BY DEF HasNull, Occurs
<1>2. \A t : HasNull(t)' <=> Occurs([e |-> "null", type |-> t], said')
  BY DEF HasNull, Occurs
<1>3. \A t : HasNull(t) => HasNull(t)'
  BY <1>1, <1>2 DEF MoreSaid
<1>4. QED
  BY <1>3 DEF NullTold

LEMMA SameReports ==
  ASSUME AllExplained, MoreSaid, UNCHANGED <<files, report>>, w.err # "nil" => w'.err # "nil"
  PROVE  AllExplained'
<1>1. NullTold => NullTold'
  BY NullsStayTold
<1>2. ASSUME NEW i \in 1 .. Len(report), Explained(i)
      PROVE  Explained(i)'
  BY <1>1, <1>2 DEF Explained
<1>3. QED
  BY <1>2 DEF AllExplained

LEMMA OneMoreReport ==
  ASSUME AllExplained, MoreSaid, UNCHANGED files, w.err # "nil" => w'.err # "nil",
         report \in Seq(Reports), NEW r \in Reports, report' = Append(report, r),
         r.type = "read" => files[r.loc].damaged \/ NullTold',
         r.type = "write" => w'.err # "nil" \/ ReadReported
  PROVE  AllExplained' /\ (ReadReported \/ r.type = "read" => ReadReported')
<1>1. PICK n \in Nat : n = Len(report)
  OBVIOUS
<1>2. /\ Len(report') = n + 1 /\ report'[n + 1] = r
      /\ \A i \in 1 .. n : report'[i] = report[i]
  BY <1>1
<1>3. NullTold => NullTold'
  BY NullsStayTold
<1>4. r.type \in {"read", "write"}
  BY DEF Reports
<1>5. ASSUME NEW i \in 1 .. n
      PROVE  Explained(i)'
  <2>1. Explained(i) /\ report'[i] = report[i]
    BY <1>1, <1>2 DEF AllExplained
  <2>2. \A j \in 1 .. i - 1 : report'[j] = report[j]
    BY <1>2
  <2>3. QED
    BY <1>3, <2>1, <2>2 DEF Explained
<1>6. Explained(n + 1)'
  <2>1. CASE r.type = "read"
    BY <1>2, <2>1 DEF Explained
  <2>2. CASE r.type = "write" /\ w'.err # "nil"
    BY <1>2, <2>2 DEF Explained
  <2>3. CASE r.type = "write" /\ ReadReported
    <3>1. PICK j \in 1 .. n : report[j].type = "read"
      BY <1>1, <2>3 DEF ReadReported
    <3>2. j \in 1 .. (n + 1) - 1 /\ report'[j].type = "read"
      BY <1>2, <3>1
    <3>3. QED
      BY <1>2, <2>3, <3>2 DEF Explained
  <2>4. QED
    BY <1>4, <2>1, <2>2, <2>3
<1>7. \A i \in 1 .. n + 1 : i \in 1 .. n \/ i = n + 1
  OBVIOUS
<1>8. AllExplained'
  BY <1>2, <1>5, <1>6, <1>7 DEF AllExplained
<1>9. ReadReported \/ r.type = "read" => ReadReported'
  <2>1. 1 .. n \subseteq 1 .. n + 1 /\ n + 1 \in 1 .. n + 1
    OBVIOUS
  <2>2. QED
    BY <1>1, <1>2, <2>1 DEF ReadReported
<1>10. QED
  BY <1>8, <1>9
-----------------------------------------------------------------------------
(***************************************************************************)
(* The steps.                                                              *)
(***************************************************************************)
\* What every step keeps to.
Goes ==
  /\ pc \notin Over
  /\ UNCHANGED <<files, format, errors>>
  /\ MoreSaid
  /\ Remembers(w, w')
  /\ InOrder' /\ ReaderFit'

FramesTold ==
  /\ frames \in Seq(T!Contexts)
  /\ \A i \in 1 .. Len(frames) : Told(T!Begun(frames[i]))
  /\ pc = "out" => frames # << >>
  /\ pc = "open" => frames = << >>

InStep == IsText /\ w.err = "nil" /\ ~ReadReported /\ pc \notin Over => w.ctx = frames

\* A step without a report.
LEMMA QuietStep ==
  ASSUME Truthful, Goes, report' = report,
         FileFit', FramesTold', InStep', PanicExplained',
         pc' = "switch" => shown'.k = "value" /\ Occurs(EventOf(shown'), said')
  PROVE  Truthful'
<1>1. format' \in Formats
  BY DEF Truthful, Goes, Formats
<1>2. AllExplained'
  <2>1. AllExplained
    BY TrueIsExplained DEF Truthful
  <2>2. QED
    BY <2>1, SameReports DEF Goes, Remembers
<1>3. ReportsAreTrue'
  BY <1>2, TrueIsExplained
<1>4. SaidFit'
  BY DEF SaidFit, FramesTold, Told, Goes, MoreSaid
<1>5. WriterFit'
  <2>1. Fit(w)'
    BY DEF Goes, Remembers, Fit
  <2>2. QED
    BY <2>1 DEF WriterFit, InStep
<1>6. QED
  BY <1>1, <1>3, <1>4, <1>5 DEF Truthful, Goes, Formats

\* A step that gives the file up.
LEMMA GiveUpStep ==
  ASSUME Truthful, Goes, NEW t \in {"read", "write"}, GiveUp(t),
         t = "read" => files[file].damaged \/ NullTold',
         t = "write" => w'.err # "nil"
  PROVE  Truthful'
<1>1. format' \in Formats
  BY DEF Truthful, Goes, Formats
<1>2. file \in Nat \ {0} /\ idx \in Nat /\ report \in Seq(Reports)
  BY DEF Truthful, FileFit, InOrder, Ordered
<1>3. frames' = << >> /\ file' = file + 1 /\ pc' = IF errors THEN "open" ELSE "panic"
  BY DEF GiveUp, Goto
<1>4. FileFit'
  BY <1>2, <1>3 DEF FileFit, Truthful, Goes
<1>5. SaidFit'
  BY <1>3 DEF SaidFit, Goes, MoreSaid
<1>6. AllExplained /\ PanicExplained
  BY TrueIsExplained DEF Truthful
<1> DEFINE r == [type |-> t, loc |-> file, idx |-> idx]
<1>7. r \in Reports /\ r.type = t /\ r.loc = file
  BY <1>2 DEF Reports
<1>8. AllExplained' /\ (errors /\ t = "read" => ReadReported')
  <2>1. CASE errors
    <3>1. report' = Append(report, r)
      BY <2>1 DEF GiveUp, Err
    <3> HIDE DEF r
    <3>2. QED
      BY <1>2, <1>6, <1>7, <2>1, <3>1, OneMoreReport DEF Goes, Remembers
  <2>2. CASE ~errors
    <3>1. report' = report
      BY <2>2 DEF GiveUp
    <3>2. QED
      BY <1>6, <2>2, <3>1, SameReports DEF Goes, Remembers
  <2>3. QED
    BY <2>1, <2>2
<1>9. PanicExplained'
  BY <1>3 DEF PanicExplained, Goes
<1>10. ReportsAreTrue'
  BY <1>8, <1>9, TrueIsExplained
<1>11. WriterFit'
  <2>1. Fit(w)'
    BY DEF Goes, Remembers, Fit
  <2>2. pc' \notin Over => errors
    BY <1>3 DEF Over
  <2>3. pc' \notin Over => ReadReported' \/ w'.err # "nil"
    BY <1>8, <2>2
  <2>4. QED
    BY <2>1, <2>3 DEF WriterFit
<1>12. QED
  BY <1>1, <1>4, <1>5, <1>10, <1>11 DEF Truthful, Goes, Formats

LEMMA SameFrames ==
  ASSUME Truthful, MoreSaid, frames' = frames, pc' \notin {"out", "open"}
  PROVE  FramesTold'
<1>1. frames \in Seq(T!Contexts) /\ \A i \in 1 .. Len(frames) : Told(T!Begun(frames[i]))
  BY DEF Truthful, SaidFit
<1>2. QED
  BY <1>1 DEF FramesTold, Told, MoreSaid

LEMMA SameContainers ==
  ASSUME Truthful, pc \notin Over, UNCHANGED <<format, report, frames>>, Remembers(w, w'), Levelly(w, w')
  PROVE  InStep'
  BY DEF Truthful, WriterFit, InStep, IsText, ReadReported, Remembers, Levelly

LEMMA SameWriter ==
  ASSUME Truthful, w' = w
  PROVE  Remembers(w, w') /\ Levelly(w, w')
  BY DEF Truthful, WriterFit, Remembers, Levelly

LEMMA Running ==
  ASSUME Truthful, Next
  PROVE  pc \notin Over /\ InOrder' /\ IsStack(said) /\ Fit(w) /\ format \in Formats /\ ReaderFit
<1>1. pc \notin Over
  BY DEF Next, Over, Open, OpenFails, NextValue, NoMore, ReadFails, CopyScalar, CopyUntypedNull,
         CopyNull, Enter, EnterFails, Leave, LeaveFails, FinishOutput
<1>2. QED
  BY <1>1, InOrderStep DEF Truthful, SaidFit, WriterFit, Formats

LEMMA OpenTrue ==
  ASSUME Truthful, Next, Open
  PROVE  Truthful'
<1>1. file \in 1 .. Len(files) /\ files \in Seq(SomeFile)
  <2>1. files \in Seq(SomeFile)
    BY InputsAssumption DEF Truthful, FileFit
  <2>2. file \in Nat \ {0} /\ file <= Len(files)
    BY DEF Truthful, FileFit, Open
  <2>3. QED
    BY <2>1, <2>2
<1>2. files[file].values \in Seq(Trees)
  <2>1. files[file] \in SomeFile
    BY <1>1
  <2>2. QED
    BY <2>1 DEF SomeFile
<1>3. /\ values' \in Seq(Trees) /\ path' = <<0>> /\ shown' = Source!Nothing
      /\ damaged' = files[file].damaged
      /\ pc' = "next" /\ UNCHANGED <<files, format, errors, file, frames, report, w, said>>
  BY <1>2 DEF Open, Continue, Goto, NoReport, Inside
<1>4. ReaderFit'
  <2> DEFINE at == [n \in 1 .. 1 |-> values']
  <2>1. Len(<<0>>) = 1 /\ <<0>>[1] = 0 /\ <<0>> \in Seq(Int) /\ <<0>> # << >>
    OBVIOUS
  <2>2. at[1] = values' /\ at \in [1 .. 1 -> Seq(Trees)]
    BY <1>3
  <2>3. Trail(values', at, path')
    BY <1>3, <2>1, <2>2 DEF Trail
  <2>4. 0 \in -1 .. Len(values')
    BY <1>3
  <2> HIDE DEF at
  <2>5. At(at, values', path', shown')
    BY <1>3, <2>1, <2>2, <2>3, <2>4, NothingShown DEF At
  <2>6. QED
    BY <1>3, <2>5 DEF At, ReaderFit, Source!Here
<1>5. Goes
  BY <1>3, <1>4, Running, SameIsTold, SameWriter DEF Goes
<1>6. FileFit'
  BY <1>1, <1>3 DEF FileFit, Truthful
<1>7. FramesTold' /\ InStep' /\ PanicExplained'
  BY <1>3, <1>5, SameFrames, SameContainers, SameWriter DEF Goes, PanicExplained
<1>8. QED
  BY <1>3, <1>5, <1>6, <1>7, QuietStep

LEMMA OpenFailsTrue ==
  ASSUME Truthful, Next, OpenFails
  PROVE  Truthful'
<1>1. /\ pc' = "stopped" /\ UNCHANGED <<files, format, errors, file, frames, report, w, said>>
      /\ UNCHANGED <<values, path, shown>>
  BY DEF OpenFails, Continue, Goto, NoReport, Inside, Still, reader
<1>2. Goes
  BY <1>1, Running, RefuseFit, SameIsTold, SameWriter DEF Goes
<1>3. FileFit' /\ FramesTold' /\ InStep' /\ PanicExplained'
  BY <1>1, <1>2, SameFrames, SameContainers, SameWriter DEF Goes, PanicExplained, FileFit, Truthful
<1>4. QED
  BY <1>1, <1>2, <1>3, QuietStep

LEMMA NextValueTrue ==
  ASSUME Truthful, Next, NextValue
  PROVE  Truthful'
<1>1. /\ pc = "next" /\ UNCHANGED <<values, damaged, files, format, errors>>
      /\ Source!Advance
      /\ w' = PassNames(w, shown')
      /\ said' = said \o Prefix(shown') \o <<EventOf(shown')>>
  BY DEF NextValue, Inside
<1>2. ReaderFit' /\ shown'.k = "value"
  BY <1>1, Running, AdvanceFit
<1>3. PICK v \in Trees : shown' = v.view
  BY <1>1, Running, AdvanceFit
<1>4. MoreSaid /\ Occurs(EventOf(shown'), said')
  BY <1>1, <1>3, Running, ValueIsTold
<1>5. Remembers(w, w') /\ Levelly(w, w') /\ (w'.ret # "nil" => w'.err # "nil")
  BY <1>1, Running, PassNamesKeeps
<1>6. Goes
  BY <1>1, <1>2, <1>4, <1>5, Running DEF Goes
<1>7. CASE w'.ret = "nil"
  <2>1. pc' = "switch" /\ UNCHANGED <<file, frames, report>>
    BY <1>7 DEF NextValue, Continue, Goto, NoReport
  <2>2. FileFit' /\ FramesTold' /\ InStep' /\ PanicExplained'
    BY <1>1, <1>4, <1>5, <1>6, <2>1, SameFrames, SameContainers
       DEF Goes, PanicExplained, FileFit, Truthful
  <2>3. QED
    BY <1>2, <1>4, <1>6, <2>1, <2>2, QuietStep
<1>8. CASE w'.ret # "nil"
  BY <1>5, <1>6, <1>8, GiveUpStep DEF NextValue
<1>9. QED
  BY <1>7, <1>8

LEMMA NoMoreTrue ==
  ASSUME Truthful, Next, NoMore
  PROVE  Truthful'
<1>1. /\ pc = "next" /\ UNCHANGED <<values, damaged, files, format, errors, frames, report, w, said>>
      /\ Source!End
      /\ \/ frames = << >> /\ pc' = "open" /\ file' = file + 1
         \/ frames # << >> /\ pc' = "out" /\ file' = file
  BY DEF NoMore, Inside, Goto, NoReport
<1>2. Goes
  BY <1>1, Running, EndFit, SameIsTold, SameWriter DEF Goes
<1>3. FileFit' /\ PanicExplained'
  BY <1>1 DEF FileFit, Truthful, PanicExplained
<1>4. InStep'
  BY <1>1, <1>2, SameContainers, SameWriter DEF Goes
<1>5. FramesTold'
  BY <1>1, <1>2 DEF FramesTold, Truthful, SaidFit, Told, Goes, MoreSaid
<1>6. QED
  BY <1>1, <1>2, <1>3, <1>4, <1>5, QuietStep

\* A reader only fails on a damaged file.
LEMMA ReadFailsTrue ==
  ASSUME Truthful, Next, ReadFails
  PROVE  Truthful'
<1>1. /\ pc = "next" /\ UNCHANGED <<values, files, format, errors, w, said>>
      /\ Source!Fail("Next") /\ GiveUp("read")
  BY DEF ReadFails, Inside
<1>2. Goes
  BY <1>1, Running, FailFit, SameIsTold, SameWriter DEF Goes
<1>3. files[file].damaged
  BY <1>1 DEF Truthful, FileFit, Source!Fail
<1>4. QED
  BY <1>1, <1>2, <1>3, GiveUpStep

\* The error of a scalar is not looked at; the writer has it, or it is lost with a lob.
LEMMA CopyScalarTrue ==
  ASSUME Truthful, Next, CopyScalar
  PROVE  Truthful'
<1>1. /\ pc = "switch" /\ pc' = "next" /\ UNCHANGED <<values, damaged, path, shown>>
      /\ UNCHANGED <<files, format, errors, file, frames, report, said>>
      /\ w' = WriteScalar(w, shown)
  BY DEF CopyScalar, Continue, Goto, NoReport, Inside, Still, reader
<1>2. Remembers(w, w') /\ Levelly(w, w')
  BY <1>1, Running, WriteScalarKeeps
<1>3. Goes
  BY <1>1, <1>2, Running, RefuseFit, SameIsTold DEF Goes
<1>4. FileFit' /\ FramesTold' /\ InStep' /\ PanicExplained'
  BY <1>1, <1>2, <1>3, SameFrames, SameContainers DEF Goes, PanicExplained, FileFit, Truthful
<1>5. QED
  BY <1>1, <1>3, <1>4, QuietStep

LEMMA CopyUntypedNullTrue ==
  ASSUME Truthful, Next, CopyUntypedNull
  PROVE  Truthful'
<1>1. /\ pc = "switch" /\ UNCHANGED <<values, damaged, path, shown, files, format, errors, said>>
      /\ w' = WriteScalar(w, shown) /\ shown.type = "null" /\ Checked("next")
  BY DEF CopyUntypedNull, Inside, Still, reader
<1>2. Remembers(w, w') /\ Levelly(w, w') /\ Tells(w') /\ w'.ret # "panic"
  BY <1>1, Running, WriteScalarKeeps
<1>3. Goes
  BY <1>1, <1>2, Running, RefuseFit, SameIsTold DEF Goes
<1>4. CASE w'.ret = "nil"
  <2>1. pc' = "next" /\ UNCHANGED <<file, frames, report>>
    BY <1>1, <1>4 DEF Checked, Continue, Goto, NoReport
  <2>2. FileFit' /\ FramesTold' /\ InStep' /\ PanicExplained'
    BY <1>1, <1>2, <1>3, <2>1, SameFrames, SameContainers DEF Goes, PanicExplained, FileFit, Truthful
  <2>3. QED
    BY <1>3, <2>1, <2>2, QuietStep
<1>5. CASE w'.ret # "nil"
  <2>1. GiveUp("write")
    BY <1>1, <1>2, <1>5 DEF Checked
  <2>2. w'.err # "nil"
    BY <1>2, <1>5 DEF Tells
  <2>3. QED
    BY <1>3, <2>1, <2>2, GiveUpStep
<1>6. QED
  BY <1>4, <1>5

\* What was shown last was told as what it is.
LEMMA NullIsTold ==
  ASSUME Truthful, pc = "switch", ~shown.set, shown.type # "null"
  PROVE  HasNull(shown.type)
<1>1. Occurs(EventOf(shown), said)
  BY DEF Truthful, SaidFit, Told
<1>2. EventOf(shown) = [e |-> "null", type |-> shown.type]
  BY DEF EventOf
<1>3. QED
  BY <1>1, <1>2 DEF HasNull, Occurs

LEMMA CopyNullTrue ==
  ASSUME Truthful, Next, CopyNull
  PROVE  Truthful'
<1>1. /\ pc = "switch" /\ UNCHANGED <<values, damaged, path, shown, files, format, errors, said>>
      /\ ~shown.set /\ shown.type # "null" /\ shown.type \notin T!Contexts
  BY DEF CopyNull, Inside, Still, reader
<1>2. /\ w' = w \/ \E view : w' = WriteScalar(w, view)
      /\ UNCHANGED <<file, frames, report>>
      /\ pc' = "next" \/ (pc' = "panic" /\ Panics(shown.type))
  BY Zenon DEF CopyNull, PassNull, Continue, Goto, NoReport
<1>3. Remembers(w, w') /\ Levelly(w, w')
  BY <1>2, Running, WriteScalarKeeps, SameWriter
<1>4. Goes
  BY <1>1, <1>3, Running, RefuseFit, SameIsTold DEF Goes
<1>5. PanicExplained'
  <2>1. CASE pc' = "next"
    BY <2>1 DEF PanicExplained
  <2>2. CASE pc' = "panic" /\ Panics(shown.type)
    <3> DEFINE Type == shown.type
    <3>1. Type \in {"bool", "int", "float", "timestamp"} \/ (IsText' /\ Type = "decimal")
      BY <1>1, <2>2 DEF Panics, IsText
    <3>2. Occurs([e |-> "null", type |-> Type], said')
      BY <1>1, <1>4, NullIsTold DEF Goes, MoreSaid, HasNull, Occurs
    <3> HIDE DEF Type
    <3>3. \E i \in 1 .. Len(said') : said'[i] = [e |-> "null", type |-> Type]
      BY <3>2 DEF Occurs
    <3>4. QED
      BY <3>1, <3>3 DEF PanicExplained, HasNull
  <2>3. QED
    BY <1>2, <2>1, <2>2
<1>6. FileFit' /\ FramesTold' /\ InStep'
  BY <1>1, <1>2, <1>3, <1>4, SameFrames, SameContainers DEF Goes, FileFit, Truthful
<1>7. QED
  BY <1>2, <1>4, <1>5, <1>6, QuietStep

LEMMA EnterTrue ==
  ASSUME Truthful, Next, Enter
  PROVE  Truthful'
<1> DEFINE c == shown.type
<1>1. /\ pc = "switch" /\ UNCHANGED <<values, damaged, files, format, errors, said>>
      /\ Source!StepIn /\ w' = Begin(w, c)
  BY DEF Enter, Inside
<1>2. Remembers(w, w') /\ Tells(w') /\ (w'.ret = "panic" => format = "events" /\ c = "struct")
      /\ (IsText /\ w'.ret = "nil" => w'.ctx = Append(w.ctx, c))
  BY <1>1, Running, BeginKeeps
<1>3. Goes
  BY <1>1, <1>2, Running, StepInFit, SameIsTold DEF Goes
<1>4. c \in T!Contexts /\ shown.set
  BY <1>1 DEF Source!StepIn, Source!IsContainer, T!Contexts
<1>5. Told(T!Begun(c))
  <2>1. EventOf(shown) = T!Begun(c)
    BY <1>4 DEF EventOf, T!Contexts
  <2>2. QED
    BY <1>1, <2>1 DEF Truthful, SaidFit
<1> HIDE DEF c
<1>6. frames \in Seq(T!Contexts) /\ \A i \in 1 .. Len(frames) : Told(T!Begun(frames[i]))
  BY DEF Truthful, SaidFit
<1>7. CASE w'.ret = "nil"
  <2>1. pc' = "next" /\ frames' = Append(frames, c) /\ UNCHANGED <<file, report>>
    BY <1>7 DEF Enter, Goto, NoReport, c
  <2>2. FramesTold'
    <3>1. frames' \in Seq(T!Contexts) /\ Len(frames') = Len(frames) + 1 /\ frames'[Len(frames) + 1] = c
          /\ \A i \in 1 .. Len(frames) : frames'[i] = frames[i]
      BY <1>4, <1>6, <2>1
    <3>2. Len(frames) \in Nat
      BY <1>6
    <3>3. \A i \in 1 .. Len(frames') : i \in 1 .. Len(frames) \/ i = Len(frames) + 1
      BY <3>1, <3>2
    <3>4. \A i \in 1 .. Len(frames') : Told(T!Begun(frames'[i]))
      BY <1>5, <1>6, <3>1, <3>3
    <3>5. QED
      BY <1>1, <2>1, <3>1, <3>4 DEF FramesTold, Told
  <2>3. InStep'
    <3>1. IsText /\ w'.err = "nil" /\ ~ReadReported => w.err = "nil" /\ w.ctx = frames
      BY <1>2, <1>3 DEF Truthful, WriterFit, Remembers, Goes
    <3>2. QED
      BY <1>1, <1>2, <1>7, <2>1, <3>1 DEF InStep, IsText, ReadReported
  <2>4. FileFit' /\ PanicExplained'
    BY <1>1, <2>1 DEF FileFit, Truthful, PanicExplained
  <2>5. QED
    BY <1>3, <2>1, <2>2, <2>3, <2>4, QuietStep
<1>8. CASE w'.ret = "panic"
  <2>1. pc' = "panic" /\ UNCHANGED <<file, frames, report>>
    BY <1>8 DEF Enter, Checked, Continue, Goto, NoReport
  <2>2. PanicExplained'
    BY <1>1, <1>2, <1>5, <1>8 DEF PanicExplained, Told
  <2>3. FileFit' /\ FramesTold' /\ InStep'
    BY <1>1, <1>3, <2>1, SameFrames DEF Goes, FileFit, Truthful, InStep, Over
  <2>4. QED
    BY <1>3, <2>1, <2>2, <2>3, QuietStep
<1>9. CASE w'.ret \notin {"nil", "panic"}
  <2>1. GiveUp("write") /\ w'.err # "nil"
    BY <1>2, <1>9 DEF Enter, Checked, Tells
  <2>2. QED
    BY <1>3, <2>1, GiveUpStep
<1>10. QED
  BY <1>7, <1>8, <1>9

\* StepIn refuses the null of a container, which was told as one.
LEMMA EnterFailsTrue ==
  ASSUME Truthful, Next, EnterFails
  PROVE  Truthful'
<1>1. /\ pc = "switch" /\ UNCHANGED <<values, files, format, errors, w, said>>
      /\ shown.type \in T!Contexts /\ ~shown.set
      /\ UNCHANGED <<path, shown>> /\ GiveUp("read")
  BY DEF EnterFails, Inside, Source!RefuseStepIn
<1>2. Goes
  BY <1>1, Running, RefuseFit, SameIsTold, SameWriter DEF Goes
<1>3. HasNull(shown.type)
  BY <1>1, NullIsTold DEF T!Contexts
<1>4. NullTold
  BY <1>1, <1>3 DEF NullTold
<1>5. NullTold'
  BY <1>2, <1>4, NullsStayTold DEF Goes
<1>6. QED
  BY <1>1, <1>2, <1>5, GiveUpStep

LEMMA LeaveTrue ==
  ASSUME Truthful, Next, Leave
  PROVE  Truthful'
<1> DEFINE c == T!Top(frames)
<1>1. /\ pc = "out" /\ UNCHANGED <<values, damaged, files, format, errors>>
      /\ Source!StepOut /\ w' = End(w, c) /\ said' = Append(said, T!Ended(c))
  BY DEF Leave, Inside
<1>2. Remembers(w, w') /\ Tells(w') /\ (w'.ret = "panic" => format = "events" /\ c = "struct")
      /\ (IsText /\ w'.ret = "nil" => w'.ctx = T!Pop(w.ctx))
  BY <1>1, Running, EndKeeps
<1>3. Goes
  BY <1>1, <1>2, Running, StepOutFit, EndIsTold DEF Goes
<1>4. /\ frames \in Seq(T!Contexts) /\ frames # << >>
      /\ \A i \in 1 .. Len(frames) : Told(T!Begun(frames[i]))
  BY <1>1 DEF Truthful, SaidFit
<1>5. Occurs(T!Begun(c), said')
  <2>1. Len(frames) \in 1 .. Len(frames)
    BY <1>4
  <2>2. Told(T!Begun(c))
    BY <1>4, <2>1 DEF T!Top
  <2>3. QED
    BY <1>3, <2>2 DEF Told, Goes, MoreSaid
<1> HIDE DEF c
<1>6. CASE w'.ret = "nil"
  <2>1. pc' = "next" /\ frames' = T!Pop(frames) /\ UNCHANGED <<file, report>>
    BY <1>6 DEF Leave, Goto, NoReport
  <2>2. FramesTold'
    <3>1. PICK n \in Nat : n = Len(frames) /\ n >= 1
      BY <1>4
    <3>2. frames' \in Seq(T!Contexts) /\ Len(frames') = n - 1
          /\ \A i \in 1 .. n - 1 : frames'[i] = frames[i]
      BY <1>4, <2>1, <3>1 DEF T!Pop
    <3>3. \A i \in 1 .. n - 1 : Occurs(T!Begun(frames[i]), said')
      BY <1>3, <1>4, <3>1 DEF Told, Goes, MoreSaid
    <3>4. QED
      BY <2>1, <3>2, <3>3 DEF FramesTold, Told
  <2>3. InStep'
    <3>1. IsText /\ w'.err = "nil" /\ ~ReadReported => w.err = "nil" /\ w.ctx = frames
      BY <1>2, <1>3 DEF Truthful, WriterFit, Remembers, Goes
    <3>2. QED
      BY <1>1, <1>2, <1>6, <2>1, <3>1 DEF InStep, IsText, ReadReported
  <2>4. FileFit' /\ PanicExplained'
    BY <1>1, <2>1 DEF FileFit, Truthful, PanicExplained
  <2>5. QED
    BY <1>3, <2>1, <2>2, <2>3, <2>4, QuietStep
<1>7. CASE w'.ret = "panic"
  <2>1. pc' = "panic" /\ UNCHANGED <<file, frames, report>>
    BY <1>7 DEF Leave, Checked, Continue, Goto, NoReport
  <2>2. PanicExplained'
    <3>1. format' = "events" /\ Occurs(T!Begun("struct"), said')
      BY <1>1, <1>2, <1>5, <1>7
    <3>2. QED
      BY <3>1 DEF PanicExplained, Told
  <2>3. FileFit' /\ FramesTold' /\ InStep'
    BY <1>1, <1>3, <2>1, SameFrames DEF Goes, FileFit, Truthful, InStep, Over
  <2>4. QED
    BY <1>3, <2>1, <2>2, <2>3, QuietStep
<1>8. CASE w'.ret \notin {"nil", "panic"}
  <2>1. GiveUp("write") /\ w'.err # "nil"
    BY <1>2, <1>8 DEF Leave, Checked, Tells
  <2>2. QED
    BY <1>3, <2>1, GiveUpStep
<1>9. QED
  BY <1>6, <1>7, <1>8

LEMMA LeaveFailsTrue ==
  ASSUME Truthful, Next, LeaveFails
  PROVE  Truthful'
<1>1. /\ pc = "out" /\ UNCHANGED <<values, files, format, errors, w, said>>
      /\ damaged /\ UNCHANGED <<path, shown>> /\ GiveUp("read")
  BY DEF LeaveFails, Inside, Source!RefuseStepOut
<1>2. Goes
  BY <1>1, Running, RefuseFit, SameIsTold, SameWriter DEF Goes
<1>3. files[file].damaged
  BY <1>1 DEF Truthful, FileFit
<1>4. QED
  BY <1>1, <1>2, <1>3, GiveUpStep

\* Finish reports what the writer has in store, or that it is still in a container,
\* which is what a read error left behind.
LEMMA FinishTrue ==
  ASSUME Truthful, Next, FinishOutput
  PROVE  Truthful'
<1>1. /\ pc = "open" /\ UNCHANGED <<values, path, shown, files, format, errors, file, frames, idx, said>>
      /\ w' = Finish(w)
  BY DEF FinishOutput, Inside, Still, reader
<1>2. Remembers(w, w')
      /\ (w'.ret # "nil" => w'.err # "nil" \/ (IsText /\ w.err = "nil" /\ w.ctx # << >>))
  BY <1>1, Running, FinishKeeps
<1>3. Goes
  BY <1>1, <1>2, Running, RefuseFit, SameIsTold DEF Goes
<1>4. /\ report' = IF w'.ret # "nil" /\ errors THEN Append(report, Err("write")) ELSE report
      /\ pc' = IF w'.ret # "nil" /\ ~errors THEN "panic" ELSE "done"
  BY DEF FinishOutput, Goto
<1>5. AllExplained
  BY TrueIsExplained DEF Truthful
<1>6. AllExplained'
  <2>1. CASE report' = report
    BY <1>1, <1>3, <1>5, <2>1, SameReports DEF Goes, Remembers
  <2>2. CASE w'.ret # "nil" /\ report' = Append(report, Err("write"))
    <3>1. w'.err # "nil" \/ ReadReported
      <4>1. CASE IsText /\ w.err = "nil" /\ w.ctx # << >> /\ ~ReadReported
        <5>1. w.ctx = frames
          BY <1>1, <4>1 DEF Truthful, WriterFit, Over
        <5>2. frames = << >>
          BY <1>1 DEF Truthful, SaidFit
        <5>3. QED
          BY <4>1, <5>1, <5>2
      <4>2. QED
        BY <1>2, <2>2, <4>1
    <3>2. report \in Seq(Reports) /\ Err("write") \in Reports /\ Err("write").type = "write"
      BY DEF Truthful, InOrder, Ordered, Err, Reports
    <3>3. QED
      BY <1>1, <1>3, <1>5, <2>2, <3>1, <3>2, OneMoreReport DEF Goes, Remembers
  <2>3. QED
    BY <1>4, <2>1, <2>2
<1>7. PanicExplained'
  BY <1>1, <1>4 DEF PanicExplained
<1>8. ReportsAreTrue'
  BY <1>6, <1>7, TrueIsExplained
<1>9. pc' \in Over /\ pc' # "switch" /\ pc' # "out"
  BY <1>4 DEF Over
<1>10. FileFit'
  BY <1>1, <1>4 DEF FileFit, Truthful
<1>11. SaidFit'
  BY <1>1, <1>9 DEF SaidFit, Truthful, Told
<1>12. WriterFit'
  <2>1. Fit(w)'
    BY <1>1, <1>2 DEF Remembers, Fit
  <2>2. QED
    BY <1>9, <2>1 DEF WriterFit
<1>13. QED
  BY <1>1, <1>3, <1>8, <1>10, <1>11, <1>12 DEF Truthful, Goes

LEMMA NewWriterFit ==
  ASSUME NEW fmt \in Formats, NEW fault, format = fmt
  PROVE  LET v == NewWriter(fmt, fault)
         IN  Fit(v) /\ (fmt # "events" => v.ctx = << >>)
<1> DEFINE v == NewWriter(fmt, fault)
<1>1. CASE fmt = "events"
  <2> DEFINE v0 == [out |-> << >>, writes |-> 0, fault |-> fault, err |-> "nil", ret |-> "nil",
                    ctx |-> << >>, depth |-> 0, fieldName |-> E!NoName, annotations |-> << >>]
  <2>1. EventFit(v0)
    BY DEF EventFit, EventFields, Errs
  <2>2. v = E!Encode(v0, [k |-> "stream"])
    BY <1>1 DEF NewWriter, E!NewEventWriter
  <2> HIDE DEF v0, v
  <2>3. EventFit(v)
    BY <2>1, <2>2, EncodeCall DEF EventCall
  <2>4. QED
    BY <1>1, <2>3 DEF Fit, v
<1>2. CASE fmt # "events"
  <2>1. v = T!NewTextWriter(fmt = "pretty", FALSE, T!NewBuilder(<< >>), fault)
    BY <1>2 DEF NewWriter
  <2>2. TextFit(v) /\ v.ret = "nil" /\ v.ctx = << >>
    BY <2>1 DEF T!NewTextWriter, TextFit, TextFields, Errs
  <2>3. QED
    BY <1>2, <2>2 DEF Fit
<1>3. QED
  BY <1>1, <1>2

LEMMA TruthfulInit == Init => Truthful
<1> SUFFICES ASSUME Init
             PROVE  Truthful
  OBVIOUS
<1>1. /\ files \in Inputs /\ file = 1 /\ pc = "open" /\ frames = << >> /\ report = << >> /\ said = << >>
      /\ values = << >> /\ path = <<0>> /\ shown = Source!Nothing
  BY DEF Init, Source!Init
<1>2. PICK o \in Outputs : format = o.format /\ w = NewWriter(o.format, o.fault)
  BY DEF Init
<1>3. format \in Formats
  BY <1>2, InputsAssumption DEF Formats
<1>4. Fit(w) /\ (format # "events" => w.ctx = << >>)
  BY <1>2, <1>3, NewWriterFit
<1>5. InOrder
  BY InOrderInit
<1>6. FileFit
  BY <1>1 DEF FileFit
<1>7. ReaderFit
  <2> DEFINE at == [n \in 1 .. 1 |-> << >>]
  <2>1. Len(<<0>>) = 1 /\ <<0>>[1] = 0 /\ <<0>> \in Seq(Int) /\ <<0>> # << >>
    OBVIOUS
  <2>2. at[1] = << >> /\ at \in [1 .. 1 -> Seq(Trees)] /\ Len(<< >>) = 0
    OBVIOUS
  <2> HIDE DEF at
  <2>3. Trail(values, at, path)
    BY <1>1, <2>1, <2>2 DEF Trail
  <2>4. 0 \in -1 .. Len(<< >>)
    BY <2>2
  <2>5. At(at, values, path, shown)
    BY <1>1, <2>1, <2>2, <2>3, <2>4, NothingShown DEF At
  <2>6. QED
    BY <1>1, <2>5, AtFit
<1>8. SaidFit
  <2>1. IsStack(said)
    <3>1. << >> \in Seq({})
      OBVIOUS
    <3>2. QED
      BY <1>1, <3>1, Zenon DEF IsStack
  <2>2. QED
    BY <1>1, <2>1 DEF SaidFit
<1>9. WriterFit
  BY <1>1, <1>4 DEF WriterFit, IsText
<1>10. ReportsAreTrue
  BY <1>1 DEF ReportsAreTrue
<1>11. QED
  BY <1>3, <1>5, <1>6, <1>7, <1>8, <1>9, <1>10 DEF Truthful, Formats

LEMMA TruthfulStep == Truthful /\ [Next]_vars => Truthful'
<1> SUFFICES ASSUME Truthful, [Next]_vars
             PROVE  Truthful'
  OBVIOUS
<1>1. CASE UNCHANGED vars
  <2>1. UNCHANGED <<files, format, errors, file, pc, frames, idx, report, w, said>>
        /\ UNCHANGED <<values, damaged, path, shown>>
    BY <1>1 DEF vars, reader
  <2>2. InOrder'
    BY <1>1, InOrderStep DEF Truthful
  <2>3. FileFit' /\ SaidFit' /\ ReaderFit'
    BY <2>1, RefuseFit DEF Truthful, FileFit, SaidFit, Told
  <2>4. WriterFit'
    BY <2>1 DEF Truthful, WriterFit, Fit, IsText, ReadReported
  <2>5. ReportsAreTrue'
    BY <2>1 DEF Truthful, ReportsAreTrue, HasNull, IsText
  <2>6. QED
    BY <2>1, <2>2, <2>3, <2>4, <2>5 DEF Truthful
<1>2. CASE Next
  BY <1>2, OpenTrue, OpenFailsTrue, NextValueTrue, NoMoreTrue, ReadFailsTrue, CopyScalarTrue,
     CopyUntypedNullTrue, CopyNullTrue, EnterTrue, EnterFailsTrue, LeaveTrue, LeaveFailsTrue,
     FinishTrue DEF Next
<1>3. QED
  BY <1>1, <1>2

\* What the command reports did happen: a read error is of a damaged file or of the null of
\* a container, a write error is remembered by the writer or follows a file that was
\* left inside a container; and the command panics only over nulls of some types, a
\* struct among events, or a report that cannot be written (process.go:140-359,
\* eventwriter.go:218).
THEOREM WhatIsReportedHappened == Spec => []ReportsAreTrue
<1>1. Truthful => ReportsAreTrue
  BY DEF Truthful
<1>2. QED
  BY <1>1, TruthfulInit, TruthfulStep, PTL DEF Spec
=============================================================================
