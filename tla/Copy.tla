-------------------------------- MODULE Copy --------------------------------
(***************************************************************************)
(* ion-go process (cmd/ion-go/process.go, schema.go, util.go): the files   *)
(* of the command line are copied, one behind the other, from a reader     *)
(* each to one writer.                                                     *)
(*                                                                         *)
(* The reader is a Cursor over the values of the file, which may be        *)
(* damaged.  The writer is that of TextWriter, the writer of events, or    *)
(* none.  The command runs by itself: one action for each thing it does    *)
(* between two looks at the reader.                                        *)
(***************************************************************************)
EXTENDS Integers, Sequences, FiniteSets

CONSTANTS
  Trees,       \* the values of the files, at any depth: what is shown, and the values inside
  Inputs,      \* sequences of files: may it be opened, its values, is it damaged
  Outputs,     \* the format ("text", "pretty", "events", "none"), the fault of the output
               \* as for a Writer, and whether the error report can be written
  Text, NoText, SidText, NotBare

Types ==
  {"null", "bool", "int", "float", "decimal", "timestamp", "symbol", "string", "clob", "blob",
   "list", "sexp", "struct"}

ASSUME TreesAssumption ==
  \A v \in Trees : /\ v.items \in Seq(Trees)
                   /\ v.view.k = "value" /\ v.view.type \in Types
                   /\ v.view.annotations \in Seq([text : Text \cup {NoText}, sid : Int])

SomeFile == [opens : BOOLEAN, damaged : BOOLEAN, values : Seq(Trees)]

ASSUME InputsAssumption ==
  /\ \A fs \in Inputs : fs \in Seq(SomeFile)
  /\ \A o \in Outputs : o.format \in {"text", "pretty", "events", "none"}

VARIABLES
  files, format, errors,          \* the command line; can the error report be written?
  file,                           \* the file being copied
  pc,                             \* what the command does next
  frames,                         \* the containers process() is in, one call each
  idx,
  report,
  w,                              \* the writer
  said,                           \* history: the events of what the reader showed
  values, damaged, path, shown, answer    \* the reader

reader == <<values, damaged, path, shown, answer>>
vars   == <<files, format, errors, file, pc, frames, idx, report, w, said, reader>>

Source == INSTANCE Cursor

\* The writers.  Nobody but the command calls them.
T == INSTANCE TextMeaning WITH
       kept <- TRUE, Faults <- {}, Imports <- << >>, Names <- {}, Marks <- {}, Kinds <- {}, Options <- {},
       Scalars <- {}, Symbols <- {}, Strings <- {}, GoOn <- FALSE, MaxMarks <- 0,
       MaxDepth <- 0, MaxWrites <- 0, MaxSaid <- 0
E == INSTANCE EventWriter WITH
       kept <- TRUE, Faults <- {}, Imports <- << >>, Names <- {}, Marks <- {}, Kinds <- {}, GoOn <- FALSE,
       MaxMarks <- 0, MaxDepth <- 0, MaxWrites <- 0, MaxSaid <- 0

IsText == format \in {"text", "pretty"}

\* Both error reports and what main prints.
Err(type) == [type |-> type, loc |-> file, idx |-> idx]
-----------------------------------------------------------------------------
(***************************************************************************)
(* The events of a value, and the calls that write them.                   *)
(***************************************************************************)
Lexeme(view) ==
  CASE view.type = "string"          -> T!String(view.data)
    [] view.type \in {"clob", "blob"} -> T!Lob(view.data)
    [] OTHER                         -> T!Raw(view.data)

Prefix(view) ==
  (IF view.fieldName = T!NoName THEN << >>
   ELSE <<[e |-> "field", name |-> T!Meant(view.fieldName)]>>)
  \o [i \in 1 .. Len(view.annotations) |->
        [e |-> "annotation", name |-> T!Meant(view.annotations[i])]]

EventOf(view) ==
  IF view.type \in {"list", "sexp", "struct"} /\ view.set THEN T!Begun(view.type)
  ELSE IF view.type # "null" /\ ~view.set THEN [e |-> "null", type |-> view.type]
  ELSE IF view.type = "symbol" THEN [e |-> "symbol", name |-> T!Meant(view.token)]
  ELSE T!Scalar(Lexeme(view))

\* FieldName and Annotations, up to the first error.
PassNames(v, view) ==
  LET v1 == IF view.fieldName = T!NoName THEN T!Return(v, "nil")
            ELSE IF IsText THEN T!FieldName(v, view.fieldName)
            ELSE IF format = "events" THEN E!EventFieldName(v, view.fieldName) ELSE v
  IN  IF v1.ret # "nil" \/ view.annotations = << >> THEN v1
      ELSE IF IsText THEN T!Annotations(v1, view.annotations)
      ELSE IF format = "events" THEN E!EventAnnotations(v1, view.annotations) ELSE v1

WriteScalar(v, view) ==
  IF format = "none" THEN v
  ELSE IF format = "events" THEN E!WriteScalar(v, EventOf(view))
  ELSE IF view.type = "symbol" THEN T!WriteSymbol(v, view.token)
  ELSE T!WriteLexeme(v, Lexeme(view))

\* The value of a null is no pointer or no bytes.  A text writer takes no bytes for an
\* empty lob, and so do events of a clob; other events show a null.
EmptyLob(view) == [view EXCEPT !.data = "", !.set = TRUE]

Panics(type) ==
  type \in {"bool", "int", "float", "timestamp"} \/ (type = "decimal" /\ IsText)

PassNull(v, view) ==
  CASE view.type \in {"symbol", "string"}                     -> v
    [] view.type = "clob" \/ (view.type = "blob" /\ IsText) -> WriteScalar(v, EmptyLob(view))
    [] OTHER                                                 -> WriteScalar(v, view)

Begin(v, c) ==
  CASE IsText -> T!Begin(v, c) [] format = "events" -> E!BeginEvent(v, T!Begun(c)) [] OTHER -> v

End(v, c) ==
  CASE IsText -> T!End(v, c) [] format = "events" -> E!EndEvent(v, T!Ended(c)) [] OTHER -> v

Finish(v) ==
  CASE IsText -> T!Finish(v) [] format = "events" -> E!FinishEvents(v) [] OTHER -> v

NewWriter(fmt, fault) ==
  IF fmt = "events" THEN E!NewEventWriter(fault)
  ELSE T!NewTextWriter(fmt = "pretty", FALSE, T!NewBuilder(<< >>), fault)
-----------------------------------------------------------------------------
(***************************************************************************)
(* What the command goes on with.                                          *)
(***************************************************************************)
Goto(label)   == pc' = label
NoReport      == report' = report
Continue(label) == Goto(label) /\ NoReport /\ UNCHANGED <<file, frames>>

\* Append to the report and return through all calls of process(); Append panics
\* when it cannot write.
GiveUp_EachCall(type) ==
  /\ report' = report \o [i \in 1 .. Len(frames) + 1 |-> Err(type)]
  /\ Goto("open") /\ file' = file + 1 /\ frames' = << >>

GiveUp(type) ==
  /\ report' = IF errors THEN Append(report, Err(type)) ELSE report
  /\ Goto(IF errors THEN "open" ELSE "panic")
  /\ file' = file + 1
  /\ frames' = << >>

\* After a call of the writer whose error is looked at.
Checked(label) ==
  CASE w'.ret = "nil"   -> Continue(label)
    [] w'.ret = "panic" -> Continue("panic")
    [] OTHER            -> GiveUp("write")

Inside == UNCHANGED <<files, format, errors>>
Still  == UNCHANGED reader
-----------------------------------------------------------------------------
Open ==
  /\ pc = "open" /\ file <= Len(files)
  /\ files[file].opens
  /\ values' = files[file].values /\ damaged' = files[file].damaged
  /\ path' = <<0>> /\ shown' = Source!Nothing /\ answer' = Source!Returned("new", TRUE)
  /\ Continue("next")
  /\ UNCHANGED <<idx, w, said>> /\ Inside

OpenFails_Retries ==
  /\ pc = "open" /\ file <= Len(files)
  /\ ~files[file].opens
  /\ Continue("open")
  /\ UNCHANGED <<idx, w, said>> /\ Still /\ Inside

\* The error goes to main: what is copied so far stays as it is.
OpenFails ==
  /\ pc = "open" /\ file <= Len(files)
  /\ ~files[file].opens
  /\ Continue("stopped")
  /\ UNCHANGED <<idx, w, said>> /\ Still /\ Inside

\* in.Next, in.FieldName, in.Annotations.
NextValue ==
  /\ pc = "next" /\ Source!Advance /\ UNCHANGED <<values, damaged>>
  /\ idx' = idx + 1
  /\ w' = PassNames(w, shown')
  /\ said' = said \o Prefix(shown') \o <<EventOf(shown')>>
  /\ IF w'.ret = "nil" THEN Continue("switch") ELSE GiveUp("write")
  /\ Inside

NoMore_Reports ==
  /\ pc = "next" /\ Source!End /\ UNCHANGED <<values, damaged>>
  /\ GiveUp("read")
  /\ UNCHANGED <<idx, w, said>> /\ Inside

\* Next returns false: the end of the file, or of the call for a container.
NoMore ==
  /\ pc = "next" /\ Source!End /\ UNCHANGED <<values, damaged>>
  /\ IF frames = << >> THEN Goto("open") /\ file' = file + 1 ELSE Goto("out") /\ file' = file
  /\ NoReport /\ UNCHANGED <<frames, idx, w, said>> /\ Inside

ReadFails ==
  /\ pc = "next" /\ Source!Fail("Next") /\ UNCHANGED <<values, damaged>>
  /\ GiveUp("read")
  /\ UNCHANGED <<idx, w, said>> /\ Inside

\* The error of WriteX lands in the err of the case, which nobody looks at; that of
\* WriteNull does not.
CopyScalar ==
  /\ pc = "switch" /\ shown.set /\ ~Source!IsContainer
  /\ w' = WriteScalar(w, shown)
  /\ Continue("next")
  /\ UNCHANGED <<idx, said>> /\ Still /\ Inside

CopyUntypedNull ==
  /\ pc = "switch" /\ shown.type = "null"
  /\ w' = WriteScalar(w, shown)
  /\ Checked("next")
  /\ UNCHANGED <<idx, said>> /\ Still /\ Inside

\* There is no null of a type in the loop: a symbol or a string is passed over, lobs
\* and decimals are left to the writer, and the others are dereferenced or, an int, of
\* no size.
CopyNull ==
  /\ pc = "switch" /\ ~shown.set /\ shown.type # "null" /\ shown.type \notin T!Contexts
  /\ IF Panics(shown.type) THEN w' = w /\ Continue("panic")
     ELSE w' = PassNull(w, shown) /\ Continue("next")
  /\ UNCHANGED <<idx, said>> /\ Still /\ Inside

Enter ==
  /\ pc = "switch" /\ Source!StepIn /\ UNCHANGED <<values, damaged>>
  /\ w' = Begin(w, shown.type)
  /\ IF w'.ret = "nil"
     THEN Goto("next") /\ frames' = Append(frames, shown.type) /\ NoReport /\ UNCHANGED file
     ELSE Checked("next")
  /\ UNCHANGED <<idx, said>> /\ Inside

\* StepIn refuses a null.
EnterFails ==
  /\ pc = "switch" /\ shown.type \in T!Contexts /\ ~shown.set
  /\ Source!RefuseStepIn /\ UNCHANGED <<values, damaged>>
  /\ GiveUp("read")
  /\ UNCHANGED <<idx, w, said>> /\ Inside

Leave ==
  /\ pc = "out" /\ Source!StepOut /\ UNCHANGED <<values, damaged>>
  /\ idx' = idx + 1
  /\ w' = End(w, T!Top(frames))
  /\ said' = Append(said, T!Ended(T!Top(frames)))
  /\ IF w'.ret = "nil" THEN Goto("next") /\ frames' = T!Pop(frames) /\ NoReport /\ UNCHANGED file
     ELSE Checked("next")
  /\ Inside

LeaveFails ==
  /\ pc = "out" /\ damaged /\ Source!RefuseStepOut /\ UNCHANGED <<values, damaged>>
  /\ idx' = idx + 1
  /\ GiveUp("read")
  /\ UNCHANGED <<w, said>> /\ Inside

FinishOutput_Ignores ==
  /\ pc = "open" /\ file > Len(files)
  /\ w' = Finish(w)
  /\ Goto("done")
  /\ UNCHANGED <<file, frames, idx, said, report>> /\ Still /\ Inside

FinishOutput ==
  /\ pc = "open" /\ file > Len(files)
  /\ w' = Finish(w)
  /\ report' = IF w'.ret # "nil" /\ errors THEN Append(report, Err("write")) ELSE report
  /\ Goto(IF w'.ret # "nil" /\ ~errors THEN "panic" ELSE "done")
  /\ UNCHANGED <<file, frames, idx, said>> /\ Still /\ Inside

Init ==
  /\ files \in Inputs
  /\ \E o \in Outputs : format = o.format /\ errors = o.errors /\ w = NewWriter(o.format, o.fault)
  /\ file = 1 /\ pc = "open" /\ frames = << >> /\ idx = 0 /\ report = << >> /\ said = << >>
  /\ values = << >> /\ damaged = FALSE /\ Source!Init

Next ==
  \/ Open
  \/ OpenFails
  \/ NextValue
  \/ NoMore
  \/ ReadFails
  \/ CopyScalar
  \/ CopyUntypedNull
  \/ CopyNull
  \/ Enter
  \/ EnterFails
  \/ Leave
  \/ LeaveFails
  \/ FinishOutput

\* The command is a program that runs by itself.
Spec == Init /\ [][Next]_vars /\ WF_vars(Next)
-----------------------------------------------------------------------------
(***************************************************************************)
(* Properties.                                                             *)
(***************************************************************************)
\* No null of a type came along: process.go has no case for one.
NoNulls == \A i \in 1 .. Len(said) : said[i].e # "null"

\* The output lacks what no error of the writer tells of: a part of a lob
\* (textwriter.go:164).
Forgotten == \E i \in 1 .. Len(w.out) : w.out[i].k = "torn" /\ w.err = "nil"

IsBeginning(s, t) == Len(s) <= Len(t) /\ s = SubSeq(t, 1, Len(s))

\* Containers open behind the first n events.
DepthAfter(n) ==
  Cardinality({i \in 1 .. n : said[i].e = "begin"}) - Cardinality({i \in 1 .. n : said[i].e = "end"})

DepthsCount(out) ==
  \A i \in 1 .. Len(out) :
    out[i].k = "event" => out[i].depth = DepthAfter(Len(E!EventsRead(SubSeq(out, 1, i))) -
                                                      (IF out[i].type = "SCALAR" THEN 0
                                                       ELSE IF out[i].type = "STREAM_END" THEN 1
                                                       ELSE IF out[i].type = "CONTAINER_START"
                                                            THEN 1 ELSE 0))

\* Whatever is damaged or refused, of the files or of the output: what is written
\* reads as the beginning of what the readers showed, over all files in their order,
\* and an event carries its depth.
CopiesInOrder ==
  NoNulls => /\ IsText => T!OutputIsPrefix
             /\ format = "events" =>
                  /\ IsBeginning(E!EventsRead(E!Whole(w.out)), Append(said, [e |-> "finish"]))
                  /\ DepthsCount(E!Whole(w.out))

Copied ==
  CASE IsText            -> T!WrittenIsRead
    [] format = "events" -> /\ IsBeginning(said, E!EventsRead(w.out))
                            /\ Len(E!EventsRead(w.out)) = Len(said) + (IF pc = "done" THEN 1 ELSE 0)
    [] OTHER             -> TRUE

\* While no error is known to the writer, the output is all that was shown so far, in
\* the containers it was in; and when the command is done and reports nothing,
\* nothing is missing, though the loop looks at few of the writer's errors
\* (process.go:216-312): it relies on a writer that remembers them.
LossIsReported ==
  NoNulls /\ ~Forgotten =>
    /\ w.err = "nil" /\ pc \in {"next", "out", "open", "done"} => Copied
    /\ pc = "done" /\ report = << >> => w.err = "nil" /\ DepthAfter(Len(said)) = 0

\* A failure is reported once, by the innermost call of process() that sees it, and
\* with the file it happened in; a file is left at its first failure.
ReportedOnce ==
  \A i, j \in 1 .. Len(report) :
    i < j => report[i].loc < report[j].loc /\ report[i].idx <= report[j].idx

HasNull(type) == \E i \in 1 .. Len(said) : said[i] = [e |-> "null", type |-> type]

\* What is reported did happen: a read error is of a damaged file or a null container,
\* a write error is one of the output or follows a file left inside a container; and
\* only nulls of some types, a decimal's among them when text is written, a struct among
\* events and an unwritable report panic.
ReportsAreTrue ==
  /\ \A i \in 1 .. Len(report) :
       IF report[i].type = "read"
       THEN files[report[i].loc].damaged \/ \E c \in T!Contexts : HasNull(c)
       ELSE w.err # "nil" \/ \E j \in 1 .. i - 1 : report[j].type = "read"
  /\ pc = "panic" =>
       \/ \E t \in {"bool", "int", "float", "timestamp"} : HasNull(t)
       \/ IsText /\ HasNull("decimal")
       \/ format = "events" /\ T!Begun("struct") \in {said[i] : i \in 1 .. Len(said)}
       \/ ~errors

\* However the files are damaged and the output fails, the command comes to an end
\* (its loops are those of the readers).
Completes == <>(pc \in {"done", "stopped", "panic"})

\* "re-writes the contents in the specified format" (process.go:29): a file that is whole
\* is copied whole.  It does not hold of a null string or symbol.
WholeIsCopied ==
  pc = "done" /\ IsText /\ report = << >> /\ (\A i \in 1 .. Len(files) : ~files[i].damaged)
    => T!Decode(w.out).events = said
=============================================================================
