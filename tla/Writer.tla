------------------------------- MODULE Writer -------------------------------
(***************************************************************************)
(* What all writers share (ion/writer.go, ion/ctx.go), the io.Writer they  *)
(* write to, and the caller, who may call anything in any order.           *)
(*                                                                         *)
(* The record w is the writer.  A method is an operator that takes the     *)
(* record to the record it leaves behind, with the method's error in the   *)
(* field ret; errors are "nil", "usage" (UsageError), "io" (the io.Writer  *)
(* failed) and "panic".  The output is a sequence of atoms, one for each   *)
(* call of io.Writer.Write; a call that fails leaves a "torn" atom, any    *)
(* prefix of what it was given.                                            *)
(***************************************************************************)
EXTENDS SymbolTable

CONSTANTS
  Imports,     \* the shared tables the writer was made with
  Names,       \* the tokens passed to FieldName
  Marks,       \* the tokens passed to Annotation
  Kinds,       \* the kinds of containers the caller begins
  Faults,      \* which calls of io.Writer.Write fail: from the first to the last
  GoOn,        \* bound: does the caller go on once an error was forgotten?
  MaxMarks,    \* bound: annotations of a value
  MaxDepth,    \* bound: nesting
  MaxWrites,   \* bound: calls of io.Writer.Write
  MaxSaid      \* bound: events of the calls

VARIABLES
  w,           \* the writer
  said,        \* history: what the calls were asked to write, up to a failed Write
  kept         \* history: no error has been forgotten

vars == <<w, said, kept>>

Contexts == {"list", "sexp", "struct"}

ASSUME KindsAssumption == Kinds \subseteq Contexts

ASSUME ImportsAssumption == Imports \in Seq({Imports[i] : i \in 1 .. Len(Imports)})

NoName == Token(NoText, -2)     \* fieldName == nil

Top(s) == s[Len(s)]
Pop(s) == SubSeq(s, 1, Len(s) - 1)

InStruct(v) == v.ctx # << >> /\ Top(v.ctx) = "struct"
Clear(v)    == [v EXCEPT !.fieldName = NoName, !.annotations = << >>]

Return(v, err) == [v EXCEPT !.ret = err]
Store(v)       == [v EXCEPT !.err = v.ret]
-----------------------------------------------------------------------------
(***************************************************************************)
(* The output.                                                             *)
(***************************************************************************)
Torn == [k |-> "torn", size |-> 0]

EmitTo_Ignores(v, atoms) ==
  LET written(i) == v.writes + i \notin v.fault[1] .. v.fault[2]
      sum[i \in 0 .. Len(atoms)] ==
        IF i = 0 THEN v.out ELSE IF written(i) THEN Append(sum[i - 1], atoms[i]) ELSE sum[i - 1]
  IN  [v EXCEPT !.out = sum[Len(atoms)], !.writes = @ + Len(atoms), !.ret = "nil"]

\* EmitTo the io.Writer, call by call, up to the first that fails.
EmitTo(v, atoms) ==
  LET failing == {i \in 1 .. Len(atoms) : v.writes + i \in v.fault[1] .. v.fault[2]}
      first   == MinOf(failing)
  IN  IF failing = {}
      THEN [v EXCEPT !.out = @ \o atoms, !.writes = @ + Len(atoms), !.ret = "nil"]
      ELSE [v EXCEPT !.out = @ \o Append(SubSeq(atoms, 1, first - 1), Torn),
                     !.writes = @ + first, !.ret = "io"]

\* The output up to the first torn atom.
Whole(out) ==
  LET torn == {i \in 1 .. Len(out) : out[i].k = "torn"}
  IN  IF torn = {} THEN out ELSE SubSeq(out, 1, MinOf(torn) - 1)
-----------------------------------------------------------------------------
(***************************************************************************)
(* The methods that are the same for all writers.                          *)
(***************************************************************************)
FieldName(v, name) ==
  IF v.err # "nil" THEN Return(v, v.err)
  ELSE IF ~InStruct(v) THEN Store(Return(v, "usage"))
  ELSE [v EXCEPT !.fieldName = name, !.ret = "nil"]

Annotations(v, marks) ==
  IF v.err # "nil" THEN Return(v, v.err)
  ELSE [v EXCEPT !.annotations = @ \o marks, !.ret = "nil"]
-----------------------------------------------------------------------------
(***************************************************************************)
(* The caller calls a method that leaves v behind and was to write the     *)
(* events.  A call refused for its usage writes none; one during which a   *)
(* Write failed may have written some.  An error is forgotten when the     *)
(* writer writes on in spite of it, or when that of a Write is not stored. *)
(***************************************************************************)
Call(v, events) ==
  /\ kept \/ GoOn
  /\ v.writes <= MaxWrites /\ Len(said) + Len(events) <= MaxSaid
  /\ w' = v
  /\ said' = IF v.ret = "nil" \/ v.out # w.out THEN said \o events ELSE said
  /\ kept' = (kept /\ (w.err # "nil" => v.err = w.err /\ v.out = w.out)
                   /\ (v.ret = "io" => v.err = "io"))

CallFieldName   == \E n \in Names : Call(FieldName(w, n), << >>)
CallAnnotations == \E m \in Marks : /\ Len(w.annotations) < MaxMarks
                                    /\ Call(Annotations(w, <<m>>), << >>)
-----------------------------------------------------------------------------
\* A field name is only ever pending inside a struct, so it cannot name a value of
\* another container: begin and end forget it (writer.go:158, binarywriter.go:497,
\* 611, textwriter.go:309, 465).
NameInStruct == w.fieldName # NoName => InStruct(w)

\* "Implementations will remember any errors, no-op subsequent calls, and return
\* the previous error" (writer.go:56).
RemembersErrors == [][w.err # "nil" => w'.ret = w.err]_vars
=============================================================================
