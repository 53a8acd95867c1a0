------------------------------- MODULE Cursor -------------------------------
(***************************************************************************)
(* What the Reader interface (ion/reader.go) promises: a cursor over a     *)
(* tree of values.                                                         *)
(*                                                                         *)
(* A value is a record: what a reader shows of it (view) and its children  *)
(* (items).  path says where the cursor is: for every container it is in,  *)
(* and for the stream, the number of the value it is on or was last on,    *)
(* which is Past after the last.  Of a damaged stream, whose end was lost  *)
(* or whose source fails, any part may be missing, but what is shown is    *)
(* still true.                                                             *)
(***************************************************************************)
EXTENDS Integers, Sequences

VARIABLES
  values,     \* the values of the stream
  damaged,    \* the input ends early or fails
  path,
  shown,      \* the view of the value the cursor is on, Nothing or Failed
  answer      \* the last call, and whether it returned true, or no error

vars == <<values, damaged, path, shown, answer>>

Past    == -1
Nothing == [k |-> "nothing"]
Failed  == [k |-> "failed"]

Here == path[Len(path)]

\* The values of the innermost container.
Items ==
  LET at[n \in 1 .. Len(path)] == IF n = 1 THEN values ELSE at[n - 1][path[n - 1]].items
  IN  at[Len(path)]

Returned(call, ok) == [call |-> call, ok |-> ok]

Init == path = <<0>> /\ shown = Nothing /\ answer = Returned("new", TRUE)

Advance ==
  /\ shown # Failed /\ Here # Past /\ Here < Len(Items)
  /\ path' = [path EXCEPT ![Len(path)] = @ + 1]
  /\ shown' = Items[Here + 1].view
  /\ answer' = Returned("Next", TRUE)

End ==
  /\ shown # Failed /\ (Here \in {Past, Len(Items)} \/ damaged)
  /\ path' = [path EXCEPT ![Len(path)] = Past]
  /\ shown' = Nothing
  /\ answer' = Returned("Next", FALSE)

\* Only a damaged stream fails, and then for good.
Fail(call) ==
  /\ damaged
  /\ shown' = Failed
  /\ answer' = Returned(call, FALSE)
  /\ UNCHANGED path

IsContainer ==
  shown.k = "value" /\ shown.type \in {"list", "sexp", "struct"} /\ shown.set

StepIn ==
  /\ IsContainer
  /\ path' = Append(path, 0)
  /\ shown' = Nothing
  /\ answer' = Returned("StepIn", TRUE)

StepOut ==
  /\ shown # Failed /\ Len(path) > 1
  /\ path' = SubSeq(path, 1, Len(path) - 1)
  /\ shown' = Nothing
  /\ answer' = Returned("StepOut", TRUE)

\* Only a container is stepped into, and only at top level, or on a damaged stream,
\* is there nothing to step out of.
RefuseStepIn ==
  /\ ~IsContainer
  /\ answer' = Returned("StepIn", FALSE)
  /\ UNCHANGED <<path, shown>>

RefuseStepOut ==
  /\ Len(path) = 1 \/ damaged
  /\ answer' = Returned("StepOut", FALSE)
  /\ UNCHANGED <<path, shown>>

\* Back to the first value.
Reset ==
  /\ path' = <<0>>
  /\ shown' = Nothing
  /\ answer' = Returned("Reset", TRUE)

Next ==
  /\ \/ Advance \/ End \/ Fail("Next")
     \/ StepIn \/ RefuseStepIn
     \/ StepOut \/ RefuseStepOut \/ Fail("StepOut")
     \/ Reset
  /\ UNCHANGED <<values, damaged>>

Spec == Init /\ [][Next]_vars
=============================================================================
