----------------------------- MODULE EventWriter -----------------------------
(***************************************************************************)
(* The writers of the ion-go command itself (cmd/ion-go/eventwriter.go,    *)
(* nopwriter.go): one writes an event for every call, the other nothing.   *)
(*                                                                         *)
(* Events leave through an encoder over a text writer, which remembers the *)
(* first error of the output; an event is one atom.  inStruct is a map     *)
(* that is never made, so that only reading it is safe.                    *)
(***************************************************************************)
EXTENDS Writer
LOCAL INSTANCE SequencesExt

Sid(n) == CHOOSE t \in DOMAIN SidText : SidText[t] = n

Encode(v, event) ==
  IF v.err # "nil" THEN Return(v, v.err) ELSE Store(EmitTo(v, <<event>>))

NewEventWriter(fault) ==
  Encode([out |-> << >>, writes |-> 0, fault |-> fault, err |-> "nil", ret |-> "nil",
          ctx |-> << >>, depth |-> 0, fieldName |-> NoName, annotations |-> << >>],
         [k |-> "stream"])

EventFieldName(v, tok) ==
  [v EXCEPT !.fieldName = IF tok.text = NoText THEN Token(Sid(tok.sid), SymbolIDUnknown) ELSE tok,
            !.ret = "nil"]

EventAnnotations(v, marks) == [v EXCEPT !.annotations = @ \o marks, !.ret = "nil"]

\* write takes the pending name and annotations, whatever becomes of the event.
WriteEvent_KeepsMarks(v, type, value) ==
  Encode([v EXCEPT !.fieldName = NoName],
         [k |-> "event", type |-> type, value |-> value, name |-> v.fieldName,
          marks |-> v.annotations, depth |-> v.depth])

WriteEvent(v, type, value) ==
  Encode(Clear(v),
         [k |-> "event", type |-> type, value |-> value, name |-> v.fieldName,
          marks |-> v.annotations, depth |-> v.depth])

WriteScalar(v, event) == WriteEvent(v, "SCALAR", event)

\* e.inStruct[e.depth] = true is the panic of a struct.
BeginEvent(v, event) ==
  LET v1 == WriteEvent(v, "CONTAINER_START", event)
  IN  IF v1.ret # "nil" THEN v1
      ELSE [v1 EXCEPT !.depth = @ + 1, !.ret = IF event.c = "struct" THEN "panic" ELSE "nil"]

EndEvent(v, event) ==
  IF event.c = "struct" THEN Return(v, "panic")
  ELSE WriteEvent([v EXCEPT !.depth = @ - 1], "CONTAINER_END", event)

FinishEvents(v) == WriteEvent(v, "STREAM_END", [e |-> "finish"])
-----------------------------------------------------------------------------
\* What a reader of the events learns.
NameMeant(tok) ==
  IF tok.text = NoText THEN [id |-> tok.sid]
  ELSE IF SymbolIdentifier(tok.text) # SymbolIDUnknown THEN [id |-> SymbolIdentifier(tok.text)]
  ELSE [text |-> tok.text]

EventMeans(a) ==
  (IF a.name = NoName THEN << >> ELSE <<[e |-> "field", name |-> NameMeant(a.name)]>>)
  \o [i \in 1 .. Len(a.marks) |-> [e |-> "annotation", name |-> NameMeant(a.marks[i])]]
  \o <<a.value>>

EventsRead(out) ==
  FlattenSeq([i \in 1 .. Len(out) |-> IF out[i].k = "event" THEN EventMeans(out[i]) ELSE << >>])
=============================================================================
