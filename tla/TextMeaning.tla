----------------------------- MODULE TextMeaning -----------------------------
(***************************************************************************)
(* What the output of the text writer means by the grammar of Ion text,    *)
(* against what the writer's caller asked for.                             *)
(*                                                                         *)
(* Decode walks the atoms of the output.  What a name is (a field's, an    *)
(* annotation or a symbol) only shows in what comes behind it.             *)
(***************************************************************************)
EXTENDS TextWriter

Nothing == << >>

\* The events so far, the containers that are open, what may come next ("field",
\* "value", "after" a value, "must" when a field or an annotation waits for its
\* value), the part of a lexeme that was read last, and a name not yet decided.
Start == [events |-> << >>, open |-> << >>, at |-> "value",
          inside |-> Nothing, name |-> Nothing, ok |-> TRUE]

Wrong(d)       == [d EXCEPT !.ok = FALSE]
Check(d, cond) == [d EXCEPT !.ok = @ /\ cond]
Tell(d, event) == [d EXCEPT !.events = Append(@, event)]
Innermost(d)   == IF d.open = << >> THEN "top" ELSE Top(d.open)
Ready(d)       == d.at \in {"value", "must"} /\ d.name = Nothing

\* A name with neither a colon nor a double colon behind it is a symbol.
Decided(d) ==
  IF d.name = Nothing THEN d
  ELSE [Check(Tell(d, [e |-> "symbol", name |-> d.name]), d.at # "field")
          EXCEPT !.name = Nothing, !.at = "after"]

NameOf(l) ==
  IF l.lex = "bare" /\ SymbolIdentifier(l.val) # SymbolIDUnknown
  THEN [id |-> SymbolIdentifier(l.val)] ELSE [text |-> l.val]

\* A bare keyword is no name; two lexemes need something between them.
Completed(d, l) ==
  IF l.lex = "scalar" THEN [Check(Tell(d, Scalar(l)), Ready(d)) EXCEPT !.at = "after"]
  ELSE [Check(d, d.name = Nothing /\ d.at # "after" /\ (l.lex = "bare" => l.val \notin NotBare))
          EXCEPT !.name = NameOf(l)]

ReadPart(d, a) ==
  LET d1 == Check(d, d.inside = IF a.part = 1 THEN Nothing ELSE <<a.of, a.part - 1>>)
  IN  IF a.part < a.of.calls THEN [d1 EXCEPT !.inside = <<a.of, a.part>>]
      ELSE Completed([d1 EXCEPT !.inside = Nothing], a.of)

\* What may come behind a comma, or at the start of a container.
FirstIn(c) == IF c = "struct" THEN "field" ELSE "value"

ReadColon(d) ==
  [Check(Tell(d, [e |-> "field", name |-> d.name]), d.name # Nothing /\ d.at = "field")
     EXCEPT !.name = Nothing, !.at = "must"]

ReadDoubleColon(d) ==
  [Check(Tell(d, [e |-> "annotation", name |-> d.name]), d.name # Nothing /\ d.at # "field")
     EXCEPT !.name = Nothing, !.at = "must"]

ReadComma(d) ==
  [Check(d, d.at = "after" /\ Innermost(d) \in {"list", "struct"})
     EXCEPT !.at = FirstIn(Innermost(d))]

\* White space ends a value where no comma is needed.
ReadSpace(d) ==
  IF Innermost(d) \in {"top", "sexp"} /\ d.at = "after" THEN [d EXCEPT !.at = "value"] ELSE d

ReadOpening(d, c) ==
  [Check(Tell(d, Begun(c)), Ready(d)) EXCEPT !.open = Append(@, c), !.at = FirstIn(c)]

ReadClosing(d, c) ==
  IF Innermost(d) # c \/ d.at = "must" THEN Wrong(d)
  ELSE [Tell(d, Ended(c)) EXCEPT !.open = Pop(@), !.at = "after"]

Step(d, a) ==
  CASE a.k = "part"         -> ReadPart(d, a)
    [] a.k = "colon"        -> ReadColon(d)
    [] a.k = "double_colon" -> ReadDoubleColon(d)
    [] a.k = "comma"        -> ReadComma(Decided(d))
    [] a.k = "space"        -> ReadSpace(Decided(d))
    [] a.k = "open"         -> ReadOpening(d, a.c)
    [] a.k = "close"        -> ReadClosing(Decided(d), a.c)
    [] OTHER                -> Wrong(d)

\* Nothing is read past a mistake, and only its next part continues a lexeme.
StepNext(d, a) ==
  IF ~d.ok THEN d ELSE IF d.inside # Nothing /\ a.k # "part" THEN Wrong(d) ELSE Step(d, a)

Read(out) ==
  LET walk[i \in 0 .. Len(out)] == IF i = 0 THEN Start ELSE StepNext(walk[i - 1], out[i])
  IN  walk[Len(out)]

Decode(out) == Decided(Read(out))

\* The table in front of the first value, then what was written.
Expected == (IF w.wroteLST THEN TableCalls(w.tbl) ELSE << >>) \o said

Begins(d) == d.ok /\ Len(d.events) <= Len(Expected)
                  /\ d.events = SubSeq(Expected, 1, Len(d.events))
-----------------------------------------------------------------------------
\* The contexts of the writer and its errors; the indentation counts the contexts
\* as long as nothing has failed.
TypeOK ==
  /\ w.ctx \in Seq(Contexts)
  /\ w.err \in {"nil", "usage", "io"} /\ w.ret \in {"nil", "usage", "io"}
  /\ w.err = "nil" => w.indent = Len(w.ctx)
  /\ w.emptyContainer => w.ctx # << >>

\* At any moment without an error the output is the text of exactly what was
\* written, after the table of the imports: separators, quotes, names and
\* annotations are where the grammar needs them, and the containers that are open
\* in the text are the contexts of the writer (textwriter.go:303-480).
WrittenIsRead ==
  w.err = "nil" /\ kept => LET d == Decode(w.out)
                           IN  d.ok /\ d.inside = Nothing /\ d.events = Expected
                                    /\ d.open = w.ctx

\* Whatever Write call failed, and whatever was refused in the middle of a value, the
\* output up to there reads as the beginning of what was written, as long as the
\* error was remembered.
OutputIsPrefix == kept => Begins(Read(Whole(w.out)))

\* In pretty mode every line is indented by the containers that are open around
\* what it starts with, a closing bracket standing with its opening one
\* (textwriter.go:331, 458).
Indented ==
  LET breaks == {i \in 1 .. Len(w.out) : w.out[i].k \in {"space", "comma"} /\ w.out[i].ch = "\n"}
      tab    == Space("\t")
      depth(i) == Cardinality({j \in 1 .. i : w.out[j].k = "open"})
                    - Cardinality({j \in 1 .. i : w.out[j].k = "close"})
  IN  w.pretty /\ kept =>
        \A i \in breaks : \A j \in i + 1 .. Len(w.out) :
          /\ \A m \in i + 1 .. j - 1 : w.out[m] = tab
          /\ w.out[j].k # "torn" /\ w.out[j] # tab /\ j \notin breaks
          => j - i - 1 = depth(IF w.out[j].k = "close" THEN j ELSE j - 1)

\* A Finish that is not quiet leaves the output at the start of a line, whatever was
\* finished or refused before, as long as the error was remembered: another datagram
\* may follow (textwriter.go:29, 270).
FinishEndsLine ==
  [][CallFinish /\ kept /\ w'.ret = "nil" /\ ~w.quiet =>
       w'.out = << >> \/ w'.out[Len(w'.out)] = Newline]_vars
=============================================================================
