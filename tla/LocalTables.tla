----------------------------- MODULE LocalTables -----------------------------
(***************************************************************************)
(* How a local symbol table is read (ion/readlocalsymboltable.go): through *)
(* the methods of the reader that has come upon it, binary or text.        *)
(*                                                                         *)
(* The record r is that reader, of which only what its interface shows is  *)
(* used.  What is gathered of a table is its wire form, for ReadLocalTable *)
(* of SymbolTable.                                                         *)
(***************************************************************************)
EXTENDS Integers, Sequences

CONSTANTS
  NoText, NoMaxID,   \* of SymbolTable
  StepIn(_), StepOut(_),
  NextRaw(_),  \* Next, inside a container
  TextOf(_)    \* the text of a string value

IsNull(r) == r.type # "none" /\ ~r.value.set
Moved(r)  == r.err = "nil" /\ ~r.eof     \* what Next returns

\* A visit takes the reader and what was gathered so far, and leaves both.
Visited(r, got, err) == [r |-> r, got |-> got, err |-> err]

\* StepIn; for r.Next() { visit }; StepOut: every caller's way with a container, the
\* visit being that of a kind of element.
RECURSIVE Each(_, _, _)
-----------------------------------------------------------------------------
\* A dereferenced nil is a panic.
VisitImportField(r, decl) ==
  LET field == r.fieldName.text
  IN  IF field = NoText THEN Visited(r, decl, "noname")
      ELSE IF field = "name" /\ r.type = "string"
      THEN IF IsNull(r) THEN Visited(r, decl, "panic")
           ELSE Visited(r, [decl EXCEPT !.name = TextOf(r.value.data)], "nil")
      ELSE IF field = "version" /\ r.type = "int"
      THEN IF IsNull(r) THEN Visited(r, decl, "panic")
           ELSE Visited(r, [decl EXCEPT !.version = r.value.data[1]], "nil")
      ELSE IF field = "max_id" /\ r.type = "int"
      THEN IF IsNull(r) THEN Visited(r, decl, "nomaxid")
           ELSE Visited(r, [decl EXCEPT !.maxID = r.value.data[1]], "nil")
      ELSE Visited(r, decl, "nil")

AppendDecl(e, decls) == [e EXCEPT !.got = Append(decls, @)]

NoDecl == [name |-> "", version |-> -1, maxID |-> NoMaxID]

VisitImport(r, decls) ==
  IF r.type # "struct" \/ IsNull(r) THEN Visited(r, decls, "nil")
  ELSE AppendDecl(Each("import field", r, NoDecl), decls)

\* Whatever is not a string takes up an id and has no text.
VisitSymbol(r, symbols) ==
  Visited(r, Append(symbols, IF r.type = "string" /\ ~IsNull(r) THEN TextOf(r.value.data)
                             ELSE ""), "nil")

SetImports(e, t) == [e EXCEPT !.got = [t EXCEPT !.imports = e.got]]
SetSymbols(e, t) == [e EXCEPT !.got = [t EXCEPT !.symbols = e.got]]

VisitImports(r, t) ==
  IF r.type = "symbol" /\ IsNull(r) THEN Visited(r, t, "panic")
  ELSE IF r.type = "symbol" /\ r.value.token.sid = 3
  THEN Visited(r, [t EXCEPT !.append = TRUE], "nil")
  ELSE IF r.type # "list" \/ IsNull(r) THEN Visited(r, t, "nil")
  ELSE SetImports(Each("import", r, << >>), t)

VisitSymbols(r, t) ==
  IF r.type # "list" THEN Visited(r, t, "nil") ELSE SetSymbols(Each("symbol", r, << >>), t)

VisitTableField(r, t) ==
  LET field == r.fieldName.text
  IN  IF field = NoText THEN Visited(r, t, "noname")
      ELSE IF field \in t.found THEN Visited(r, t, "twice")
      ELSE IF field = "symbols"
      THEN VisitSymbols(r, [t EXCEPT !.found = @ \cup {"symbols"}])
      ELSE IF field = "imports"
      THEN VisitImports(r, [t EXCEPT !.found = @ \cup {"imports"}])
      ELSE Visited(r, t, "nil")

Visit(kind, r, got) ==
  CASE kind = "table field"  -> VisitTableField(r, got)
    [] kind = "import"       -> VisitImport(r, got)
    [] kind = "import field" -> VisitImportField(r, got)
    [] kind = "symbol"       -> VisitSymbol(r, got)
-----------------------------------------------------------------------------
Onward(s) == IF s.err # "nil" THEN s ELSE Visited(NextRaw(s.r), s.got, "nil")

RECURSIVE While(_, _)
While(kind, s) ==
  IF s.err # "nil" \/ ~Moved(s.r) THEN s ELSE While(kind, Onward(Visit(kind, s.r, s.got)))

Out(r, got) == Visited(r, got, r.ret)

Leave(s) == IF s.err # "nil" THEN s ELSE Out(StepOut(s.r), s.got)

In(r, got) == Onward(Visited(r, got, r.ret))

Each(kind, r, got) == Leave(While(kind, In(StepIn(r), got)))

\* readLocalSymbolTable, up to what is made of the parts.
TableParts(r) ==
  Each("table field", r, [imports |-> << >>, symbols |-> << >>, append |-> FALSE, found |-> {}])

WireOf(t) ==
  IF t.append THEN [kind |-> "append", symbols |-> t.symbols]
  ELSE [kind |-> "table", imports |-> t.imports, symbols |-> t.symbols]
=============================================================================
