------------------------------- MODULE MCCopy -------------------------------
(***************************************************************************)
(* Small files for the copy command.                                       *)
(***************************************************************************)
EXTENDS Copy

MCText ==
  {"$ion", "$ion_1_0", "$ion_symbol_table", "name", "version", "imports", "symbols", "max_id",
   "$ion_shared_symbol_table", "x", "y", "$10"}
MCSidText == [t \in {"$10"} |-> 10]

Tok(t) == T!Token(t, T!SymbolIDUnknown)

Value(type, set, data) ==
  [view  |-> [k |-> "value", type |-> type, set |-> set, data |-> data, token |-> T!NoName,
              fieldName |-> T!NoName, annotations |-> << >>],
   items |-> << >>]

Num(n)           == Value("int", TRUE, [int |-> n])
Str(s)           == Value("string", TRUE, [string |-> s])
Blob(b)          == Value("blob", TRUE, [lob |-> b])
NoData           == [none |-> ""]
UntypedNull      == Value("null", FALSE, [null |-> ""])
NullOf(type)     == Value(type, FALSE, NoData)
Symb(tok)        == [Value("symbol", TRUE, NoData) EXCEPT !.view.token = tok]
In(type, items)  == [Value(type, TRUE, NoData) EXCEPT !.items = items]
Named(n, v)      == [v EXCEPT !.view.fieldName = n]
Marked(marks, v) == [v EXCEPT !.view.annotations = marks]

File(broken, vs) == [opens |-> TRUE, damaged |-> broken, values |-> vs]
Missing           == [opens |-> FALSE, damaged |-> FALSE, values |-> << >>]

\* Containers in containers, with names and annotations that have a text or only an id.
Tree ==
  <<In("list", <<Marked(<<Tok("x")>>, In("sexp", <<Num(1)>>)), Str("x")>>), Symb(Tok("y"))>>
Record ==
  <<Marked(<<T!Token(NoText, 10)>>,
           In("struct", <<Named(T!Token(NoText, 10), UntypedNull),
                          Named(Tok("x"), In("list", <<Marked(<<Tok("y")>>, Num(2))>>))>>))>>
Flat == <<Num(3), Blob("b"), UntypedNull, Marked(<<Tok("x")>>, Blob("c"))>>

\* Nulls between values, some with a name or an annotation.
Nulls(type) == <<Marked(<<Tok("x")>>, NullOf(type)), Num(4)>>
NullFields(type) == <<In("struct", <<Named(Tok("x"), NullOf(type)), Named(Tok("y"), Num(5))>>)>>


MCInputs ==
  {<<File(d, Tree), File(FALSE, Flat)>> : d \in BOOLEAN}
    \cup {<<File(d, Record), File(FALSE, Record)>> : d \in BOOLEAN}
    \cup {<<File(TRUE, Flat)>>, <<File(FALSE, Flat), Missing, File(FALSE, Tree)>>}
    \cup {<<File(FALSE, Nulls(t)), File(FALSE, NullFields(t))>> :
            t \in {"string", "symbol", "blob", "int", "decimal", "list"}}

NullInputs == {<<File(FALSE, Nulls("string"))>>}

RECURSIVE TreesOf(_)
TreesOf(vs) == UNION {{vs[i]} \cup TreesOf(vs[i].items) : i \in 1 .. Len(vs)}

MCTrees == UNION {UNION {TreesOf(fs[i].values) : i \in 1 .. Len(fs)} : fs \in MCInputs}

NeverFails == <<1, 0>>
Out(fmt, fault) == [format |-> fmt, fault |-> fault, errors |-> TRUE]

\* One call fails, or all from one on.
MCOutputs ==
  {Out("pretty", f) : f \in {NeverFails, <<5, 5>>, <<17, 200>>}}
    \cup {Out("text", f) : f \in {NeverFails, <<12, 12>>}}
    \cup {Out("events", f) : f \in {NeverFails, <<3, 3>>, <<2, 200>>}}
    \cup {Out("none", NeverFails), [Out("text", <<5, 5>>) EXCEPT !.errors = FALSE]}
=============================================================================
