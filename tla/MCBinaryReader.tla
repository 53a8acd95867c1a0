--------------------------- MODULE MCBinaryReader ---------------------------
(***************************************************************************)
(* Small streams for BinaryStream, each with some of the forms the reader  *)
(* has a case for.                                                         *)
(***************************************************************************)
EXTENDS BinaryStream

MCText == {V1SystemSymbols[i] : i \in 1 .. 9} \cup {"x", "y", "z", "a", ""}
MCSidText == [t \in {} |-> 0]
MCSpelling == [t \in {"x", "y", "z", "a"} |->
                 CASE t = "x" -> <<120>> [] t = "y" -> <<121>>
                   [] t = "z" -> <<122>> [] OTHER  -> <<97>>]

A1 == SharedTable("a", 1, <<"x">>)
MCCatalog == {A1}

Decl(name, version, maxID) == [name |-> name, version |-> version, maxID |-> maxID]
Table(imports, symbols) ==
  TableItem([kind |-> "table", imports |-> imports, symbols |-> symbols])
AppendTable(symbols) == TableItem([kind |-> "append", symbols |-> symbols])

\* Every scalar, padding of one byte and more, and a long value.
Scalars ==
  <<BvmItem, Item(Pad(0)), Item(Number(-300)), Item(Null("int")), Item(Node("bool", <<1>>)),
    Item(Node("float", << >>)), Item(Node("decimal", <<193, 5>>)), Item(Pad(3)),
    Item(Marked(<<4, 1>>, Node("bool", <<0>>))), Item(Null("null")),
    Item(Formed("long", Node("blob", <<1, 2>>))), Item(Symbol(0)), Item(Symbol(5))>>

\* Containers in containers: read, left halfway, or passed over.
Nested ==
  <<BvmItem,
    Item(Marked(<<4>>, Of("list", <<Number(1), Of("sexp", <<Number(2), Number(3)>>), Number(4)>>))),
    Item(Of("struct", <<Named(4, Of("list", <<Number(5)>>)), Named(5, Pad(1)), Named(6, Number(6)),
                        Named(7, Formed("ordered", Of("struct", <<Named(4, Number(7))>>))),
                        Named(8, Pad(0))>>)),
    Item(Null("list"))>>

\* Tables that import, extend, and are replaced; a symbol before and after each.
Tables ==
  <<BvmItem, Table(<<Decl("a", 1, 2)>>, <<"y", "">>),
    Item(Of("struct", <<Named(12, Symbol(10)), Named(10, Symbol(11))>>)),
    AppendTable(<<"z">>), Item(Marked(<<12, 14>>, Symbol(13))),
    NullTableItem, Item(Symbol(9)), BvmItem, Table(<< >>, <<"x">>), Item(Symbol(10))>>

\* One table, which Reset can skip.
OneTableStream ==
  <<BvmItem, Table(<<Decl("a", 1, NoMaxID)>>, <<"y">>), Item(Symbol(11)),
    Item(Of("list", <<Symbol(10)>>)), Item(Number(0))>>

\* A list with an annotated list, of 14 bytes and more.
Long ==
  <<BvmItem, Item(Of("list", <<Marked(<<4>>, Of("sexp", <<Node("string", [i \in 1 .. 14 |-> 65]),
                                                         Number(1)>>)), Number(2)>>)), Item(Number(3))>>

\* Any two of these in a row.
Pieces ==
  {BvmItem, NullTableItem, Table(<<Decl("a", 1, 3)>>, <<"y">>), AppendTable(<<"z">>),
   Item(Pad(1)), Item(Formed("long", Pad(2))), Item(Node("float", <<63, 128, 0, 0>>)),
   Item(Symbol(10)), Item(Null("struct")),
   Item(Marked(<<4, 11>>, Of("list", << >>))),
   Item(Of("struct", <<Named(10, Null("sexp")), Named(0, Pad(2)), Named(4, Of("list", << >>))>>)),
   Item(Of("sexp", <<Symbol(4), Pad(0), Marked(<<5>>, Of("struct", <<Named(4, Number(0))>>))>>))}

Pairs == {<<BvmItem, Table(<< >>, <<"x", "y">>), a, b>> : a, b \in Pieces}

MCStreams == {Scalars, Nested, Tables, OneTableStream, Long} \cup {p \in Pairs : Defined(p)}

MCCuts == [n \in 0 .. 200 |-> 4 .. n]

\* A true with an annotation.
AnnotatedTrue == {<<BvmItem, Item(Marked(<<4>>, Node("bool", <<1>>))), Item(Number(1))>>}

\* An ordered struct of 15 bytes.
Eleven == Node("string", [i \in 1 .. 11 |-> 65])
OrderedStruct ==
  {<<BvmItem, Item(Formed("ordered", Of("struct", <<Named(4, Eleven), Named(5, Number(0))>>))),
     Item(Number(1))>>}

WholeOnly == [n \in 0 .. 200 |-> {n}]
=============================================================================
