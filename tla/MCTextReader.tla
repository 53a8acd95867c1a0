---------------------------- MODULE MCTextReader ----------------------------
(***************************************************************************)
(* Small streams for TextStream, each with some of the forms the tokenizer *)
(* has a case for.                                                         *)
(***************************************************************************)
EXTENDS TextStream

Named1 == {V1SystemSymbols[i] : i \in 1 .. 9} \cup {"x", "y", "z", "a", "b", "$10", "$12"}
MCText == Named1 \cup {"", "null", "true", "+", ".", "inf"}
MCSidText == ("$10" :> 10) @@ ("$12" :> 12)

MCWords ==
  Named1 \cup Types \cup Keywords
    \cup {"e", "d", "E", "F", "T", "Z", "z", "u", "n", "U", "QUJD", "_", "inf"}
MCRunes == (65 :> "A") @@ (233 :> "\\351")

A1 == SharedTable("a", 1, <<"x">>)
MCCatalog == {A1}

Tight   == << >>
Spaced  == <<" ">>
\* A comment full of what closes and opens other things.
Block   == <<"/", "*", "*", "]", "/", "'", "\"", "*", "/">>
Line    == <<"/", "/", "{", ")", "\"", "\n", "\t">>
Gaps    == {Tight, Spaced, Block, Line}

Stream(items, gap) == [items |-> items, gap |-> gap, cuts |-> TRUE]
Whole(items, gap)  == [items |-> items, gap |-> gap, cuts |-> FALSE]
Items(nodes) == [i \in 1 .. Len(nodes) |-> Item(nodes[i])]

Numbers ==
  <<Number(<<"-", "1", "2">>, -12), Number(<<"0">>, 0), Number(<<"1", "_", "0">>, 10),
    Number(<<"0", "x", "F", "_", "1">>, 241), Number(<<"-", "0", "b", "1", "0">>, -2),
    Literal("decimal", <<"1", ".">>), Literal("decimal", <<"0", "d", "-", "3">>),
    Literal("float", <<"-", "1", ".", "5", "e", "+", "2">>), Node("float", <<"-", "inf">>, <<"-inf">>),
    Node("float", <<"+", "inf">>, <<"+inf">>), Node("float", <<"nan">>, <<"nan">>), Null("int")>>

Y2000 == <<"2", "0", "0", "0">>
DayGlyphs == Y2000 \o <<"-", "0", "2", "-", "2", "9">>
Noon  == DayGlyphs \o <<"T", "1", "2", ":", "3", "0">>
Times ==
  <<Literal("timestamp", Y2000 \o <<"T">>), Literal("timestamp", Y2000 \o <<"-", "0", "2", "T">>),
    Literal("timestamp", DayGlyphs), Literal("timestamp", DayGlyphs \o <<"T">>),
    Literal("timestamp", Noon \o <<"Z">>), Literal("timestamp", Noon \o <<"+", "0", "8", ":", "0", "0">>),
    Literal("timestamp", Noon \o <<":", "0", "7", "-", "0", "0", ":", "0", "0">>),
    Literal("timestamp", Noon \o <<":", "0", "7", ".", "5", "Z">>)>>

Long(glyphs) == <<"'", "'", "'">> \o glyphs \o <<"'", "'", "'">>
BraceClob == Node("clob", <<"{", "{", "\"", "}", "\"", "}", "}">>, <<"}">>)
Strings ==
  <<String(<<"a", "}", "\\", "\"", "'", "/", "/">>, "a}\"'//"),
    String(<<"\\", "x", "4", "1", "\\", "u", "0", "0", "4", "1", "\\", "\n", "\\", "n">>, "AA\n"),
    Node("string", Long(<<"a", "'", "'", "\n", "]">>) \o <<" ">> \o Long(<<"\\", "'", "b">>), "a''\n]'b"),
    Symbol(Quoted("null")), Symbol([Quoted("") EXCEPT !.glyphs = <<"'", "'">>]),
    Symbol(Quoted("$10")),
    Node("clob", <<"{", "{">> \o <<"\"", "a", "\\", "x", "4", "1", "\"", " ", "}", "}">>, <<"a", "A">>),
    Node("clob", <<"{", "{", " ">> \o Long(<<"a", "'", "b">>) \o Long(<< >>) \o <<"}", "}">>,
         <<"a", "'", "b">>),
    Node("blob", <<"{", "{", "QUJD", " ", "/", "1", "=", "=", "\n", "}", "}">>, <<"QUJD", "/", "1", "=", "=">>),
    BraceClob>>

\* Operators are names in an sexp only; a comment would go on with one.
Operator(glyphs, t) == Symbol([Bare(t) EXCEPT !.glyphs = glyphs \o <<" ">>])
Nested ==
  <<Marked(<<Bare("a"), Quoted("b")>>,
           Of("list", <<Number(<<"1">>, 1),
                        Of("sexp", <<Operator(<<"+">>, "+"), Number(<<"-", "2">>, -2), Symbol(Bare("y")),
                                     Operator(<<".">>, ".")>>),
                        Of("list", << >>), Number(<<"4">>, 4)>>)),
    Of("struct", <<Named(Bare("a"), Of("list", <<Number(<<"5">>, 5)>>)),
                   Named(InLong("b"), Marked(<<Bare("x")>>, Null("struct"))),
                   Named(InString("x"), Of("struct", <<Named(Quoted("y"), Symbol(Bare("inf")))>>)),
                   Named(Bare("y"), Of("struct", << >>)),
                   Named(Bare("z"), Node("clob", <<"{", "{", "\"", "]", "\"", "}", "}">>, <<"]">>))>>),
    Node("null", <<"null">>, << >>)>>

Unset(n) == [n EXCEPT !.set = FALSE]
Nestings == Items(<<Nested[1], Nested[2], Unset(Nested[3])>>)

Decl(name, version, maxID) == [name |-> name, version |-> version, maxID |-> maxID]
Table(imports, symbols) ==
  TableItem([kind |-> "table", imports |-> imports, symbols |-> symbols])
AppendTable(symbols) == TableItem([kind |-> "append", symbols |-> symbols])

\* Tables that import, extend and are replaced; names by text and by id around them.
Tables ==
  <<Item(Symbol(Bare("x"))), Table(<<Decl("a", 1, 2)>>, <<"y", "">>),
    Item(Of("struct", <<Named(Id("$12"), Symbol(Id("$10"))), Named(Bare("y"), Symbol(Bare("x")))>>)),
    AppendTable(<<"z">>), Item(Marked(<<Id("$12"), Bare("z")>>, Symbol(Id("$10")))),
    Table(<< >>, <<"z", "y", "x">>), Item(Symbol(Id("$12"))), Item(Symbol(Quoted("$12")))>>

\* Any two of these in a row.
Pieces ==
  {Table(<<Decl("a", 1, NoMaxID)>>, <<"y", "z">>), AppendTable(<<"z", "x", "y">>),
   Item(Symbol(Id("$10"))), Item(Null("list")), Item(Strings[4]), Item(Strings[5]),
   Item(Marked(<<Quoted("a")>>, Of("struct", << >>))),
   Item(Of("sexp", <<Of("list", <<Strings[3], Symbol(Bare("x"))>>), Null("sexp"), Strings[2]>>)),
   Item(Of("struct", <<Named(Bare("x"), Strings[9]), Named(Id("$10"), Times[2])>>))}

\* Containers that cannot be passed over (skipBlobHelper).
Brace == Items(<<Of("list", <<Number(<<"1">>, 1), Of("struct", <<Named(Bare("x"), BraceClob)>>), Number(<<"2">>, 2)>>),
                 Symbol(Bare("y"))>>)

Pairs == {<<Table(<< >>, <<"x", "y", "z">>), a, b>> : a, b \in Pieces}

Streams1 == {Items(Numbers), Items(Times), Items(Strings), Nestings, Brace, Tables}

\* What a source may do at any glyph it does without white space, or with comments
\* around a few values.
MCStreams ==
  {Stream(items, Tight) : items \in Streams1}
    \cup {Stream(SubSeq(Nestings, 1, 1), g) : g \in Gaps \ {Tight}}
    \cup {Whole(items, g) : items \in Streams1, g \in Gaps \ {Tight}}
    \cup {Whole(p, g) : p \in Pairs, g \in {Tight, Block}}
=============================================================================
