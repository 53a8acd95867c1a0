-------------------------- MODULE MCSymbolExchange --------------------------
(***************************************************************************)
(* A small world for SymbolExchange: a shared table with two versions and  *)
(* another one that repeats a text of the first, a system symbol as a user *)
(* symbol, and every catalog over them.                                    *)
(***************************************************************************)
EXTENDS SymbolExchange

MCText == {V1SystemSymbols[i] : i \in 1 .. 9} \cup {"x", "y", "z", "", "$10"}
MCSidText == [t \in {"$10"} |-> 10]

A1 == SharedTable("a", 1, <<"x">>)
A2 == SharedTable("a", 2, <<"x", "y">>)
B1 == SharedTable("b", 1, <<"y", "">>)

MCRegistry == {A1, A2, B1}

Decl(name, version, maxID) == [name |-> name, version |-> version, maxID |-> maxID]

MCForeignImports ==
  { << >>,
    <<Decl("a", 1, 3)>>,                        \* more ids than any version has
    <<Decl("a", 2, 1), Decl("b", 1, 2)>>,       \* fewer ids than the version has
    <<Decl("a", 2, NoMaxID)>>,
    <<Decl("", 1, 2), Decl("b", 0, NoMaxID)>> } \* unnamed; version defaulted

MCImports == {<< >>, <<A1>>, <<B1, A2>>}
MCForeignSymbols == {<< >>, <<"y", "", "y">>}
MCNewTexts == {"y", "name", ""}
=============================================================================
