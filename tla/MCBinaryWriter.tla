--------------------------- MODULE MCBinaryWriter ---------------------------
(***************************************************************************)
(* A small caller for the binary writer: few values, names and marks, each *)
(* there for one of the cases of the code.                                 *)
(***************************************************************************)
EXTENDS WriterMeaning

MCText == {V1SystemSymbols[i] : i \in 1 .. 9} \cup {"x", "y", "z", "$10"}
MCSidText == [t \in {"$10"} |-> 10]

Shared == SharedTable("a", 1, <<"x">>)
MCImports == <<Shared>>
MCTable == NewLocalTable(<<Shared>>, <<"y">>)

\* With a symbol of two bytes, a value of 12 reaches the length of 14 at which the
\* length leaves the tag byte.
MCScalars == {<<12>>}

\* "z" and the "y" of an annotation are new to a builder; only "y" is in MCTable.  "$10"
\* is an id, which takes the same way as a symbol given by its id.
MCSymbols == {Token("z", SymbolIDUnknown)}
MCStrings == {"$10"}
MCNames   == {Token("x", SymbolIDUnknown)}
MCMarks   == {Token("y", 4)}
MCKinds   == {"list", "struct"}

NeverFails == <<1, 0>>
FirstWriteFails == {<<1, 1>>}
MCFaults == {NeverFails, <<2, 2>>, <<4, 6>>}
=============================================================================
