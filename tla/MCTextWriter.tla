---------------------------- MODULE MCTextWriter ----------------------------
(***************************************************************************)
(* A small caller for the text writer.                                     *)
(***************************************************************************)
EXTENDS TextMeaning

MCText == {V1SystemSymbols[i] : i \in 1 .. 9} \cup {"x", "null", "$10"}
MCSidText == [t \in {"$10"} |-> 10]
MCNotBare == {"null"}

MCImports == <<SharedTable("a", 1, <<"x">>)>>

MCScalars == {Raw([int |-> 1]), Lob([lob |-> "bytes"])}

\* A keyword, a string that is an id, a text that looks like an id and an id, and a
\* token that is neither text nor id.
MCSymbols == {Token("null", SymbolIDUnknown), Token(NoText, SymbolIDUnknown)}
MCStrings == {"$10"}
MCNames   == {Token("$10", SymbolIDUnknown)}
MCMarks   == {Token(NoText, 10)}
MCKinds   == {"list", "sexp", "struct"}

MCOptions == {[pretty |-> FALSE, quiet |-> FALSE], [pretty |-> FALSE, quiet |-> TRUE],
              [pretty |-> TRUE, quiet |-> FALSE]}

NeverFails == <<1, 0>>
MCFaults == {NeverFails, <<5, 7>>}
=============================================================================
