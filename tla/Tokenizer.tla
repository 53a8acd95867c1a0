------------------------------ MODULE Tokenizer ------------------------------
(***************************************************************************)
(* The tokenizer of Ion text (ion/tokenizer.go) and what it does to pass   *)
(* over what nobody wants to read (ion/skipper.go).                        *)
(*                                                                         *)
(* Text is a sequence of glyphs: one character each, but for the words,    *)
(* which are identifiers, or parts of them, that no method looks into.     *)
(* Newlines have been normalised, as read() does.                          *)
(*                                                                         *)
(* The record z is the tokenizer together with its input: in is the whole  *)
(* text, last the number of glyphs that will ever come and after what      *)
(* comes then, "eof" or "io", an error of the io.Reader.  What was read    *)
(* ahead and pushed back is text that has not been read: pos is the number *)
(* of glyphs read.  A method is an operator from the record to the record  *)
(* it leaves, with its results in c (the glyph read last), text (the       *)
(* glyphs of a value) and got (any other), and its error in err.           *)
(*                                                                         *)
(* An error is handed to the caller and on to its caller, nothing else is  *)
(* done.  So a method called on a tokenizer with an error leaves it as it  *)
(* is: c is Broken, a glyph that nobody looks for, and got is FALSE.       *)
(***************************************************************************)
EXTENDS Integers, Sequences, FiniteSets, SequencesExt

CONSTANTS
  Words,     \* the glyphs an identifier may begin with
  Runes      \* the characters that are written by their number

Eof      == "<eof>"       \* the character -1
Broken   == "<broken>"    \* no character
Control  == "<control>"   \* a control character that no string may hold
HighByte == "<high>"      \* a byte that is not ASCII

Digits      == {"0", "1", "2", "3", "4", "5", "6", "7", "8", "9"}
ValueOf     == [g \in Digits \cup {"a", "b", "c", "d", "e", "f", "A", "B", "C", "D", "E", "F"} |->
                  CASE g \in {"a", "A"} -> 10 [] g \in {"b", "B"} -> 11 [] g \in {"c", "C"} -> 12
                    [] g \in {"d", "D"} -> 13 [] g \in {"e", "E"} -> 14 [] g \in {"f", "F"} -> 15
                    [] g = "0" -> 0 [] g = "1" -> 1 [] g = "2" -> 2 [] g = "3" -> 3 [] g = "4" -> 4
                    [] g = "5" -> 5 [] g = "6" -> 6 [] g = "7" -> 7 [] g = "8" -> 8 [] OTHER -> 9]
HexDigits   == DOMAIN ValueOf
White       == {" ", "\t", "\n"}
Operators   == {"!", "#", "%", "&", "*", "+", "-", ".", "/", ";", "<", "=", ">", "?", "@", "^",
                "|", "~"}    \* and the backquote, which no text of the model has
Stops       == White \cup {Eof, "{", "}", "[", "]", "(", ")", ",", "\"", "'"}
Identifiers == Words \cup Digits    \* what an identifier goes on with

\* A character for which there is no TLA+ string is named by its escape.
Escapes ==
  [g \in {"0", "a", "b", "f", "r", "v", "t", "n", "?", "/", "'", "\"", "\\"} |->
     CASE g = "t" -> "\t" [] g = "n" -> "\n"
       [] g \in {"0", "a", "b", "f", "r", "v"} -> "\\" \o g
       [] OTHER -> g]

NewTokenizer(in, last, after) ==
  [in |-> in, last |-> last, after |-> after, pos |-> 0, token |-> "error",
   unfinished |-> FALSE, err |-> "nil", c |-> Eof, text |-> << >>, got |-> FALSE]

Failed(z)        == z.err # "nil"
Fails(z, e)      == IF Failed(z) THEN z ELSE [z EXCEPT !.err = e, !.c = Broken, !.got = FALSE]
invalidChar(z)   == Fails(z, IF z.c = Eof THEN "ueof" ELSE "syntax")
Gets(z, x)       == IF Failed(z) THEN z ELSE [z EXCEPT !.got = x]
Write(z, g)      == IF Failed(z) THEN z ELSE [z EXCEPT !.text = Append(@, g)]
SetFinished(z)   == IF Failed(z) THEN z ELSE [z EXCEPT !.unfinished = FALSE]
ok(z, tok, more) == IF Failed(z) THEN z ELSE [z EXCEPT !.token = tok, !.unfinished = more]

Joined(glyphs) ==
  LET upTo[i \in 0 .. Len(glyphs)] == IF i = 0 THEN "" ELSE upTo[i - 1] \o glyphs[i]
  IN  upTo[Len(glyphs)]

\* "if err != nil { return err }", the error being that of p.
Unless(p, z) == IF Failed(p) THEN p ELSE z
-----------------------------------------------------------------------------
(***************************************************************************)
(* Characters.                                                             *)
(***************************************************************************)
read(z) ==
  IF Failed(z) THEN z
  ELSE IF z.pos < z.last THEN [z EXCEPT !.pos = @ + 1, !.c = z.in[z.pos + 1]]
  ELSE IF z.after = "io" THEN Fails(z, "io")
  ELSE [z EXCEPT !.c = Eof]

\* The end of the input comes back when it is read again.
unread(z) == IF Failed(z) \/ z.c = Eof THEN z ELSE [z EXCEPT !.pos = @ - 1]

peek(z) == [read(z) EXCEPT !.pos = z.pos]

\* The glyphs of the next n bytes, and the error that cut them short.
peekN(z, n) ==
  LET cs    == SubSeq(z.in, z.pos + 1, IF z.pos + n < z.last THEN z.pos + n ELSE z.last)
      bytes[i \in 0 .. Len(cs)] == IF i = 0 THEN 0 ELSE bytes[i - 1] + Len(cs[i])
  IN  [cs |-> cs, err |-> IF bytes[Len(cs)] >= n THEN "nil" ELSE z.after]

skipN(z, n) == IF Failed(z) THEN z ELSE [z EXCEPT !.pos = @ + n]

\* Reads up to the first of these places, and the glyph there, or the end.
readTo(z, places) ==
  read([z EXCEPT !.pos = IF places = {} THEN z.last
                         ELSE (CHOOSE i \in places : \A j \in places : i <= j) - 1])

Ahead(z) == z.pos + 1 .. z.last

\* Reads the run of glyphs in S, and the one behind it, into c.
readPast(z, S) == readTo(z, {i \in Ahead(z) : z.in[i] \notin S})

\* A comment may stand behind a value too.
isStopChar(z) ==
  LET p == peek(z)
  IN  IF z.c = "/" THEN Gets(Unless(p, z), p.c \in {"/", "*"}) ELSE Gets(z, z.c \in Stops)

MustStop(z) ==
  LET s == isStopChar(z)
  IN  IF s.got THEN s ELSE invalidChar(s)

expect(z, S) ==
  LET s == read(z)
  IN  IF s.c \in S THEN s ELSE invalidChar(s)
-----------------------------------------------------------------------------
(***************************************************************************)
(* White space and comments.  got says whether there was any.              *)
(***************************************************************************)
skipSingleLineComment(z) == readTo(z, {i \in Ahead(z) : z.in[i] = "\n"})

BlockComment(z, ends) ==
  LET s == readTo(z, ends)
  IN  IF s.c = Eof THEN invalidChar(s) ELSE s

skipBlockComment_AnySlash(z) ==
  BlockComment(z, {i \in Ahead(z) : i > z.pos + 1 /\ z.in[i] = "/"})

\* The star that opens the comment may be the one that closes it.
skipBlockComment(z) ==
  BlockComment(z, {i \in Ahead(z) : i > z.pos + 1 /\ z.in[i] = "/" /\ z.in[i - 1] = "*"})

\* Behind a slash, given the glyph that follows it.
Comment(z, p) ==
  CASE p.c = "/" -> Gets(skipSingleLineComment(z), TRUE)
    [] p.c = "*" -> Gets(skipBlockComment(z), TRUE)
    [] OTHER     -> Gets(Unless(p, z), FALSE)

skipCommentsHandler(z) == Comment(z, peek(z))

ensureNoCommentsHandler(z) == Fails(z, "syntax")

\* comments: "skip" them, "stop" at what looks like one, or "refuse" it.
RECURSIVE skipWhite(_, _, _)

AfterComment(z, comments, skipped) ==
  IF z.got THEN skipWhite(z, comments, TRUE) ELSE Gets(z, skipped)

AtWhite(z, comments, skipped) ==
  IF z.c \in White THEN skipWhite(z, comments, TRUE)
  ELSE IF z.c # "/" \/ comments = "stop" THEN Gets(z, skipped)
  ELSE IF comments = "refuse" THEN ensureNoCommentsHandler(z)
  ELSE AfterComment(skipCommentsHandler(z), comments, skipped)

skipWhite(z, comments, skipped) == AtWhite(read(z), comments, skipped)

skipWhitespaceWith(z, comments) == skipWhite(z, comments, FALSE)
skipWhitespace(z)       == skipWhitespaceWith(z, "skip")
skipWhitespaceHelper(z) == unread(skipWhitespace(z))
skipLobWhitespace(z)    == skipWhitespaceWith(z, "stop")

\* Whether there is a double colon behind the white space: got; white: was there any?
ColonsAt(z, n) ==
  IF n.err = "io" THEN Fails(z, "io")
  ELSE IF n.cs = <<":", ":">> THEN Gets(skipN(z, 2), [colons |-> TRUE, white |-> z.got])
  ELSE Gets(z, [colons |-> FALSE, white |-> z.got])

AtColons(z) == ColonsAt(z, peekN(z, 2))

SkipDoubleColon(z) == AtColons(skipWhitespaceHelper(z))

SkipDot(z) ==
  LET p == peek(z)
  IN  IF p.c = "." THEN Gets(read(z), TRUE) ELSE Gets(Unless(p, z), FALSE)
-----------------------------------------------------------------------------
(***************************************************************************)
(* Quotes.                                                                 *)
(***************************************************************************)
IsTripleQuote_AnyError(z) ==
  LET n == peekN(z, 2)
  IN  IF n.cs = <<"'", "'">> THEN Gets(skipN(z, 2), TRUE) ELSE Gets(z, FALSE)

\* Called behind a quote.
IsTripleQuote(z) ==
  LET n == peekN(z, 2)
  IN  IF n.err = "io" THEN Fails(z, "io")
      ELSE IF n.cs = <<"'", "'">> THEN Gets(skipN(z, 2), TRUE)
      ELSE Gets(z, FALSE)

\* What a quote in a long string is: a "quote", the "end" of the string or that of
\* one "segment" of it.
ThreeMore(q) == IF q.got THEN Gets(q, "segment") ELSE Gets(unread(q), "end")

BehindLong(z) == IF z.c = "'" THEN ThreeMore(IsTripleQuote(z)) ELSE Gets(unread(z), "end")

skipEndOfLongString(z, comments) ==
  LET n == peekN(z, 2)
  IN  IF n.err = "io" THEN Fails(z, "io")
      ELSE IF n.cs # <<"'", "'">> THEN Gets(z, "quote")
      ELSE BehindLong(skipWhitespaceWith(skipN(z, 2), comments))

readHexEscapeSeq(z, length) ==
  LET val[i \in 0 .. length] ==
        IF i = 0 THEN Gets(z, 0)
        ELSE LET t == expect(val[i - 1], HexDigits)
             IN  IF Failed(t) THEN t ELSE Gets(t, 16 * t.got + ValueOf[t.c])
      s == val[length]
  IN  IF Failed(s) THEN s ELSE Write(s, Runes[s.got])

readEscapedChar(z, isClob) ==
  LET s == read(z)
  IN  CASE s.c \in DOMAIN Escapes      -> Write(s, Escapes[s.c])
        [] s.c = "x"                   -> readHexEscapeSeq(s, 2)
        [] s.c = "u" /\ ~isClob        -> readHexEscapeSeq(s, 4)
        [] s.c = "U" /\ ~isClob        -> readHexEscapeSeq(s, 8)
        [] OTHER                       -> Fails(s, "syntax")

\* A backslash hides a newline.
processBackslash(z, isClob) ==
  LET p == peek(z)
  IN  IF p.c = "\n" THEN read(z) ELSE readEscapedChar(Unless(p, z), isClob)

RECURSIVE readQuoted(_, _, _, _)
readQuoted(z, close, invalid, isClob) ==
  LET s == read(z)
  IN  CASE s.c \in invalid -> invalidChar(s)
        [] s.c = close     -> s
        [] s.c = "\\"      -> readQuoted(processBackslash(s, isClob), close, invalid, isClob)
        [] OTHER           -> readQuoted(Write(s, s.c), close, invalid, isClob)

readQuotedSymbol(z) == readQuoted(z, "'", {Broken, Eof, "\n"}, FALSE)
readString(z)       == readQuoted(z, "\"", {Broken, Eof, "\n", Control}, FALSE)
readClob(z)         == readQuoted(z, "\"", {Broken, Eof, "\n", Control, HighByte}, TRUE)

RECURSIVE readLong(_, _, _, _)

AtQuote(z, comments, invalid, isClob) ==
  IF Failed(z) \/ z.got = "end" THEN z
  ELSE readLong(IF z.got = "quote" THEN Write(z, "'") ELSE z, comments, invalid, isClob)

readLong(z, comments, invalid, isClob) ==
  LET s == read(z)
  IN  CASE s.c \in invalid -> invalidChar(s)
        [] s.c = "\\"      -> readLong(processBackslash(s, isClob), comments, invalid, isClob)
        [] s.c = "'"       -> AtQuote(skipEndOfLongString(s, comments), comments, invalid, isClob)
        [] OTHER           -> readLong(Write(s, s.c), comments, invalid, isClob)

readLongString(z) == readLong(z, "skip", {Broken, Eof, Control}, FALSE)
readLongClob(z)   == readLong(z, "refuse", {Broken, Eof, Control, HighByte}, TRUE)

RECURSIVE skipQuoted_NoEscapes(_, _)
skipQuoted_NoEscapes(z, close) ==
  LET s == read(z)
  IN  CASE s.c \in {Broken, Eof, "\n"} -> invalidChar(s)
        [] s.c = close                 -> s
        [] OTHER                       -> skipQuoted_NoEscapes(s, close)

\* What a skipped string looks like inside does not matter, but for its end.
RECURSIVE skipQuoted(_, _)
skipQuoted(z, close) ==
  LET s == read(z)
  IN  CASE s.c \in {Broken, Eof, "\n"} -> invalidChar(s)
        [] s.c = close                 -> s
        [] s.c = "\\"                  -> skipQuoted(read(s), close)
        [] OTHER                       -> skipQuoted(s, close)

skipSymbolQuotedHelper(z) == skipQuoted(z, "'")
skipStringHelper(z)       == skipQuoted(z, "\"")

RECURSIVE skipLongStringHelper(_)

UnlessEnd(z) == IF Failed(z) \/ z.got = "end" THEN z ELSE skipLongStringHelper(z)

skipLongStringHelper(z) ==
  LET s == read(z)
  IN  CASE s.c \in {Broken, Eof} -> invalidChar(s)
        [] s.c = "\\"            -> skipLongStringHelper(read(s))
        [] s.c = "'"             -> UnlessEnd(skipEndOfLongString(s, "skip"))
        [] OTHER                 -> skipLongStringHelper(s)
-----------------------------------------------------------------------------
(***************************************************************************)
(* Numbers.                                                                *)
(***************************************************************************)
\* An underscore stands between digits only.
RECURSIVE readRadixDigits(_, _)
readRadixDigits(z, valid) ==
  LET s == read(z)
      p == peek(s)
  IN  IF s.c = "_" THEN IF p.c \in valid THEN readRadixDigits(s, valid) ELSE Fails(p, "syntax")
      ELSE IF s.c \in valid THEN readRadixDigits(Write(s, s.c), valid)
      ELSE s

readDigits(z) == IF z.c \in Digits THEN readRadixDigits(Write(z, z.c), Digits) ELSE z

readSign(z) ==
  LET s == read(z)
  IN  IF s.c = "-" THEN read(Write(s, "-")) ELSE s

readExponent(z) ==
  LET s == read(z)
  IN  readDigits(IF s.c \in {"+", "-"} THEN read(Write(s, s.c)) ELSE s)

Markers == {"e", "E", "d", "D"}

Fraction(z) == IF z.c = "." THEN readDigits(read(Write(z, "."))) ELSE z
Exponent(z) == IF z.c \in Markers THEN readExponent(Write(z, z.c)) ELSE z

\* By the marks a number was seen to have.
NumberType(marks) ==
  IF marks \cap {"e", "E"} # {} THEN "float"
  ELSE IF marks \cap {".", "d", "D"} # {} THEN "decimal"
  ELSE "int"

\* The type of the number is in got.
ReadNumber(z) ==
  LET first == readSign(z)
      whole == readDigits(first)
      n     == unread(MustStop(Exponent(Fraction(whole))))
  IN  IF first.c = "0" /\ Len(whole.text) - Len(first.text) > 1 THEN Fails(whole, "syntax")
      ELSE Gets(n, NumberType({n.text[i] : i \in 1 .. Len(n.text)}))

\* An error of the input right behind the marker is forgotten: err2 is not err.
readRadix(z, marker, valid) ==
  LET s == readSign(z)
      m == expect(Write(s, "0"), marker)
      w == Write(m, m.c)
      p == peek(w)
  IN  CASE s.c # "0"                    -> invalidChar(s)
        [] s.c = "0" /\ Failed(m)       -> m
        [] OTHER -> IF Failed(p) THEN [m EXCEPT !.text = << >>]
                    ELSE IF p.c = "_" THEN Fails(m, "syntax")
                    ELSE unread(MustStop(readRadixDigits(w, valid)))

readBinary(z) == readRadix(z, {"b", "B"}, {"0", "1"})
readHex(z)    == readRadix(z, {"x", "X"}, HexDigits)

skipDigits(z) == IF z.c \in Digits THEN readPast(z, Digits) ELSE z

skipSign(z) ==
  LET s == read(z)
  IN  IF s.c = "-" THEN read(s) ELSE s

skipFraction(z) == IF z.c = "." THEN skipDigits(read(z)) ELSE z

skipExponent(z) ==
  LET e == read(z)
  IN  IF z.c \notin Markers THEN z ELSE skipDigits(IF e.c \in {"+", "-"} THEN read(e) ELSE e)

\* Digits, a point and digits, an exponent: any of them may be missing.
skipNumber(z) == MustStop(skipExponent(skipFraction(skipDigits(skipSign(z)))))

skipRadix(z, marker, valid) ==
  LET s == skipSign(z)
  IN  IF s.c # "0" THEN invalidChar(s) ELSE MustStop(readPast(expect(s, marker), valid))

skipBinary(z) == skipRadix(z, {"b", "B"}, {"0", "1"})
skipHex(z)    == skipRadix(z, {"x", "X"}, HexDigits)

\* The reading of 0b and 0x is told from the first glyphs, that of a date too.
scanForNumericType(z) ==
  LET n  == peekN(z, 4)
      at == [i \in 1 .. 4 |-> IF i <= Len(n.cs) THEN n.cs[i] ELSE Eof]
  IN  IF n.err = "io" THEN Fails(z, "io")
      ELSE IF z.c = "0" /\ at[1] \in {"b", "B"} THEN Gets(z, "binary")
      ELSE IF z.c = "0" /\ at[1] \in {"x", "X"} THEN Gets(z, "hex")
      ELSE IF (\A i \in 1 .. 3 : at[i] \in Digits) /\ at[4] \in {"-", "T"}
      THEN Gets(z, "timestamp")
      ELSE Gets(z, "number")

\* Called behind a sign.
isInf(z) ==
  LET n  == peekN(z, 5)
      at == [i \in 1 .. 3 |-> IF i <= Len(n.cs) THEN n.cs[i] ELSE Eof]
  IN  IF n.err = "io" THEN Fails(z, "io")
      ELSE IF at[1] = "inf" /\ (at[2] \in Stops \/ (at[2] = "/" /\ at[3] \in {"/", "*"}))
      THEN Gets(skipN(z, 1), TRUE)
      ELSE Gets(z, FALSE)
-----------------------------------------------------------------------------
(***************************************************************************)
(* Timestamps.                                                             *)
(***************************************************************************)
\* n digits, and the glyph behind them.
readTimestampDigits(z, n) ==
  LET upTo[i \in 0 .. n] ==
        IF i = 0 THEN z
        ELSE LET t == expect(upTo[i - 1], Digits) IN Write(t, t.c)
  IN  read(upTo[n])

\* A separator that has been read, n digits, and the glyph behind.
Part(z, separator, n) ==
  IF z.c # separator THEN invalidChar(z) ELSE readTimestampDigits(Write(z, separator), n)

readTimestampOffset(z) ==
  IF z.c \notin {"-", "+"} THEN z ELSE Part(readTimestampDigits(Write(z, z.c), 2), ":", 2)

readTimestampOffsetOrZ(z) ==
  IF z.c \in {"-", "+"} THEN readTimestampOffset(z)
  ELSE IF z.c \in {"z", "Z"} THEN read(Write(z, z.c))
  ELSE invalidChar(z)

\* What is read and what is skipped is the same up to here: mode is "read" or "skip".
FractionOfSecond(z, mode) ==
  IF z.c # "." THEN z
  ELSE IF mode = "read" THEN readDigits(read(Write(z, ".")))
  ELSE skipDigits(read(z))

AtSecond(z, mode) ==
  readTimestampOffsetOrZ(IF z.c # ":" THEN z ELSE FractionOfSecond(Part(z, ":", 2), mode))

\* An hour has a minute.
AtHour(z, mode) ==
  LET hour == read(Write(z, "T"))
  IN  IF hour.c \notin Digits THEN readTimestampOffset(hour)
      ELSE AtSecond(Part(readTimestampDigits(Write(hour, hour.c), 1), ":", 2), mode)

Stopped(z, mode) == IF mode = "read" THEN unread(MustStop(z)) ELSE MustStop(z)

AtDay(z, mode) == Stopped(IF z.c = "T" THEN AtHour(z, mode) ELSE z, mode)

\* Nothing is asked of what follows a year or a month.
EndsAtT(z, mode) == IF mode = "read" THEN Write(z, "T") ELSE read(z)

AtMonth(z, mode) == IF z.c = "T" THEN EndsAtT(z, mode) ELSE AtDay(Part(z, "-", 2), mode)
AtYear(z, mode)  == IF z.c = "T" THEN EndsAtT(z, mode) ELSE AtMonth(Part(z, "-", 2), mode)

readTimestamp(z) == AtYear(readTimestampDigits(z, 4), "read")
skipTimestamp(z) == AtYear(readTimestampDigits(z, 4), "skip")
-----------------------------------------------------------------------------
(***************************************************************************)
(* Lobs.                                                                   *)
(***************************************************************************)
closeLob(z) ==
  LET s == skipLobWhitespace(z)
  IN  IF s.c # "}" THEN invalidChar(s) ELSE SetFinished(expect(s, {"}"}))

ReadShortClob(z) == closeLob(readClob([z EXCEPT !.text = << >>]))
ReadLongClob(z)  == closeLob(readLongClob([z EXCEPT !.text = << >>]))

RECURSIVE base64Text(_)
base64Text(z) ==
  LET s == skipLobWhitespace(z)
  IN  CASE s.c \in {Broken, Eof} -> invalidChar(s)
        [] s.c = "}"             -> SetFinished(expect(s, {"}"}))
        [] OTHER                 -> base64Text(Write(s, s.c))

ReadBlob(z) == base64Text([z EXCEPT !.text = << >>])

\* Everything up to the first brace; so a brace in a clob ends it.
skipBlobHelper(z) ==
  LET s == readTo(z, {i \in Ahead(z) : z.in[i] = "}"})
  IN  IF s.c = Eof THEN invalidChar(s) ELSE expect(s, {"}"})
-----------------------------------------------------------------------------
(***************************************************************************)
(* Containers, and any other value, that is skipped.                       *)
(***************************************************************************)
RECURSIVE skipContainerHelper(_, _)
PassOver(z) ==
  LET q == IsTripleQuote(z)
      p == peek(z)
  IN  CASE z.c = "\"" -> skipStringHelper(z)
        [] z.c = "'"  -> IF q.got THEN skipLongStringHelper(q) ELSE skipSymbolQuotedHelper(q)
        [] z.c = "("  -> skipContainerHelper(z, ")")
        [] z.c = "["  -> skipContainerHelper(z, "]")
        [] z.c = "{"  -> CASE p.c = "{" -> skipBlobHelper(read(z))
                           [] p.c = "}" -> read(z)
                           [] OTHER     -> skipContainerHelper(Unless(p, z), "}")
        [] OTHER      -> z

InContainer(z, term) ==
  CASE z.c \in {Broken, Eof} -> invalidChar(z)
    [] z.c = term            -> z
    [] OTHER                 -> skipContainerHelper(PassOver(z), term)

skipContainerHelper(z, term) == InContainer(skipWhitespace(z), term)

CloserOf == [list |-> "]", sexp |-> ")", struct |-> "}"]

SkipContainerContents(z, type) == skipContainerHelper(z, CloserOf[type])

\* The value of the current token, and the white space behind it; its first glyph
\* behind that is in c.
ClosingOf == [t \in {"(", "[", "{"} |-> CASE t = "(" -> ")" [] t = "[" -> "]" [] OTHER -> "}"]

SkipToken(z) ==
  CASE z.token = "number"           -> skipNumber(z)
    [] z.token = "binary"           -> skipBinary(z)
    [] z.token = "hex"              -> skipHex(z)
    [] z.token = "timestamp"        -> skipTimestamp(z)
    [] z.token = "symbol"           -> readPast(z, Identifiers)
    [] z.token = "quoted"           -> read(skipSymbolQuotedHelper(z))
    [] z.token = "operator"         -> readPast(z, Operators)
    [] z.token = "string"           -> read(skipStringHelper(z))
    [] z.token = "long"             -> read(skipLongStringHelper(z))
    [] z.token = "{{"               -> read(skipBlobHelper(z))
    [] z.token \in DOMAIN ClosingOf -> read(skipContainerHelper(z, ClosingOf[z.token]))
    [] OTHER                        -> Fails(z, "panic")

Ended(z) == SetFinished(IF z.c \in White THEN skipWhitespace(z) ELSE z)

skipValue(z) == Ended(SkipToken(z))

\* got: was there anything to finish?
FinishValue(z) == IF ~z.unfinished THEN Gets(z, FALSE) ELSE Gets(unread(skipValue(z)), TRUE)
-----------------------------------------------------------------------------
(***************************************************************************)
(* Tokens.                                                                 *)
(***************************************************************************)
\* A second glyph of the same kind makes another token.
Doubled(z, one, more, two, moreOfTwo) ==
  LET p == peek(z)
  IN  IF p.c = z.c THEN ok(read(z), two, moreOfTwo) ELSE ok(Unless(p, z), one, more)

\* A dot before white space other than a blank, or before a closer, is lost.
onDot(z) ==
  LET p == peek(z)
  IN  CASE p.c \in Operators              -> ok(unread(z), "operator", TRUE)
        [] p.c \in Identifiers \cup {" "} -> ok(unread(z), "dot", FALSE)
        [] OTHER                          -> ok(Unless(p, z), "dot", FALSE)

onQuote(z) ==
  LET q == IsTripleQuote(z)
  IN  ok(q, IF q.got THEN "long" ELSE "quoted", TRUE)

onSign(z, inf) ==
  LET q == isInf(z)
  IN  IF q.got THEN ok(q, inf, FALSE) ELSE ok(unread(q), "operator", TRUE)

onDigit(z) ==
  LET s == scanForNumericType(z)
  IN  ok(unread(s), s.got, TRUE)

\* There are no negative timestamps.
onMinus(z) ==
  LET p == peek(z)
      s == scanForNumericType(read(z))
  IN  IF p.c \notin Digits THEN onSign(Unless(p, z), "-inf")
      ELSE IF Failed(s) THEN s
      ELSE IF s.got = "timestamp" THEN invalidChar(s)
      ELSE ok(unread(z), s.got, TRUE)

TokenAt(z) ==
  CASE z.c = Eof                           -> ok(z, "eof", TRUE)
    [] z.c = ":"                           -> Doubled(z, ":", FALSE, "::", FALSE)
    [] z.c = "{"                           -> Doubled(z, "{", TRUE, "{{", TRUE)
    [] z.c \in {"}", "]", ")", ","}        -> ok(z, z.c, FALSE)
    [] z.c \in {"[", "("}                  -> ok(z, z.c, TRUE)
    [] z.c = "."                           -> onDot(z)
    [] z.c = "'"                           -> onQuote(z)
    [] z.c = "+"                           -> onSign(z, "+inf")
    [] z.c = "-"                           -> onMinus(z)
    [] z.c \in Operators \ {".", "+", "-"} -> ok(unread(z), "operator", TRUE)
    [] z.c = "\""                          -> ok(z, "string", TRUE)
    [] z.c \in Words                       -> ok(unread(z), "symbol", TRUE)
    [] z.c \in Digits                      -> onDigit(z)
    [] OTHER                               -> invalidChar(z)

NextToken(z) == TokenAt(IF z.unfinished THEN skipValue(z) ELSE skipWhitespace(z))

\* The glyphs of S up to one that is not.
readRun(z, S) ==
  LET run == {i \in Ahead(z) : \A j \in z.pos + 1 .. i : z.in[j] \in S}
      end == z.pos + Cardinality(run)
  IN  peek([z EXCEPT !.pos = end, !.text = SubSeq(z.in, z.pos + 1, end)])

Read(z) ==
  LET tok == z.token
  IN  CASE tok = "symbol"              -> readRun(z, Identifiers)
        [] tok = "quoted"              -> readQuotedSymbol(z)
        [] tok \in {"operator", "dot"} -> readRun(z, Operators)
        [] tok = "string"              -> readString(z)
        [] tok = "long"                -> readLongString(z)
        [] tok = "binary"              -> readBinary(z)
        [] tok = "hex"                 -> readHex(z)
        [] tok = "timestamp"           -> readTimestamp(z)
        [] OTHER                       -> Fails(z, "panic")

ReadValue(z) == SetFinished(Read([z EXCEPT !.text = << >>]))
=============================================================================
