# Verification of ion-go

TLA+ models of [ion-go](https://github.com/amazon-ion/ion-go), the Go
implementation of Amazon Ion: both writers, both readers with the tokenizer, the
symbol tables they depend on, the integer encodings, decimals and timestamps under
them, and the `ion-go process` command that puts them to work; TLC instances that
check them, and TLAPS proofs about both writers, the symbol tables and the command.

The library is sequential: no goroutines, no locks. What makes it hard is
different: two views of one structure that have to agree byte by byte (a length
that is announced before the bytes exist, a tag that is looked at before it is
read), state that is pending between two calls (field names, annotations,
errors, the symbol table in force), calls in any order, and an input or an output
that breaks off in the middle of anything.

## The system

| Component | State | Operations | Talks to |
|---|---|---|---|
| Integer encodings (`ion/bits.go`; readers in `ion/bitstream.go`) | none | append and measure UInt, Int, VarUInt, VarInt, tag; read and skip them | writer, bitstream |
| Symbol tables (`symboltable.go`, `symboltoken.go`, `catalog.go`) | imports with their offsets, own symbols, index | lookup by id and by name, `Adjust`, builder `Add`, `WriteTo`, catalog lookup | readers and writers, which translate every name through one |
| Local symbol table reading (`readlocalsymboltable.go`) | none of its own | reads a table through the public methods of the reader that met it | reader (re-entrantly), catalog |
| Binary writer (`binarywriter.go`, `buf.go`, `writer.go`, `ctx.go`) | two stacks (buffers, contexts), pending field name and annotations, a remembered error, the table | `WriteX`, `BeginX`, `EndX`, `FieldName`, `Annotation(s)`, `Finish` | `io.Writer`, builder or a given table |
| Bitstream (`bitstream.go`) | position, stack of container ends, state between tag and value | `Next`, `SkipValue`, `StepIn`, `StepOut`, `ReadX` | `bufio.Reader` |
| Binary reader (`binaryreader.go`, `reader.go`) | bitstream, contexts, table in force, current value, sticky error, reset position | `Next`, `StepIn`, `StepOut`, `Reset`, accessors | bitstream, catalog |
| Text writer (`textwriter.go`, `textutils.go`) | contexts, separator flags, pending names, remembered error | as the binary writer | `io.Writer` |
| Text reader (`textreader.go`, `tokenizer.go`, `skipper.go`) | tokenizer with pushed-back characters and a current token that may be unfinished; reader state, contexts, table in force, sticky error | `Next`, `StepIn`, `StepOut`, accessors; reading, skipping and peeking of every token | `bufio.Reader`, catalog |
| Decimals, timestamps (`decimal.go`, `timestamp.go`) | immutable values | arithmetic, comparison, parsing, formatting | readers, writers |
| Marshalling (`marshal.go`, `unmarshal.go`, `fields.go`) | cache of struct fields | traverse a Go value | any Reader or Writer |
| `cmd/ion-go` | files, open containers, error report; the depth and pending names of its event writer | copy files from a reader each to one writer | readers, writers, its own event writer and one that writes nothing |

Hard behaviours, and where: `PROJECT.json` lists them as hazards, each with its
line. In short: the order of calls is the user's (both stacks of the writer, the
position of the reader, names pending from one call to another); the input may end
or fail at any byte and the output at any `Write`; symbol tables are replaced and
appended to in mid-stream, and their imports may be missing from the catalog or be
of another version; and arithmetic has edges at the sign bit, at seven and eight
bits, at the length 14 and at the width of a word.

What makes each component correct:

* encodings: reading undoes writing, in exactly the number of bytes announced;
* symbol tables: an id has one text for everybody, at any point of the stream;
* decimals, timestamps: a value survives each of its forms, and operations are those
  of numbers;
* writer: what comes out reads as what was asked for, or as its beginning;
* reader: it is a cursor over the tree of values, however it is moved; an error is
  reported exactly when the input is damaged;
* tokenizer: what is skipped ends where it would have been read, and a failing source
  is never taken for an answer;
* command: the output reads as what the readers showed, over all files in order; what
  is lost is reported, once and truly; and it ends.

## Modules

Each module extends the one in front of its arrow:

```
Bits ─> Decimals ─> Timestamps ─> MCNumbers
SymbolTable ─> SymbolExchange ─> MCSymbolExchange
SymbolTable, Lemmas ─> SymbolTableProofs
SymbolExchange, SymbolTableProofs ─> SymbolExchangeProofs
SymbolTable ─> Writer
Bits, Writer ─> BinaryWriter ─> WriterMeaning ─> MCBinaryWriter
                BinaryWriter, Lemmas ─> BinaryWriterProofs
                WriterMeaning, BinaryWriterProofs, SymbolTableProofs ─> DecodeProofs
                DecodeProofs ─> WriterMeaningProofs
Writer ─> TextWriter ─> TextMeaning ─> MCTextWriter
                        TextMeaning, Lemmas ─> TextWriterProofs
Writer ─> EventWriter
Bits, SymbolTable ─> Bitstream ─> BinaryReader ─> BinaryStream ─> MCBinaryReader
SymbolTable, Tokenizer ─> TextReader ─> TextStream ─> MCTextReader
Copy ─> MCCopy
Copy, Lemmas ─> CopyProofs

LocalTables is instantiated by BinaryReader and TextReader
Cursor is implemented by BinaryStream and TextStream
Cursor, TextMeaning and EventWriter are instantiated (composed) by Copy
```

**Bits** has the functions of `bits.go` and the readers that undo them, in closed
form but for the three loops over VarUInts and VarInts of `bitstream.go`, each of which is
a recursive function of its own, over a byte of `ByteBits` and a word of `WordBits` bits. **Decimals** has the
methods of `decimal.go` as operators over an integer coefficient and a scale of
`ScaleBits` bits that wraps around where the code converts to `int32` and panics where
the code does; a text is a record of its sign, its digits and its exponent.
**Timestamps** has `timestamp.go`: the constructors, `String` and `ParseTimestamp`, the
rounding of the fraction of a second, and the binary form with its length. A timestamp
is a number of seconds, a fraction and an offset; a calendar with units of any size turns
seconds into fields, and a text is a record of fields, digits and a zone. **MCNumbers**
has one state per input of the three.

**SymbolTable** has tables as records and the methods as operators: `Adjust`,
`FindByName`, `FindByID` over the import offsets, the builder's `Add`, `WriteTo`
(to a "wire form": a list of import declarations and symbols) and the reading of
the wire form with a catalog. `""` stands for a gap in a list of symbols, as in the
code. **SymbolExchange** puts them to work: authors (this library's writers with a
builder or with a table taken from a reader, and other implementations, which also
write `imports:$ion_symbol_table`) send tables to one reader, whose catalog is any
subset of what was published. The variable `meaning` is the abstract table.

**Writer** is what the two writers share (`writer.go`, `ctx.go`): contexts, pending
field name and annotations, the remembered error, the calls of `io.Writer.Write` and
their faults (`EmitTo`). `fault` is the interval of `Write` calls that fail; a failing
call leaves a *torn* atom, any prefix of what it was given. `said` and `kept` are history
variables: what the caller asked for, and whether no error has been forgotten.

**BinaryWriter** is the writer's record `w`; each method is an operator from
record to record with its error in `ret`, and each call of the interface an action.
Output is a sequence of atoms, one for each call of `io.Writer.Write`: a tag with
its code and length, a field id, annotation ids, a scalar's bytes. Sizes are
computed with `Bits`, in two ways as in the code: announced (`containerLen`, the sum
of `varUintLen`) and real. **WriterMeaning** is the other side: `Decode` reads the atoms
the way the Ion specification has it, by extents, and compares with `said`.

**TextWriter** is `textwriter.go` in the same style. An atom is again one `Write`: a
separator, a bracket, a colon, or a part of a lexeme (a quoted symbol takes three calls,
a lob as many as the code makes). Unlike in the binary writer, the local symbol table
is written by the writer's own methods: `TableCalls` is the list of calls
`symboltable.go` makes on the writer, `RunCalls` makes them on the record that is in
the middle of its first value. **TextMeaning** reads the atoms by the grammar of Ion
text, where a space, a comma and a line end are what separate values at top level, in
lists and in s-expressions.

**EventWriter** is the writer of `cmd/ion-go/eventwriter.go`: an event for each call, with
the depth and the names it had, through an encoder that remembers its error.

**Copy** is the command `ion-go process` (`process.go`, `schema.go`, `util.go`), which runs
by itself: one action for each thing it does between two looks at the reader. The reader
is not a particular one but a `Cursor` over the values of the file, which may be damaged;
so what is shown of the command holds with either reader, both of which implement
Cursor. The writer is that of TextWriter, EventWriter, or none; `frames` are the recursive
calls of `process()`, one per container. The readings of the output are those of
TextMeaning and of EventWriter.

**Bitstream** reads bytes: one operator per method over the record `b`, which also
holds the input, where it ends and with what ("eof" or "io"). **BinaryReader** is the
reader over it. **LocalTables** is `readlocalsymboltable.go`: a local symbol table is read
through `StepIn`, `Next` and `StepOut` of the very reader that met it; both readers
instantiate it with their own three methods. **BinaryStream** is the system:
a stream, encoded by authors other than this library (padding, long lengths, ordered
structs, tables anywhere), cut off anywhere, and a caller who calls `Next`, `StepIn`,
`StepOut` and `Reset` in any order. **Cursor** is the abstract specification: the tree
of values, a path, what is shown, the last call and its answer, which calls may be refused
where, and what a damaged stream may do. BinaryStream is
shown to implement Cursor (`Promise == INSTANCE Cursor`, `ReadsStream == Promise!Spec`):
`path` and `answer` are its history variables, `values` what the author meant, computed
from the items of the stream and never from its bytes.

**Tokenizer** is `tokenizer.go` and `skipper.go`: the methods that read a token and those
that skip one, over *glyphs*. A glyph is a character, but for words (identifiers and parts
of them), which no method looks into. The record `z` has the text, how many glyphs will
ever come and what comes then, `"eof"` or `"io"`; what was pushed back is what has not
been read. Where Go returns an error at once, an operator that is given a record with an
error leaves it alone, so that methods compose as they are called. **TextReader** is the
reader over it: `Next` is a loop of tokens (`RawToken`), each decided on by the state
(`nextAfterValue`, `nextBeforeFieldName`, `nextBeforeTypeAnnotations`). **TextStream**
is the system, the counterpart of BinaryStream: authors of Ion text write items in one
of several layouts (no white space at all, blanks, comments full of quotes and closers),
the text ends or its source fails at any glyph, and a caller calls `Next`, `StepIn` and
`StepOut` in any order. It implements Cursor too.

`PROJECT.json` maps every definition to the lines it models. The MC modules only give
values to constants.

## Runs

| Run | Shows |
|---|---|
| `numbers` | encode and decode are inverse for every word, and every byte string of two bytes is read or refused as it should be; announced lengths are real; `OnlyLongestWraps`: the loops that read a VarUInt, skip one and read a VarInt stop at the same byte for the same reason, whatever the room and wherever the input ends, and only the longest form wraps around; `DecimalRoundTrip`, `DecimalArithmetic`, `DecimalTruncation` for every coefficient and scale; `TimestampRoundTrip`: a timestamp of every precision and offset comes back from its bytes, in the length announced, and from its text; `FractionRounds`: the fraction of a second is rounded to the same point in time in both, with its carry, and claims as many digits in both while their number fits a byte |
| `symbol_exchange` | `Agreement`: whatever tables travel, the reader gives each id the author's text or none; `HandedOutOnce`, `NamesFindLeastID`; `OwnTablesAccepted`: tables of this library are never refused |
| `binary_writer` | `WrittenIsRead` and `OutputIsPrefix` over any calls and failing outputs; `StackDiscipline`, `NoPanic`; `LengthsAreBytes`; `NameInStruct`; `GivenTableIsFixed`; `TableAtTopLevel` |
| `text_writer` | the same of the text writer, plain, quiet and pretty: `WrittenIsRead`, `OutputIsPrefix`; `RemembersErrors`: a stored error is the answer to every later call (in the binary writer it is not, see below); `Indented`: a line is indented by its depth; `FinishEndsLine`: datagrams on one writer stand on lines of their own |
| `binary_reader` | `ReadsStream` (refinement of Cursor), `ContainersNest` (the panics of the bitstream are out of reach), `ErrorsNameTheDamage` |
| `text_reader` | `ReadsStream` (refinement of Cursor); `SkipAgreesWithRead`: from every token that may come next, skipping it and reading it end at the same glyph, but for numbers with underscores and clobs with a closing brace, where they never do; `NothingElseUnfinished`: what is left unfinished between two calls is a number or a container to step into, so that no panic of the tokenizer is reached; `FailureIsNotTheEnd`: when the source fails while something is peeked at, skipped or read, that is the error, and never the end |
| `copy` | `CopiesInOrder`: the output reads as the beginning of what the readers showed; `LossIsReported`; `ReportedOnce`; `ReportsAreTrue`; `Completes`: the command ends, however files and output fail |
| `writer_second_datagram` | after `Finish`, a builder's new symbols are defined by no table |
| `writer_finish` | a second `Finish` returns nil after the first lost the datagram |
| `reader_annotated_true` | an annotated `true`, as this writer writes it, is refused |
| `reader_ordered_struct` | an ordered struct of 15 bytes is read as `null.struct` |
| `copy_nulls` | a null string is dropped by the copy loop, its annotation goes to the next value |

The last five are counterexamples on purpose: each checks one property that a comment or
the README states and that the code does not have. Passing properties are stated so that
they hold beside them (`kept`, `AllShipped`, `NoNulls`, the streams of `MCStreams`), and
the comment at each property says how.

Other places where the models follow the code and the code is not what one would
expect; no run is about them:

* the binary writer forgets a remembered error when a symbol is looked up afterwards
  (`binarywriter.go:255`, `270`); histories after that are excluded by `kept`;
* the symbols of a table that was appended to travel as an import without a name, which
  `WriteTo` writes and `readImport` ignores (`readlocalsymboltable.go:61`, `152`): handing
  such a table to a writer shifts all ids (the guards of `Relay` and `ReuseImports`);
* rounding a decimal cuts its coefficient to an int64 first (`decimal.go:292`);
* the number of digits of a binary fraction of a second is narrowed to a byte
  (`uint8(d.scale)`, `bitstream.go:704`), though the comment above it says "as per the scale
  value": a fraction of 256 digits keeps its nanoseconds and loses its precision, while as
  many digits in a text are cut to nine (`FractionRounds` says both);
* of a negative number above -1, `trunc` may find only the sign to parse
  (`decimal.go:283`): `DecimalTruncation` says zero or that error;
* an error of the source right behind `0b` or `0x` is dropped, and the empty text panics
  in `parseInt` (`tokenizer.go:863`, `textutils.go:297`; left out by `MayFailAt`, which
  `FailureIsNotTheEnd` names);
* in an s-expression, a `.` before a line end or a closer reads as a symbol with no text
  (`tokenizer.go:235`); streams put a blank behind operators;
* a closing brace inside a clob ends the clob when it is skipped (`skipper.go:605`, issue
  115), so that a container with such a clob cannot be passed over, only stepped into. The
  streams have such clobs, at top level and in a container: `SkipAgreesWithRead` exempts
  them by name and says that nothing but them and underscores differs, and `ReadsStream`
  takes the container for damaged (`braced`). No stream has a clob with two braces in a
  row, after which the skipping may end anywhere;
* `/*/` is a whole comment (`skipper.go:854`), and the numbers of skipped tokens may not have
  underscores (`skipper.go:733`), which only tokens that were never read would show;
* a null blob or clob is copied as an empty lob by the text writer, a null blob and a null
  decimal as a null by the writer of events; other nulls panic (`process.go:243-306`,
  `CopyNull`);
* `$ion_symbol_table::null.struct` in text is shown as a value and resets no table
  (`textreader.go:314` asks `IsNull` where it never is); `$ion_1_0` is shown as a symbol.

### Bounds

* `numbers`: bytes of 4 bits and words of 8, all strings of up to 4 bytes as two numbers
  of 16 bits. Every rule of `bits.go` depends on the width of a byte and of a word
  only through `ByteBits` and `WordBits`; a VarUInt longer than a word and a word of
  one byte with its top bit set both occur. The byte that counts the digits of a fraction
  has one or two bits in `FractionRounds` (`PrecisionBits`, 8 in the code), so that as many
  digits as wrap it around occur. Decimals have coefficients of 11 bits, so
  that they pass the word, and scales of 3 (`ScaleBits`), so that the smallest scale, a
  result out of range and a wrapped negation all occur; `UpscaleLimit` 3 stands for the
  20 of `decimal.go:257`. Pairs have 5 and 4 bits. The `Calendar` has two months, days,
  hours and minutes and four seconds, of which `Ones` 2 share their tens; a fraction of a
  second has up to two digits (`FractionDigits`, 9 in the code) or one more than fits, so
  that every precision, offset and carry up to the year occurs.
* Elsewhere a byte has 8 bits and a word 30, because TLC's integers have 32.
* `symbol_exchange`: two versions of one shared table and another that repeats a text
  of the first, all eight catalogs; `MaxNew` 2 symbols per builder, `MaxMeaning` 15 ids
  (nine of them the system's), `MaxImports` 4. Larger, equal and smaller `max_id`,
  missing `max_id`, versions below one and unnamed imports all occur.
* `binary_writer`: five events (`MaxSaid`), nesting two deep (`MaxDepth`), one pending
  annotation (`MaxMarks`), 8 `Write` calls (`MaxWrites`), a scalar of 12 bytes which
  takes a container over the length 14 at which a length leaves the tag. Three fault
  patterns: none, the second call (the table), calls four to six. `GoOn` = FALSE stops
  the caller once an error has been forgotten (`binarywriter.go:255`), and refused calls do
  not count against `MaxSaid`.
* `text_writer`: four events, two deep, one pending annotation, output intact or
  failing at calls five to seven; each of the options plain, quiet finish and pretty,
  with and without an import (which makes the writer write a table). `MaxWrites` 90 is
  never met in these bounds.
* `binary_reader`: 5 long streams and every pair of 12 pieces whose symbols are defined,
  each arriving whole or cut at every byte behind the version marker, ending in "eof" or
  "io". `MaxSteps` 9 raw values up to one for the user: a reader that needs more fails
  with the error "bound", which violates `ErrorsNameTheDamage`, so the bound is never
  silently met. `GoOn` = FALSE: a caller stops once `StepOut` failed on the input; going
  on, the next `StepOut` panics (the hazard at `bitstream.go:324`). `MaxResets` 2.

* `text_reader`: 6 texts with every form of number, timestamp, string, symbol, lob,
  container and table the tokenizer has a case for, and every pair of 9 pieces behind a
  table. The texts without white space end or fail at every glyph (`MayEndAt` leaves
  out ends that are a shorter number or name, which are whole texts of their own); a
  short one does so with blanks and with both kinds of comment; all of them arrive whole
  in the four layouts. Nothing bounds the calls: the state space of a stream is finite.
* `copy`: one to three files, of them damaged ones and one that cannot be opened, with
  containers in containers, names, ids without a text and nulls; each of the four outputs,
  whole, failing at one call, or failing for good from one on; and an error report that
  cannot be written.

### Fairness

`Copy` has `WF_vars(Next)`: the command is a program that runs by itself, each of its steps
is a call that returns, and nothing else is assumed. Under it `Completes` says that
the loops over files, values and containers end. The reader it copies from is a
Cursor, which may go on as long as there are values; that there is no endless stream is
in the inputs.

The other modules have no fairness and no liveness property: the library has no
scheduler, a step is a call of the user. That a call returns at all is part of each
operator: the loops of the readers are recursions over an input that only gets
shorter, and TLC would not come back from one that does not end.

## Proofs

Proved for every value of the constants, so for every caller, every depth, every fault
pattern and every set of shared tables:

| module | theorem | states |
|---|---|---|
| `BinaryWriterProofs` | `TypeCorrect` | `Spec => []TypeOK` |
| | `StacksAgree` | `Spec => []StackDiscipline` |
| | `NeverPanics` | `Spec => []NoPanic` |
| | `LengthsAgree` | `Spec => []LengthsAreBytes` |
| | `TableIsFixed` | `Spec => []GivenTableIsFixed` |
| | `NamesStayInStruct` | `Spec => []NameInStruct` |
| `WriterMeaningProofs` | `TablesStandAtTop` | `Spec => []TableAtTopLevel` |
| | `OutputLeads` | `Spec => []OutputIsPrefix` |
| | `ValuesAreRead` | `Spec => []WrittenIsRead` |
| `SymbolExchangeProofs` | `IdsStay` | `Spec => []HandedOutOnce` |
| | `NamesLeadToLeastID` | `Spec => []NamesFindLeastID` |
| | `WrittenIsAccepted` | `Spec => OwnTablesAccepted` |
| | `AuthorsAndReadersAgree` | `Spec => []Agreement` |
| `TextWriterProofs` | `TextWriterTypes` | `Spec => []TypeOK` |
| | `TextWriterRemembersErrors` | `Spec => RemembersErrors` |
| | `FinishedLineEnds` | `Spec => FinishEndsLine` |
| | `TextOutputIsRead` | `Spec => []WrittenIsRead` |
| | `TextOutputLeads` | `Spec => []OutputIsPrefix` |
| | `LinesAreIndented` | `Spec => []Indented` |
| `CopyProofs` | `FailuresAreReportedOnce` | `Spec => []ReportedOnce` |
| | `WhatIsReportedHappened` | `Spec => []ReportsAreTrue` |

Assumed are the named assumptions on the constants, which TLC evaluates in the runs:

* `TextAssumption`, `BitsAssumption`, `KindsAssumption`, `NotBareAssumption`;
* `ImportsAssumption`: the tables a writer is made with are a list; `ScalarsAssumption`:
  a scalar takes at least one `Write` call, in the binary writer each of one byte or more
  (every one begins with a tag, and the bytes of a lob or a number that follow in a call of
  their own are never none: `binarywriter.go:163`, `355`);
* `TableAssumption` (WriterMeaning): the table handed to `NewBinaryWriterLST` is one that
  `NewLocalSymbolTable` makes, with the system table first, of texts;
* `ImportableAssumption` (WriterMeaning): a shared table that is imported has a name other
  than that of the system table, a version from 1 on, and is the only one of its name and
  version in the catalog of the reader of the output. Otherwise the table could not be found
  again, as below of declarations (`readlocalsymboltable.go:152`, `155`, `161`);
* `TokensAssumption` (WriterMeaning): a string and the text of a token is a text;
  (TextWriter): the id of a token without text has a text `$n`, as `Sprintf("$%v", id)`
  gives every id one (`textutils.go:159`);
* `RegistryAssumption` and `WorldAssumption`: a published table has a name, which is not
  that of the system table, a version from 1 on, and texts; declarations hold integers. A
  table under another name or version could be declared by nobody: the reader takes an
  import without a name for none, and a version below 1 for 1
  (`readlocalsymboltable.go:152`, `155`);
* `TreesAssumption` and `InputsAssumption` (Copy): a file holds a list of values, each of a
  type of `type.go`, with a list of values inside. `Trees` has the values of all files
  and is closed under what is inside of one; there is no bound on depth.

### The stacks of the binary writer

The invariants are not inductive by themselves. The comment in `buf.go` says that the
stacks match "more or less", and the proof is about that "less": in given-table mode
there is no datagram under the containers; between the two halves of a value a
wrapper lies on top that belongs to no context; and a failed emit leaves a context
without its buffer. The inductive invariant `Closed` therefore counts contexts from the
top (`Mirrors`): the k-th container buffer from the top has the kind of the k-th
context from the top, a wrapper has a container right above it, a datagram can only lie
at the bottom and then has a buffer for every context. Inside a method the weaker
`MirrorsOpen` holds, in which a wrapper may be on top. The lemmas follow the methods:
`Emit` changes no kinds, a push of a wrapper and its pop by `EndValue` cancel, `Begin`
pushes on both stacks and `End` pops both. `NoPanic` follows because a `Finish` at top
level finds at most the datagram.

TLC checks the invariant too, as its conjuncts `TypeOK` and `StackDiscipline`.

### Lengths, and induction

The operators that these proofs are about sum up, look for a least member, or go through a
list: recursive functions over `0 .. n`. The library states induction for a predicate, which
cannot be instantiated here; `Lemmas` states it for a set of numbers instead. `Least` (every
set of naturals that is not empty has a least member) follows from the well-foundedness of
`<` on the naturals, `Induction` from it, and `Steps` says that a computation in n steps
exists, so that a recursive function is what its definition says. On these rest
`SumIsUnique` and `SizeOfConcat` (the size of what is written in two parts is the sum of
theirs), `ResolveMarksKeeps`, and the offsets and imports below.

`Sound` is the inductive invariant of the three theorems. `LengthsAreBytes` alone
nearly is inductive, but what is emitted must have sizes that can be added; a given table
stays only because all lookups keep it (`ResolveKeepsTable`); and a pending name is in a
struct because containers are entered and left only after `Clear`, on every error path as
well. It is shown of each part of an operation, since a value is written in parts.

### The meaning of the binary output

`TableAtTopLevel` is about the history of the buffers. A writer that was given its table
writes it within the first value, before anything is pushed, so `Placed` says when there
can be no buffer yet; that `Finish` finds none under the table it writes is
`StackDiscipline` again (`DatagramAlone`).

`WrittenIsRead` and `OutputIsPrefix` compare a sequence of atoms with the calls that made it,
through a reader who is told extents and never ends. `DecodeProofs` is about that reader
alone. `Reads(t, A, E, way)` says of the atoms `A` that they tell the events `E` to any reader
who knows the texts of the table `t`, behind any events and inside any extents with room for
them; where `A` ends a value does (`"whole"`), or a name waits for one (`"pending"`). It
holds of two runs of atoms in a row if it holds of each (`ReadsConcat`), and of a container or
a wrapper if it holds of what is inside and the tag announces the size of that (`NodeReads`).
This is where the lengths are needed, and where an empty container, one whose end is that
of the containers around it, and an annotated one come out alike (`CloseOne`). Whatever
the atoms, a reader only adds to its events (`WalkReadsOn`), so a torn output tells the
beginning of a whole one.

The inductive invariant is `MInv`: `Told(w, said)` as long as no error was forgotten. Of a writer
without an error it says `Live`: what stands in the output and then in each buffer, from the
bottom up and each begun inside the one below, comes to what the caller said, while the names
still pending are no part of it. Of a writer with one it says that the output tells a beginning
of that (`Begun`). Neither is true in the middle of a method, so each part of one has a lemma
on what it adds, or what it leaves behind when it fails: `EmitLive` for what is written, into a
buffer or out, and `PushLive`, `PopAndEmitLive`; on these `BeginNameLive`, `BeginMarksLive` and
`BeginValueLive`, and then the methods, `WriteValueLive`, `BeginLive`, `EndLive` and
`FinishLive`, where the datagram is put behind its table. A method `Does` its part, and
`CallTells` carries the invariant over a call.

Names are the difficulty. Most ids are written before the table that defines them, and the
builder goes on growing; with a given table the names are there, but the table is written in
the middle of the first value. So an id means what the writer's table says (`Means`), and goes
on to in every `Later` table; `LiveStays` is that of all that is buffered. What the caller
`said` is made of names as they are given, and the writer resolves them with a table that
has grown since: `PrefixAlike` says that it makes no difference. The reader is at hand once the
table is out (`Meets`), and `ReadBack` shows that what `WriteTo` wrote is read back with the
same ids: every import is found in the catalog under its name and version and nothing of it is
cut off (`ImportReadBack`).

### Symbol tables

`SymbolTableProofs` is about the operators: the offsets of the imports nest (`OffsetsNest`),
so an id belongs to one import, and `FindByID` finds it there (`ImportOfID`); hence a name
leads to an id of its text (`NameToID`), and to no later one than any other (`LeastID`). Both
hold of tables (`IsTable`: the index leads to first occurrences, every import has room for
its texts), and the other half of the module shows that whatever makes a table makes
one of this kind: `NewLocalTable`, `Add`, `Adjust`, `ReadImports` of any list with any
catalog, and appending. In `SymbolExchangeProofs` the inductive invariant is that the
builder's and the reader's tables are such tables and that what was handed out
is what its text is found by, which `Add` changes for no name that is found (`AddGrows`).
`WrittenIsAccepted` follows from `ImportIsRead`: an import that declares its `max_id` is never
refused, and `WriteTo` declares all of them.

### Agreement

What an id means is added up over imports, so the proof goes import by import.
`DeclaredFits` and `ForeignFits`: what a reader makes of a declaration, with whatever
its catalog has, covers as many ids as the author's import and gives each the author's text
or none. `ReadingCovers` carries that from an import to the list of them, with
`OneMoreImport` for the offsets; `TableAgrees` from the lists to the tables made of them,
with the symbols behind; and `AgreesAsImports` turns a table that agrees into the
import that an append makes of it. The invariant `AgreeInv` must say more than
`Agreement`, because a reader's table may become an author's: its first import is the
system table, and every other one has the texts of a published table under its name
and version, or none, or has no name and is never written.

### The text writer

`Fit` is kept by each operator a method is made of, on every path: the indentation counts
the contexts as long as no error is stored, an error that was returned and not stored is
not followed by a nil in the same method, and output and annotations are lists. The table
in front of the first value is a recursion over the writer's own methods; `RunCallsFit`
is the induction over the calls, for which `TableCallsProper` shows that they begin
nothing but containers (`FlattenLists` is about `FlattenSeq`). With it `TypeOK` and
`RemembersErrors` follow. For `FinishEndsLine` the invariant says of a writer between two
datagrams that its output is at the start of a line (`LineFit`), and every method that
writes is `Settled`: it ends with something written of this datagram, in a container, or
with an error.

`WrittenIsRead` needs the reader of the text in the invariant. `ReadOn` reads on from
where a reader is, and `ReadOnConcat` splits the reading of what a method emits into
that of its parts; so each part of a method has a lemma that says where it takes the reader:
`LayoutRead`, `FieldRead`, `MarksRead`, `ScalarRead`, `NameRead`, `OpeningStep`, `LeaveRead`. A
symbol at the end of the output is read only when something stands behind it, so the
invariant speaks of the reader with its last name decided (`Stands`): it has told what
`Expected` says, has the writer's contexts open, and is behind a value exactly when the
writer knows that it needs a separator (`Reading`). The last is the hard part, because
beginning a container, refusing a call, ending a datagram and writing the table each
set `needsSeparator` in their own way. `Starts` adds that the names set aside are tokens
with a text, and that nothing is written before the table is. The calls of the table go through
the same lemmas (`NamedRead`, `ScalarCallRead`, `BegunCallRead`, `EndedCallRead`). `WriteSymbol` writes the id of a token as `$n`, and quotes a text that looks like
one: `SymbolIsName` is where that is read back.

`OutputIsPrefix` is about the outputs of which nothing more is known than that something
failed, anywhere. It rests on two facts. One is about the reader alone: it forgets no event
and no mistake (`StepGrows`, `ReadOnGrows`), so the beginning of an output that can be read
can be read and tells the beginning of what the output tells; `Leads` is that relation
between lists of events, and with `EmitTold` it does not matter at which atom a `Write` call
fails. The other is that each part of a method, when it fails, was writing the atoms that it
writes when it succeeds; so next to the lemma on its success stands one on what it leaves
behind in any case: `BeginRestTold` (the names in front of a value, down to the annotations
before one that is not valid), `PutLexemeTold`, `EnterTold`, `EndTold`. In the table, a call
after one that failed does nothing; `Outcome` says both, that all is written or that
a part is and the writer has failed, and goes from a call to an import
(`ImportOutcome`), to all of them by induction (`ImportsOutcome`), and to the table
(`TableOutcome`). A method `Falls`: however it ends, what is whole of its output leads what
the caller meant, and `PrefixFit` keeps that, as a writer with a stored error writes nothing.

`Indented` is about any two places of the output, however far apart, so it is carried along the
output by what a place needs to know of what is in front of it: `Hangs(out, n)` says that if
nothing but tabs stands behind the last break they are n, and it is `Solid` if there is no
such break. Blanks may always be added (`BlanksIndent`); anything else needs the line to hang
on as many tabs as there are brackets open, for a closing one behind it (`InkIndents`). The
invariant `LinesFit` says of a writer between two calls that the brackets open in the output
are its contexts and that it is behind something `Solid`, unless `Finish` has just ended
the line (`Standing`). That is where an empty container, a first value, and one behind a
datagram are told apart, since a writer that needs no separator breaks no line. An output that
is in order is so up to any atom (`FrontIndents`), so it does not matter which `Write` fails.

### The reports of the command

`ReportedOnce` follows from `InOrder`: reports are ordered by file and by value, and the
last one is of a file that has been left. `ReportsAreTrue` needs to know where everybody
is: `Truthful` says that the reader stands on a path through the tree of the file
(`ReaderFit`, with a `Trail` of the lists of values it is in), that the containers of
`process()` and what was shown are in `said` (`SaidFit`), and that the writer is in the
reader's containers until a read error leaves it behind in one, and remembers its errors
(`WriterFit`). So a null container that stops the reader was shown, a file left inside a
container was left for a read error, and a writer refuses nothing before that. The
lemmas on the methods of TextWriter and EventWriter carry over what the command needs:
`Call` (a method that leaves the contexts alone), `BeginCall`, `EndCall`, `Tells` (an error
that is returned is stored, except that of a lob).

### Only model-checked

* What the output of the command means (`CopiesInOrder`, `LossIsReported`): it needs what was
  proved of the text writer again, for a writer that gets its calls from the loop and goes on
  over several files, and the reading of events.
* The encodings, decimals and timestamps: the readers and writers of `Bits` are recursions
  over digits, and powers with a variable exponent are out of the provers' reach.
* The refinements of `Cursor` and what goes with them (`ContainersNest`,
  `ErrorsNameTheDamage`, `SkipAgreesWithRead`, `NothingElseUnfinished`,
  `FailureIsNotTheEnd`): the encoders and the tokenizer are RECURSIVE operators.
* Liveness (`Completes`).

## Not modelled

* Payloads of floats and timestamps: opaque bytes in the readers, sizes in the
  writer. Decimals and timestamps are modelled apart from the readers: `readDecimal` takes an explicit
  positive zero coefficient for a negative one (`bitstream.go:742`), as the code does.
* Characters, in the text writer: escapes, number formats. A name or a string is a value;
  what decides between quotes and none is the set `NotBare`. `round` divides exactly, where
  the code divides floats.
* In the text reader: what the parsers make of the glyphs of a float, decimal, timestamp or
  blob (base64), the normalisation of line ends, UTF-8, the positions in messages; malformed
  text, other than by being cut short; names that no table defines. A text that
  ends in half a token reads as a shorter one (`MayEndAt`).
* In `ion-go`: the command line and its arguments, the binary output (the loop is the same),
  the rendering of values inside events, the `schema` and `version` commands.
* The error of the output that `WriteClob` and `WriteBlob` of the text writer return
  without storing it (`textwriter.go:164`) is in the model; `kept` takes such histories
  out of `WrittenIsRead` and `OutputIsPrefix`.
* The conversions of accessors, `String()` methods and messages.
* In the binary writer, a local symbol table is one atom (its own bytes are written by the same
  methods at top level, where no state is pending).
* In the binary reader: annotation lengths beyond the input's (the unsigned underflow of the
  remaining length), symbol ids that no table defines (the reader refuses them) and
  tables with null names or versions (`VisitImportField` has the panic; no stream has
  the table). A trailing padding in a struct leaves the field name behind, and after an
  error `Type` still answers: `Shown` masks both, as there is no value then.
* `Reset` from inside a container, or on a stream whose tables change: its comment
  excludes different symbols, and the contexts are not reset (hazard at
  `binaryreader.go:57`).
* `Marshal` and `Unmarshal`: driven by reflection over Go types. Their control is the
  dispatch on the kind of a Go value; what remains of it without Go's type system, the
  traversal of a tree through the calls of a writer or a reader, is what Copy does with
  containers.
* `type.go`, `consts.go`, `err.go`, `version.go`: names and messages without state.

## Plan

1. `Unmarshal`'s use of a reader: which of `Next`, `StepIn` and `StepOut` it calls on what it does
   not want, and how far it leaves the reader after an error; over `Cursor`, as Copy.
2. Malformed text in `TextStream`: tokens in places where none may stand, to state that the
   reader refuses them and names the place.
3. Proofs: `CopiesInOrder`, from the lemmas of `TextWriterProofs` on what a method adds; the
   reader's nesting (`ContainersNest`) from
   `Bitstream`, whose modules below the encoder are free of RECURSIVE.
