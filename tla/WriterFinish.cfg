\* Without symbols: WriteSymbol loses errors in a way of its own (WriterSticky.cfg).
CONSTANTS
  ByteBits = 8
  WordBits = 30
  Text <- MCText
  NoText = NoText
  SidText <- MCSidText
  Imports <- MCImports
  Table <- MCTable
  Scalars <- MCScalars
  Symbols = {}
  Strings = {}
  Names <- MCNames
  Marks <- MCMarks
  Kinds <- MCKinds
  Faults <- FirstWriteFails
  GoOn = TRUE
  MaxMarks = 1
  MaxDepth = 2
  MaxWrites = 8
  MaxSaid = 5
SPECIFICATION Spec
PROPERTY FinishFlushes
CHECK_DEADLOCK FALSE
