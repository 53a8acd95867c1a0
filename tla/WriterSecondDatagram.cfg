\* The instance of MCBinaryWriter.cfg, for SymbolsDefined alone.
CONSTANTS
  ByteBits = 8
  WordBits = 30
  Text <- MCText
  NoText = NoText
  SidText <- MCSidText
  Imports <- MCImports
  Table <- MCTable
  Scalars <- MCScalars
  Symbols <- MCSymbols
  Strings <- MCStrings
  Names <- MCNames
  Marks <- MCMarks
  Kinds <- MCKinds
  Faults <- MCFaults
  GoOn = TRUE
  MaxMarks = 1
  MaxDepth = 2
  MaxWrites = 8
  MaxSaid = 5
SPECIFICATION Spec
INVARIANT SymbolsDefined
CHECK_DEADLOCK FALSE
