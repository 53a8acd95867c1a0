CONSTANTS
  Text <- MCText
  NoText = NoText
  SidText <- MCSidText
  NotBare <- MCNotBare
  Imports <- MCImports
  Options <- MCOptions
  Scalars <- MCScalars
  Symbols <- MCSymbols
  Strings <- MCStrings
  Names <- MCNames
  Marks <- MCMarks
  Kinds <- MCKinds
  Faults <- MCFaults
  GoOn = FALSE
  MaxMarks = 1
  MaxDepth = 2
  MaxWrites = 90
  MaxSaid = 4
SPECIFICATION Spec
INVARIANTS
  TypeOK
  WrittenIsRead
  OutputIsPrefix
  Indented
PROPERTIES
  RemembersErrors
  FinishEndsLine
CHECK_DEADLOCK FALSE
