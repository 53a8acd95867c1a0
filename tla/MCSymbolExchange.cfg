\* Two symbols per table and ids up to 14 leave room for the system table, two
\* imports and an append after either.
CONSTANTS
  Text <- MCText
  NoText = NoText
  SidText <- MCSidText
  Registry <- MCRegistry
  Imports <- MCImports
  ForeignSymbols <- MCForeignSymbols
  ForeignImports <- MCForeignImports
  NewTexts <- MCNewTexts
  MaxNew = 2
  MaxImports = 4
  MaxMeaning = 15
SPECIFICATION Spec
INVARIANTS
  Agreement
  HandedOutOnce
  NamesFindLeastID
PROPERTIES
  OwnTablesAccepted
