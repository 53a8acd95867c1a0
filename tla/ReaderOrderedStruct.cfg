\* One whole stream, for WholeIsRead alone.
CONSTANTS
  ByteBits = 8
  WordBits = 30
  Text <- MCText
  NoText = NoText
  SidText <- MCSidText
  Spelling <- MCSpelling
  Streams <- OrderedStruct
  Catalog <- MCCatalog
  Cuts <- WholeOnly
  MaxSteps = 9
  GoOn = FALSE
  MaxResets = 2
SPECIFICATION Spec
INVARIANT WholeIsRead
CHECK_DEADLOCK FALSE
