\* A word of 30 bits: TLC's integers have 32.
CONSTANTS
  ByteBits = 8
  WordBits = 30
  Text <- MCText
  NoText = NoText
  SidText <- MCSidText
  Spelling <- MCSpelling
  Streams <- MCStreams
  Catalog <- MCCatalog
  Cuts <- MCCuts
  MaxSteps = 9
  GoOn = FALSE
  MaxResets = 2
SPECIFICATION Spec
INVARIANTS
  TypeOK
  ContainersNest
  ErrorsNameTheDamage
PROPERTIES
  ReadsStream
CHECK_DEADLOCK FALSE
