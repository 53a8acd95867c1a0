CONSTANTS
  Text <- MCText
  NoText = NoText
  SidText <- MCSidText
  Words <- MCWords
  Runes <- MCRunes
  Streams <- MCStreams
  Catalog <- MCCatalog
SPECIFICATION Spec
INVARIANTS
  NothingElseUnfinished
  FailureIsNotTheEnd
  SkipAgreesWithRead
PROPERTIES
  ReadsStream
