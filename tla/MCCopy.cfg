CONSTANTS
  Text <- MCText
  NoText = NoText
  SidText <- MCSidText
  NotBare = {}
  Trees <- MCTrees
  Inputs <- MCInputs
  Outputs <- MCOutputs
SPECIFICATION Spec
INVARIANTS
  CopiesInOrder
  LossIsReported
  ReportedOnce
  ReportsAreTrue
PROPERTIES
  Completes
CHECK_DEADLOCK FALSE
