CONSTANTS
  Text <- MCText
  NoText = NoText
  SidText <- MCSidText
  NotBare = {}
  Trees <- MCTrees
  Inputs <- NullInputs
  Outputs <- MCOutputs
SPECIFICATION Spec
INVARIANTS
  WholeIsCopied
CHECK_DEADLOCK FALSE
