SPECIFICATION Spec
CONSTANTS
  Functions <- Invokes
  IntegerValues <- MCIntegerValues
  Inputs <- MCInputs
  GlobalValues <- MCGlobalValues
  NewBlock <- MCNewBlock
  NewValue <- MCNewValue
INVARIANT ContextIsAvailable
