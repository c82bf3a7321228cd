SPECIFICATION Spec
CONSTANTS
  Functions <- Functions0
  IntegerValues <- MCIntegerValues
  Inputs <- MCInputs
  GlobalValues <- MCGlobalValues
  NewBlock <- MCNewBlock
  NewValue <- MCNewValue
  Block <- MCBlock
INVARIANT SameBehaviour
INVARIANT SimpleClonesAreMerged
