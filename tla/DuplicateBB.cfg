SPECIFICATION Spec
CONSTANTS
  Functions <- Functions0
  IntegerValues <- MCIntegerValues
  Inputs <- MCInputs
  GlobalValues <- MCGlobalValues
  NewBlock <- MCNewBlock
  NewValue <- MCNewValue
INVARIANT TypeOK
INVARIANT ContextIsAvailable
INVARIANT ValidIR
INVARIANT SameBehaviour
