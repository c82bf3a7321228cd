CONSTANTS
  Functions <- MCFunctions
  Inputs <- MCInputs
SPECIFICATION Spec
INVARIANTS
  TypeOK
  SameValues
  EachTargetOnce
  PreservedMeansUntouched
PROPERTY Termination
