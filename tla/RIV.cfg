SPECIFICATION Spec
CONSTANTS
  Functions <- Cfgs
  IntegerValues <- MCIntegerValues
  Inputs <- MCInputs
INVARIANT TypeOK
INVARIANT EntriesAreFinal
INVARIANT EachBlockOnce
INVARIANT ResultIsWhatEveryPathDefines
PROPERTY Termination
