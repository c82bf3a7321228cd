SPECIFICATION Spec
CONSTANTS
  FunctionNames <- MCFunctionNames
  Programs <- MCPrograms
  FunctionPipelines <- MCFunctionPipelines
  MaxPasses = 3
  NoResult = NoResult
  SignBit = 8
  Epsilon = 2
INVARIANTS
  TypeOK
  CachedResultsAreCurrent
  CountsAreRight
  CallersAreExact
  ValidIR
  EveryReturnIsLogged
  ReportedAsCounted
  ProgramIsKept
  ComparisonsAgree
