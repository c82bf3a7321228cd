SPECIFICATION Spec
CONSTANTS
  FunctionNames <- MCFunctionNames
  Programs <- FloatPrograms
  FunctionPipelines <- MCFunctionPipelines
  MaxPasses = 1
  NoResult = NoResult
  SignBit = 8
  Epsilon = 2
INVARIANT ValidIR
