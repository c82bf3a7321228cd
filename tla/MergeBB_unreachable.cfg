SPECIFICATION Spec
CONSTANTS
  Block <- MCBlock
  Functions <- AnyCfgWithUnreachable
PROPERTY SomeTargetUpdated
