SPECIFICATION Spec
CONSTANTS
  Block <- MCBlock
  Functions <- PhiSiblings
INVARIANT ValidIR
