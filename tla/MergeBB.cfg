SPECIFICATION Spec
CONSTANTS
  Block <- MCBlock
  Functions <- Functions0
INVARIANT TypeOK
INVARIANT EdgesFollowRep
INVARIANT MergedBlocksAreEqual
INVARIANT PreservedMeansUntouched
INVARIANT ValidIR
INVARIANT NothingPoisoned
INVARIANT SameBehaviour
