SPECIFICATION Spec
CONSTANTS
  Thread = {t, u}
  Function = {f, g}
  Handler = {g}
  Wrap = 3
  MaxCalls = 3
INVARIANT OnlyOverlapsLoseCalls
INVARIANT NeverOvercounts
