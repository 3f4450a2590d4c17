SPECIFICATION Spec
CONSTANTS
  c1 = c1
  c2 = c2
  Callers <- MCCallers
  SeqSpace = 4
  QuietTime = 2
  MaxFragments = 2
  MaxCalls = 2
SYMMETRY Symmetry
INVARIANT
  OnlySpcErrors
