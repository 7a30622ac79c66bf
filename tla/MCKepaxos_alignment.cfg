SPECIFICATION Spec
CONSTANTS
  N = 3
  Values = {v1, v2}
  NoVal = NoVal
  Leaders = {0, 1}
  Faults = {}
  MaxValue = 2
  MaxSeq = 2
SYMMETRY Symmetry
INVARIANT Aligned
CHECK_DEADLOCK FALSE
