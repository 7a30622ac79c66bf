SPECIFICATION FairSequentialSpec
CONSTANTS
  N = 4
  Values = {v1, v2, v3}
  NoVal = NoVal
  Leaders = {0, 3}
  Faults = {}
  MaxValue = 4
  MaxSeq = 4
INVARIANT Aligned
INVARIANT CommitHasQuorum
PROPERTY EveryCallReturns
CHECK_DEADLOCK FALSE
