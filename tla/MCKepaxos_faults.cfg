SPECIFICATION Spec
CONSTANTS
  N = 2
  Values = {v1, v2}
  NoVal = NoVal
  Leaders = {0, 1}
  Faults = {"crash", "lose", "expire", "fail"}
  MaxValue = 2
  MaxSeq = 2
SYMMETRY Symmetry
INVARIANT TypeOK
INVARIANT CommitsUnderOwnBallot
CHECK_DEADLOCK FALSE
