SPECIFICATION FairSpec
CONSTANTS
  Getters = {g1, g2}
  Objs = {o1, o2}
  NoObj = NoObj
  MaxData = 2
  MaxTries = 1
  Faults = {"refused", "gone", "remove", "broken", "storage"}
INVARIANT RefsBalanced
INVARIANT WholeValue
INVARIANT OneFinal
INVARIANT ListenersServed
PROPERTY AnsweredUnlessError
CHECK_DEADLOCK FALSE
