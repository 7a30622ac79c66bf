SPECIFICATION FairSpec
CONSTANTS
  Threads = {t1}
  Keys = {k1, k2, k3}
  Objs = {o1, o2, o3}
  NoThread = NoThread
  NoObj = NoObj
  Capacity = 3
  BaseSize = 1
  DataSizes = {0, 1}
  Modes = {"strict", "loose"}
  NewSizes = {1}
  Ops = {"remove", "drop", "update", "clear"}
INVARIANT NoLeak
INVARIANT HashedIsListed
PROPERTY BalanceEnds
CHECK_DEADLOCK FALSE
