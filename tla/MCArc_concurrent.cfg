SPECIFICATION Spec
CONSTANTS
  Threads = {t1, t2}
  Keys = {k1, k2}
  Objs = {o1, o2, o3}
  NoThread = NoThread
  NoObj = NoObj
  Capacity = 2
  BaseSize = 1
  DataSizes = {0, 1}
  Modes = {"strict"}
  NewSizes = {}
  Ops = {"remove", "drop", "update", "load"}
SYMMETRY Symmetry
INVARIANT Accounting
INVARIANT StateIsList
INVARIANT LockedIsUnlisted
INVARIANT MemoryBound
INVARIANT NotFreedEarly
CHECK_DEADLOCK FALSE
