SPECIFICATION Spec
CONSTANTS
  Threads = {t1, t2}
  NPeers = 2
  Readers = {0, 1}
  MaxCalls = 2
  Storages = {"none", "full"}
  Ops = {"set", "add", "increment", "delete"}
  DeleteAlone = TRUE
  Faults = {"unreachable"}
SYMMETRY Symmetry
INVARIANT TimerCovers
INVARIANT StaleIsPending
CHECK_DEADLOCK FALSE
