SPECIFICATION FairSpec
CONSTANTS
  MaxReqs = 3
  MaxData = 1
  LookAhead = 1
  Kinds = {"status", "hit", "get", "command", "cas", "casfwd", "multi", "mute", "bad"}
  PeerFails = TRUE
  Slow = FALSE
INVARIANT InOrder
INVARIANT NothingLost
INVARIANT ExistsUntilDone
PROPERTY EveryRequestAnswered
PROPERTY ContextFreed
CHECK_DEADLOCK FALSE
