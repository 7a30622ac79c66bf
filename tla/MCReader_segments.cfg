SPECIFICATION FairSpec
CONSTANTS
  Messages <- AllMessages
  MaxMessages = 2
  Wrap = 65536
 
INVARIANT NothingSwallowed
INVARIANT OnlyBrokenRefused
 
CHECK_DEADLOCK FALSE
