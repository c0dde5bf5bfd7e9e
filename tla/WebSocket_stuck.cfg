SPECIFICATION FairSpec
CONSTANTS
  MaxInbox = 1
  MaxOutbox = 2
  MaxInput = 2
  MaxOps = 2
PROPERTIES CleanupIsBounded
CHECK_DEADLOCK FALSE
