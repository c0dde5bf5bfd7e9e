SPECIFICATION FairSpec
CONSTANTS
  MaxInbox = 1
  MaxOutbox = 2
  MaxInput = 2
  MaxOps = 2
PROPERTIES QueuedAreDelivered
CHECK_DEADLOCK FALSE
