SPECIFICATION FairSpec
CONSTANTS
  MaxInbox = 1
  MaxOutbox = 2
  MaxInput = 2
  MaxOps = 2
INVARIANTS TypeOK SendMeansFlushed WaitersAreServed NoLostWakeup OneReply
PROPERTIES FailedIsNotAccepted EndsOrWaits
CHECK_DEADLOCK FALSE
