SPECIFICATION FairSpec
CONSTANTS
  k1 = k1
  k2 = k2
  r1 = r1
  r2 = r2
  NoCall = NoCall
  Call <- MCCall
  Retrier <- MCRetrier
  HasWakeup = TRUE
  MaxFaults = 3
INVARIANTS
  TypeOK
  HeldWhileOwned
  NothingOrphaned
PROPERTIES
  OwnerSpec
  FailedStartIsReleased
CHECK_DEADLOCK FALSE
