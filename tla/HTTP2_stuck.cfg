SPECIFICATION FairSpec
CONSTANTS
  s1 = s1
  s2 = s2
  Stream <- MCStream
  HandshakeTimeout = 2
  IdleTimeout = 2
  MaxInput = 3
  MaxOutput = 2
PROPERTY ShutdownIsBounded
CHECK_DEADLOCK FALSE
