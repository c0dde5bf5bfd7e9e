SPECIFICATION Spec
CONSTANTS
  NStreams = 3
  MaxStreams = 2
  MaxBody = 2
  MaxBuffer = 2
  MaxResponse = 2
  MaxOutput = 3
  MaxControl = 1
  FrameSize = 1
INVARIANTS
  TypeOK
  BudgetsAreExact
  SlotsMatch
  OneResponse
  HandlersAreLive
  FlushIsItsLoops
CHECK_DEADLOCK FALSE
