SPECIFICATION HTTP1Spec
CONSTANTS
  G = G
  P = P
  a = a
  b = b
  d = d
  l = l
  p1 = p1
  p2 = p2
  p3 = p3
  c1 = c1
  c2 = c2
  Method = {G, P}
  Path = {a, b, d, l}
  Pattern = {p1, p2, p3}
  Matched <- MCMatched
  LongPaths = {l}
  MaxRoutes = 2
  MaxLog = 3
  Slot = {c1, c2}
  MaxServed = 2
  Wire <- MCWire
  Served <- MCServed
  ClientFrame <- MCFrame
  MaxHeader = 3
  MaxBody = 2
  Chunk = 8
  MaxWebSockets = 1
  MaxEvents = 1
  MaxOffers = 2
INVARIANTS
  HTTP1TypeOK
  AnswersMatchRequest
  OneEventPerTimeout
  RoutesAreSound
  FramesSurviveUpgrade
PROPERTIES
  AcceptedIsHandled
CHECK_DEADLOCK FALSE
