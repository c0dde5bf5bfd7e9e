SPECIFICATION FairSpec
CONSTANTS
    c1 = c1
    c2 = c2
    k1 = k1
    NoConn = NoConn
    Conn <- MCConn2
    Closer <- MCCloser0
    MaxConnections = 1
    Protocol = "http2"
    HasWakeup = FALSE
    HasObserver = TRUE
    MaxFaults = 2
INVARIANTS TypeOK OwnedOnce NoStreamLeak CapacityBound
PROPERTY ShutdownCompletes
CHECK_DEADLOCK FALSE
