SPECIFICATION FairSpec
CONSTANTS
    c1 = c1
    c2 = c2
    k1 = k1
    NoConn = NoConn
    Conn <- MCConn1
    Closer <- MCCloser1
    MaxConnections = 1
    Protocol = "http1"
    HasWakeup = TRUE
    HasObserver = FALSE
    MaxFaults = 1
INVARIANTS ErrorsAreOwned ReleasedMeansClosed
PROPERTIES NoRegistrationAfterFinalization ShutdownCompletes CapacityWaitEnds
CHECK_DEADLOCK FALSE
