SPECIFICATION Spec
CONSTANTS
    w1 = w1
    w2 = w2
    c1 = c1
    c2 = c2
    h1 = h1
    h2 = h2
    None = None
    Workers <- MCWorkers
    Conns <- MCConns
    Handles <- MCHandles
    max_connections = 1
    kMaxConsecutiveAcceptErrors = 2
    MaxRequests = 1
CHECK_DEADLOCK FALSE
INVARIANT HandlesAreAccountedFor
PROPERTIES AdmittedIsServed StopReturns
