SPECIFICATION Spec
CONSTANTS
    t1 = t1
    t2 = t2
    None = None
    Threads <- MCThreads
    UINT64_MAX = 2
    client_ceiling = 3
    decoder_ceiling = 1
    server_ceiling = 2
    HelloSizes <- MCHelloSizes
    AckSize = 1
    RequestSizes <- MCRequestSizes
    ResultSizes <- MCResultSizes
    ErrorSizes <- MCErrorSizes
    MaxCalls = 3
INVARIANTS
    AnswerIsForTheRequest
    ServerNeverSeesReplay
    ServerAcceptsEveryFrame
PROPERTIES
    CloseReleasesCalls
    CallsReturn
    GoodbyeStops
CHECK_DEADLOCK FALSE
