SPECIFICATION FairSpec
CONSTANTS
    OutProtocol = {"Ping"}
    InProtocol = {"Status", "Goodbye"}
    max_dial_negotiated = 1
    IO_ERROR_RETRIES = 2
    DialError = {"NegotiationFailed"}
    Farewell = FALSE
    MaxRequests = 2
    MaxInbound = 1
    MaxResponses = 2
INVARIANTS RespondsAtMostOnce
PROPERTIES RequestsAnswered IdleEnds
CHECK_DEADLOCK FALSE
