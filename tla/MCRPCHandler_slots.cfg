SPECIFICATION FairSpec
CONSTANTS
    OutProtocol = {"Ping"}
    InProtocol = {}
    max_dial_negotiated = 2
    IO_ERROR_RETRIES = 3
    DialError = {"IoError"}
    Farewell = FALSE
    MaxRequests = 1
    MaxInbound = 0
    MaxResponses = 0
PROPERTIES RequestsAnswered
CHECK_DEADLOCK FALSE
