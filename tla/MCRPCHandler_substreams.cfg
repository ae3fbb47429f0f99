SPECIFICATION Spec
CONSTANTS
    OutProtocol = {"Ping"}
    InProtocol = {"Status", "Goodbye"}
    max_dial_negotiated = 2
    IO_ERROR_RETRIES = 2
    DialError = {"IoError", "NegotiationFailed"}
    Farewell = TRUE
    MaxRequests = 2
    MaxInbound = 1
    MaxResponses = 2
INVARIANTS HandlerTypeOK NoRequestLost OnePlace OutboundBooks DialsAccounted InboundBooks KeepAliveSafe
PROPERTIES OnlyFarewellDialled 
CHECK_DEADLOCK FALSE
