SPECIFICATION BehaviourFairSpec
CONSTANTS
    PeerId = {p1, p2}
    Protocol = {"Ping", "Goodbye", "Status"}
    SLOTS = 2
    Client = {"rpc_response", "keeps_index"}
    Repeats = TRUE
    MaxPending = 3
    MaxRequests = 2
    MaxConns = 2
    MaxInputs = 1
INVARIANTS RequestsTypeOK AnsweredAtMostOnce ResponsesMatch
PROPERTIES PeersServed
CHECK_DEADLOCK FALSE
