SPECIFICATION Spec
CONSTANTS
    SLOTS = 4
    Client = {"keeps_index"}
    Repeats = FALSE
    MaxPending = 2
    MaxRequests = 3
INVARIANTS AnswersItsRequest
CHECK_DEADLOCK FALSE
