SPECIFICATION FairSpec
CONSTANTS
    max_packet_size = 5
    BLOCK = 2
    RADIX = 2
    Protos = {"Status", "Goodbye", "MetaData"}
    Coded = {"Success", "InvalidRequest", "Unknown"}
    MaxLen = 6
INVARIANTS StreamTypeOK
PROPERTIES  CallEnds
CHECK_DEADLOCK FALSE
