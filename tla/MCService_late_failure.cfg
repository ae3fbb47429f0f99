SPECIFICATION Spec
CONSTANTS
    PeerId = {p1}
    MAX_DC_PEERS = 1
    U8 = 2
    PeerAction = {}
    Ttl = {}
    MetaSeq = {}
    Rep = {}
    MAX_CONCURRENT_QUERIES = 1
    Started = TRUE
    BootNodes = {}
    MaxAddrs = 1
    Errors = {}
    BanReports = {}
    MaxBans = 0
    target_peers = 1
    MaxEvents = 1
INVARIANTS DisconnectedIsDisconnected
CHECK_DEADLOCK FALSE
