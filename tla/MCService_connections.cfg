SPECIFICATION Spec
CONSTANTS
    PeerId = {p1, p2}
    MAX_DC_PEERS = 1
    U8 = 2
    PeerAction = {}
    Ttl = {}
    MetaSeq = {}
    Rep = {}
    MAX_CONCURRENT_QUERIES = 1
    Started = TRUE
    BootNodes = {p1}
    MaxAddrs = 2
    Errors = {}
    BanReports = {}
    MaxBans = 0
    target_peers = 2
    MaxEvents = 2
INVARIANTS DatabaseNotAhead NoZombiePings QueriesInStep
PROPERTIES PDBSpec
CHECK_DEADLOCK FALSE
