SPECIFICATION FairSpec
CONSTANTS
    PeerId = {p1}
    MAX_DC_PEERS = 1
    U8 = 2
    PeerAction = {"Fatal"}
    Ttl = {}
    MetaSeq = {}
    Rep = {}
    MAX_CONCURRENT_QUERIES = 1
    Started = TRUE
    BootNodes = {p1}
    MaxAddrs = 2
    Errors = {"InvalidData"}
    BanReports = {TRUE, FALSE}
    MaxBans = 2
    target_peers = 1
    MaxEvents = 2
INVARIANTS ServiceTypeOK
PROPERTIES DialingEnds PeersSought BansEnd
CHECK_DEADLOCK FALSE
