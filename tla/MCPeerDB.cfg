SPECIFICATION PDBSpec
CONSTANTS
    PeerId = {p1, p2, p3}
    MAX_DC_PEERS = 2
    U8 = 2
    PeerAction = {"Fatal"}
    Ttl = {1, 2}
    MetaSeq = {1}
    Rep = {250}
SYMMETRY Symmetry
INVARIANTS  DisconnectedConsistency DisconnectedBounded
PROPERTIES ForgetsOnlyTheWorst BanSurvivesDisconnect MinTtlNeverShrinks
CHECK_DEADLOCK FALSE
