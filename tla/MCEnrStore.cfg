SPECIFICATION FairSpec
CONSTANTS
    Address = {"a1", "a2"}
    Port = {1, 2}
    Fork = {0}
    SEQ_MAX = 4
    DiskFails = TRUE
    MaxStarts = 3
    MaxUpdates = 2
INVARIANTS EnrStoreTypeOK  OneIdentity 
PROPERTIES UpdatesReachDisk
CHECK_DEADLOCK FALSE
