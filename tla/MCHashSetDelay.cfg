SPECIFICATION Spec
CONSTANTS
    K = {k1, k2, k3}
    Slot = {s1, s2, s3}
    Timeout = {0, 1, 2}
    Horizon = 3
SYMMETRY Symmetry
INVARIANTS OneTimerEach
 
CHECK_DEADLOCK FALSE
