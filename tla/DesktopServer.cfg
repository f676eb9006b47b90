SPECIFICATION Spec
CONSTANTS
    Threads = {t1, t2}
    MAX_RESULTS = 2
    IdleExit = TRUE
    MaxBatches = 2
    MaxFiles = 3
    MaxLocks = 1
    None = None
INVARIANTS AckedIsProcessed ResultsBounded NewestKept LockedIsEmpty
PROPERTIES IdleServerStops
CHECK_DEADLOCK FALSE
