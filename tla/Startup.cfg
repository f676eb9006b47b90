SPECIFICATION FairSpec
CONSTANTS
    Workers = {w1, w2}
    Requests = {r1, r2}
    Plain = {r2}
    Packs = 2
    None = None
INVARIANTS CleanStartUp OneKeyPerWorker
PROPERTIES EveryoneProceeds
CHECK_DEADLOCK FALSE
