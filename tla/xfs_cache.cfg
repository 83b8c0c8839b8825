SPECIFICATION FairSpec
CONSTANTS
    t1 = t1  t2 = t2  k1 = k1  k2 = k2
    Thread = {t1, t2}
    Key = {k1, k2}
    Node = {1, 2, 3, 4}
    Bucket = {0}
    Hash <- OneChain
    CACHE_MAX_PRIORITY = 1
    CACHE_PREFETCH_PRIORITY = 1
    CACHE_SHAKE_COUNT = 1
    MaxCount = 1
    MaxOps = 2
    MaxFaults = 1
    None = None
INVARIANTS TypeOK Referenced Bounded NoDirtyReleased PurgeEmpties AssertsHold
PROPERTIES Ends
