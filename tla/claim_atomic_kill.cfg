CONSTANTS
    KPB = 6
    DevSize = 2
    MaxSize = 1
    UninitRet = {0}
    MaxAddr = 6
    MaxTags = 6
    MaxFaults = 0
    MaxKills = 1
    MaxLosses = 0
    MaxRuns = 2
    MaxReplays = 1
    Val <- Payloads
    Buffers <- OwnPayload
    Alias <- NoAlias
SPECIFICATION Spec
CHECK_DEADLOCK FALSE
INVARIANT AtomicUnit
CONSTRAINT OneLog
