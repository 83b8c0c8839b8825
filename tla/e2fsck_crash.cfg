CONSTANTS
    KPB = 4
    NumPasses = 1
    DevSize = 1
    MaxSize = 1
    UninitRet = {0, 1}
    MaxAddr = 6
    MaxTags = 8
    MaxFaults = 0
    MaxKills = 1
    MaxLosses = 1
    MaxRuns = 2
    MaxReplays = 1
    Val <- Payloads
    Buffers <- OwnPayload
    Alias <- NoAlias
SPECIFICATION ESpec
CHECK_DEADLOCK FALSE
CONSTRAINT FirstRepairs
INVARIANT AllOrNothing
