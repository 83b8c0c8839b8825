CONSTANTS
    KPB = 5
    NumPasses = 2
    DevSize = 1
    MaxSize = 1
    UninitRet = {0}
    MaxAddr = 7
    MaxTags = 10
    MaxFaults = 0
    MaxKills = 0
    MaxLosses = 0
    MaxRuns = 2
    MaxReplays = 1
    Val <- Payloads
    Buffers <- OwnPayload
    Alias <- NoAlias
SPECIFICATION ESpec
CHECK_DEADLOCK FALSE
CONSTRAINT FewRepairs
INVARIANT RepairsReplayed
PROPERTY RepairsInTransactions
