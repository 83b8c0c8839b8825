CONSTANTS
    KPB = 4
    DevSize = 3
    MaxSize = 1
    UninitRet = {0, 1}
    MaxAddr = 6
    MaxTags = 5
    MaxFaults = 1
    MaxKills = 1
    MaxLosses = 1
    MaxRuns = 2
    MaxReplays = 2
    MaxUpdates = 2
    Journal = 2
    Val <- Blocks
    Buffers <- AnyBlock
    Alias <- NoAlias
SPECIFICATION XSpec
CHECK_DEADLOCK FALSE
CONSTRAINT OneTrouble
ACTION_CONSTRAINT WriteBackMatters
INVARIANTS XTypeOK NothingDropped RunReplayed RunIsOneUnit
