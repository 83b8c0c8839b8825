CONSTANTS
    KPB = 6
    DevSize = 3
    MaxSize = 1
    UninitRet = {0}
    MaxAddr = 9
    MaxTags = 6
    MaxFaults = 0
    MaxKills = 0
    MaxLosses = 0
    MaxRuns = 1
    MaxReplays = 2
    MaxUpdates = 3
    Journal = 2
    Val <- Blocks
    Buffers <- AnyBlock
    Alias <- NoAlias
SPECIFICATION XSpec
CHECK_DEADLOCK FALSE
INVARIANT EntireRun
