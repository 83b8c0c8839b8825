CONSTANTS
    KPB = 2
    DevSize = 1
    MaxSize = 1
    UninitRet = {0, 1}
    MaxAddr = 6
    MaxTags = 4
    MaxFaults = 1
    MaxKills = 1
    MaxLosses = 1
    MaxRuns = 2
    MaxReplays = 1
    Val <- Payloads
    Buffers <- OwnPayload
    Alias <- NoAlias
SPECIFICATION FairSpec
CHECK_DEADLOCK FALSE
INVARIANTS TypeOK UntouchedUntilFinished FinishedMeansFlushed
PROPERTIES WriteAhead ReplayEnds
CONSTRAINT OneLogOrMisuse
