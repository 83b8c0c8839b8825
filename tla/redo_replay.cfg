CONSTANTS
    KPB = 2
    DevSize = 2
    MaxSize = 2
    UninitRet = {0}
    MaxAddr = 12
    MaxTags = 6
    MaxFaults = 0
    MaxKills = 2
    MaxLosses = 0
    MaxRuns = 3
    MaxReplays = 1
    Val <- Payloads
    Buffers <- OwnPayload
    Alias <- NoAlias
SPECIFICATION Spec
CHECK_DEADLOCK FALSE
INVARIANTS ReplayFaithful RecoveryFaithful
CONSTRAINT OneLog
