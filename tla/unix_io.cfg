SPECIFICATION Spec
CONSTANTS
    NBlocks = 3
    CACHE_SIZE = 2
    WRITE_DIRECT_SIZE = 2
    MaxWrites = 2
    MaxFaults = 1
INVARIANTS TypeOK OneCopy LossReported FlushHonest DeviceUntouched
PROPERTIES InOrder AbsSpec
CHECK_DEADLOCK FALSE
