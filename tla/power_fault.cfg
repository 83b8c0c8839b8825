SPECIFICATION FairSpec
CONSTANTS
    w1 = w1
    w2 = w2
    Workers <- MCWorkers
    DiskSize = 3
    BS = 2
    Requests <- MCRequests
    MaxCmds = 2
    Starts = {0, 2}
    Ends = {1, 3, 9}
    MaxFaults = 1
INVARIANTS
    TypeOK
    RecordsTheOrder
    ReplayedRange
PROPERTY
    Served
CHECK_DEADLOCK FALSE
