CONSTANTS
    NBlocks = 3
    Val = {7}
    KPB = 1
    MaxExtent = 3
    MaxWrites = 2
    MaxOpens = 2
    MaxUndos = 0
    MaxCrashes = 0
SPECIFICATION Spec
CHECK_DEADLOCK FALSE
INVARIANT ExistingContentFirst
