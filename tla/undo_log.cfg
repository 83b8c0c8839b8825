CONSTANTS
    NBlocks = 3
    Val = {7}
    KPB = 2
    MaxExtent = 3
    MaxWrites = 3
    MaxOpens = 3
    MaxUndos = 2
    MaxCrashes = 2
SPECIFICATION Spec
CHECK_DEADLOCK FALSE
INVARIANTS TypeOK AcceptedAfterCrash UndoAhead Undone
