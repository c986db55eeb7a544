SPECIFICATION Spec
CONSTANTS
    x1 = x1
    x2 = x2
    Idx = {x1, x2}
    NoIdx = NoIdx
    Ways = {1}
    MaxBatches = 4
    MaxQueued = 1
    MaxFlushes = 1
    MaxSplits = 1
    MaxTimes = 1
    Depth = 1
SYMMETRY Symmetry
INVARIANTS
    RowsLatest
    OneCopyTrained
    LocksMatchUse
PROPERTY
    FlushStoresLatest
CHECK_DEADLOCK FALSE
