SPECIFICATION Spec
CONSTANTS
    x1 = x1
    x2 = x2
    Idx = {x1, x2}
    NoIdx = NoIdx
    Ways = {1}
    MaxBatches = 4
    MaxQueued = 1
    FlushMidStep = FALSE
SYMMETRY Symmetry
INVARIANTS
    RowsLatest
    PointersHold
    LocksMatchUse
    IndexQueueInStep
    FlushStoresLatest
