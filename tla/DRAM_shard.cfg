SPECIFICATION Spec
CONSTANTS
    k1 = k1
    k2 = k2
    t1 = t1
    t2 = t2
    Keys = {k1, k2}
    NoKey = NoKey
    Setters = {t1, t2}
    MaxBlocks = 3
    BlocksPerChunk = 1
    MaxSets = 2
    MaxStamp = 1
SYMMETRY Symmetry
INVARIANTS
    MapSound
    NothingLeaks
    
    RowsSettle
PROPERTY FreshRowsSurvive
