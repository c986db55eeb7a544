SPECIFICATION Spec
CONSTANTS
    c1 = c1
    c2 = c2
    k1 = k1
    k2 = k2
    k3 = k3
    Clients = {c1, c2}
    BgThread = bg
    Owner = owner
    NoThread = nobody
    Keys = {k1, k2}
    Capacities = {0, 1, 2}
    BlockSize = 1
    MaxVersion = 2
    Modes = {TRUE, FALSE}
    AllocFails = FALSE
    SpuriousWakeups = TRUE
SYMMETRY Symmetric
CHECK_DEADLOCK FALSE
INVARIANTS
    TypeOK
    L2Exclusive
    NoRowLost
    GetReadsLatest
    FlushComplete
PROPERTIES
    StorageNeverRegresses
    ImplementsKVStore
