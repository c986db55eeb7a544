SPECIFICATION FairSpec
CONSTANTS
    c1 = c1
    c2 = c2
    k1 = k1
    k2 = k2
    k3 = k3
    Clients = {c1}
    BgThread = bg
    Owner = owner
    NoThread = nobody
    Keys = {k1, k2}
    Capacities = {1}
    BlockSize = 1
    MaxVersion = 2
    Modes = {TRUE}
    AllocFails = TRUE
    SpuriousWakeups = FALSE
CHECK_DEADLOCK FALSE
PROPERTIES
    CallsReturn
    QueueDrains
    DestructorReturns
