SPECIFICATION FairSpec
CONSTANTS
    c1 = c1
    c2 = c2
    k1 = k1
    k2 = k2
    k3 = k3
    Clients = {c1, c2}
    BgThread = bg
    Owner = owner
    NoThread = nobody
    Keys = {k1, k2}
    Capacities = {1}
    BlockSize = 1
    MaxVersion = 1
    Modes = {TRUE}
    AllocFails = FALSE
    SpuriousWakeups = FALSE
CHECK_DEADLOCK FALSE
PROPERTIES
    QueueDrains
