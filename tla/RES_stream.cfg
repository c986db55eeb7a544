SPECIFICATION Spec
CONSTANTS
    Callers = {"uvm", "uvm_sync", "uvm_live", "ssd"}
    MaxIter = 3
    MaxReady = 1
INVARIANT
    PairedUnlessMissed
PROPERTIES
    UpdatesReachRemote
    DestructorReturns
CHECK_DEADLOCK FALSE
