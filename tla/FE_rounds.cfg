SPECIFICATION FairSpec
CONSTANTS
    s1 = s1
    s2 = s2
    Shards = {s1, s2}
    MaxBlocks = 2
    MaxRounds = 2
    QuietWait = TRUE
CHECK_DEADLOCK FALSE
INVARIANTS
    SanityChecks
    RoundCoversSnapshot
    PauseStopsScan
    WaitMeansIdle
PROPERTIES
    ResumedRoundFinishes
    WaitReturns
