SPECIFICATION FairSpec
CONSTANTS
    s1 = s1
    s2 = s2
    Shards = {s1, s2}
    MaxBlocks = 1
    MaxRounds = 1
    QuietWait = TRUE
CHECK_DEADLOCK FALSE
PROPERTIES
    DestructorReturns
