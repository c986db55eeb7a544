SPECIFICATION Spec
CONSTANTS
    r1 = r1
    r2 = r2
    Ranks = {r1, r2}
    Blocks = {0, 1}
    Warps = {0}
    Ops = {"one_shot", "small_one_shot", "two_shot"}
    MaxCalls = 2
INVARIANTS
    SumsComplete
    SummedBeforeNextCall
PROPERTY CallsReturn
CHECK_DEADLOCK FALSE
