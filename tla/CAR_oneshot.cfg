SPECIFICATION Spec
CONSTANTS
    r1 = r1
    r2 = r2
    Ranks = {r1, r2}
    Blocks = {0, 1}
    Warps = {0, 1}
    Ops = {"one_shot"}
    MaxCalls = 1
INVARIANTS
    AllReduced
CHECK_DEADLOCK FALSE
