SPECIFICATION FairSpec
CONSTANTS
    r1 = r1  r2 = r2  r3 = r3  r4 = r4
    Calls = {r1, r2, r3}
    Requests <- MCAll
    MaxPeriod = 2
    MaxBoots = 2
INVARIANTS
    TypeOK LoopsBounded AckMatchesLoop
PROPERTIES
    StopEndsLoops
CHECK_DEADLOCK FALSE
