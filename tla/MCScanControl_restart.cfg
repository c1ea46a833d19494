SPECIFICATION FairSpec
CONSTANTS
    r1 = r1  r2 = r2  r3 = r3  r4 = r4
    Calls = {r1, r2, r3}
    Requests <- MCRestart
    MaxPeriod = 2
    MaxBoots = 1
PROPERTIES
    ScanRestarts
CHECK_DEADLOCK FALSE
