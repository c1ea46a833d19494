SPECIFICATION Spec
CONSTANTS
    CpuCount = 5
    ClusterSize = 2
    MaskBits = 4
    Chips <- MCChips
    Numas <- MCNumas
    Cores <- MCCores
    Starts <- MCStarts
    Fixed <- MCFixed
    MaxPlugs = 1
INVARIANTS
    TypeOK MeetsAssumption RegularExact
CHECK_DEADLOCK FALSE
