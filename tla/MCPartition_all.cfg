SPECIFICATION Spec
CONSTANTS
    N = 3
    Items <- MCItems
    MaxIO = 3
    MaxNet = 1
    MaxRefusals = 1
    MaxCpuNum = 7
    MaskBits = 6
    NumaCpus <- MCNumaCpus
INVARIANTS
    TypeOK AllDealt Proportional OnOwnKind
CHECK_DEADLOCK FALSE
