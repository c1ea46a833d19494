SPECIFICATION FairSpec
CONSTANTS
    Tids = {t1, t2}
    Leader = t1
INVARIANTS
    TypeOK
    Released
    WaitsForEvent
    PhaseKept
PROPERTY TracingEnds
CHECK_DEADLOCK FALSE
