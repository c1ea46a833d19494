SPECIFICATION FairSpec
CONSTANTS
    Tids = {t1, t2}
    Leader = t1
PROPERTY EndsAfterTimeout
CHECK_DEADLOCK FALSE
