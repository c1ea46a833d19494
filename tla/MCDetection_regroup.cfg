SPECIFICATION Spec
CONSTANTS
    a = a  b = b  c = c  d = d  f = f  g = g
    Tids = {a, b, c, d}
    Futexes = {f, g}
    Traces <- MCTraces
    Pids = {p, q}
    NoPid = NoPid
    NoTid = NoTid
    MaxPending = 2
INVARIANT
    RegroupNoticed
CHECK_DEADLOCK FALSE
