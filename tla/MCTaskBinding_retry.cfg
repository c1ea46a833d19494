SPECIFICATION Spec
CONSTANTS
    t1 = t1  t2 = t2  g1 = g1
    root = root  chip = chip  n0 = n0  n1 = n1  k0 = k0  k1 = k1  k2 = k2
    c0 = c0  c1 = c1  c2 = c2  p0 = p0  p1 = p1  p2 = p2
    NoNode = NoNode  NoName = NoName  Stale = Stale  AutoName = AutoName
    Node <- MCNode  TypeOf <- MCType  ParentOf <- MCParent  Weight <- MCWeight  Rank <- MCRank
    Tids <- MCTids
    SchedNames = {g1}
    Members <- MCMembers
    Detections <- MCDetections
    Measurements <- MCMeasurements
    Confs <- MCNoNetConfs
    NetNumas <- MCNone
    Refusals = TRUE
    ReuseTids = {}
    MaxEvents = 3
INVARIANTS
    NoPanic
CHECK_DEADLOCK FALSE
