SPECIFICATION FairSpec
CONSTANTS
    scan = scan  user1 = user1  user2 = user2  main = main  t2 = t2  t3 = t3
    p1 = p1  p2 = p2  p3 = p3  root = root  box = box
    eth0 = eth0  eth1 = eth1  bond = bond  vlan = vlan  ceth = ceth  mac = mac
    veth1 = veth1  veth2 = veth2  none = none
    Callers = {scan, user1}
    Pinned = {scan}
    Threads = {main, t2, t3}
    Leader = main
    Procs <- MCProcs
    Namespaces = {root, box}
    RootNs = root
    Home <- MCHome
    Local <- MCLocal
    Devs <- MCDevs
    NoName = none
    Link <- MCLink
    Slaves <- MCSlaves
    Place <- MCPlace
    IrqNodes <- MCIrqNodes
    PciNode <- MCPciNode
    MaxProbes = 2
    MaxMoves = 1
    MaxMishaps = 1
INVARIANTS
    TypeOK ProbesExclude LeakNeedsMishap NoStrayThread FoundExact
PROPERTIES
    ProbeEnds
CHECK_DEADLOCK FALSE
