---------------------------- MODULE MCNetProbe ----------------------------
(***************************************************************************)
(* Three processes: p1 on the host, over a VLAN on a bond of two devices   *)
(* and over one of these; p2 in a container, over a link to a host device; *)
(* p3 on the host, over a pair of devices linked to each other.            *)
(***************************************************************************)
EXTENDS NetProbe, TLC

CONSTANTS scan, user1, user2, main, t2, t3, p1, p2, p3, root, box,
          eth0, eth1, bond, vlan, ceth, mac, veth1, veth2, none

MCProcs == {p1, p2, p3}
MCDevs  == {eth0, eth1, bond, vlan, ceth, mac, veth1, veth2, none}
MCHome  == [p \in MCProcs |-> IF p = p2 THEN box ELSE root]
MCLocal == p1 :> {vlan, eth1} @@ p2 :> {ceth} @@ p3 :> {veth1}
MCLink  == [d \in MCDevs |->
    CASE d = vlan -> bond [] d = ceth -> mac [] d = mac -> eth0
      [] d = veth1 -> veth2 [] d = veth2 -> veth1 [] OTHER -> d]
MCSlaves == [d \in MCDevs |-> IF d = bond THEN {eth0, eth1} ELSE {}]
MCPlace  == [d \in MCDevs |-> IF d = ceth THEN box ELSE root]

\* The interrupts of eth0 are on node 0, those of eth1 on both
MCIrqNodes == [d \in MCDevs |-> CASE d = eth0 -> {0} [] d = eth1 -> {0, 1} [] OTHER -> {}]
MCPciNode  == [d \in MCDevs |-> CASE d = eth0 -> 0 [] d = eth1 -> 1 [] OTHER -> -1]

\* The machine is one that FoundExact is proved for
ASSUME DevicesSeen

=============================================================================
