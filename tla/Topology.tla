------------------------------ MODULE Topology ------------------------------
(***************************************************************************)
(* The CPU topology tree of common/topology: chips, NUMA nodes, clusters,  *)
(* cores and CPUs under one root, the bind counter and the load every node *)
(* carries, and the searches the policy makes in it.  The tree is built    *)
(* once by InitTopo and never changes, so it is a constant here; the bind  *)
(* counters and the loads are functions the caller passes in.              *)
(***************************************************************************)
EXTENDS Sums

CONSTANTS
    Node,       \* the nodes of the tree
    NoNode,     \* the nil pointer
    TypeOf,     \* node.topotype
    ParentOf,   \* node.parent; the root's is NoNode
    Weight,     \* node.mask.Weight(): the bits of its mask, online or not
    Rank        \* the order in which a search meets the nodes of a type: the order
                \* of their creation for NUMA nodes, depth first below one

\* TopoType, smallest first; a level's number is one more than its children's
TypeCPU     == 0
TypeCore    == 1
TypeCluster == 2
TypeNUMA    == 3
TypeChip    == 4
TypeAll     == 5

\* What InitTopo builds: every level hangs under the next one, and only the root's
\* mask is empty
TreeShape ==
    /\ IsFiniteSet(Node) /\ NoNode \notin Node
    /\ TypeOf \in [Node -> TypeCPU..TypeAll]
    /\ ParentOf \in [Node -> Node \cup {NoNode}]
    /\ \A n \in Node :
          IF TypeOf[n] = TypeAll
          THEN ParentOf[n] = NoNode
          ELSE ParentOf[n] \in Node /\ TypeOf[ParentOf[n]] = TypeOf[n] + 1
    /\ Weight \in [Node -> Nat]
    /\ \A n \in Node : TypeOf[n] # TypeAll => Weight[n] > 0
    /\ Rank \in [Node -> Nat]
    /\ \A m, n \in Node : Rank[m] = Rank[n] => m = n

ASSUME TopologyAssumption == TreeShape

-----------------------------------------------------------------------------
(* Walking the tree *)

Up(n) == IF n = NoNode THEN NoNode ELSE ParentOf[n]

\* n and its ancestors: there are six levels, so five steps reach the root
Chain == [n \in Node |->
            {n, Up(n), Up(Up(n)), Up(Up(Up(n))), Up(Up(Up(Up(n)))),
             Up(Up(Up(Up(Up(n)))))} \ {NoNode}]

\* The nodes foreachChildCall visits from n, n included
Sub == [n \in Node |-> {m \in Node : n \in Chain[m]}]

Cpu  == {n \in Node : TypeOf[n] = TypeCPU}
Numa == {n \in Node : TypeOf[n] = TypeNUMA}
CpusOf == [n \in Node |-> Sub[n] \cap Cpu]

\* Parent(t): the ancestor of type t, NoNode when there is none
ParentOfType(n, t) ==
    IF \E p \in Chain[n] : TypeOf[p] = t
    THEN CHOOSE p \in Chain[n] : TypeOf[p] = t
    ELSE NoNode

-----------------------------------------------------------------------------
(* The searches.  Each is the set of results: one node, the first met of    *)
(* the lightest, or none, which is the code's nil.                          *)

OfType(n, t) == {m \in Sub[n] : TypeOf[m] = t}

\* The strict order in which a node replaces the best one found so far
FewerBinds(m, k, binds) ==
    \/ binds[m] < binds[k]
    \/ binds[m] = binds[k] /\ Rank[m] < Rank[k]

Lighter(m, k, load, binds) ==
    \/ load[m] < load[k]
    \/ load[m] = load[k] /\ FewerBinds(m, k, binds)

SelectLighterBindNode(n, t, binds) ==
    {m \in OfType(n, t) : \A k \in OfType(n, t) \ {m} : FewerBinds(m, k, binds)}

Lightest(C, load, binds) ==
    {m \in C : \A k \in C \ {m} : Lighter(m, k, load, binds)}

SelectLighterLoadNode(n, t, load, binds) == Lightest(OfType(n, t), load, binds)

\* SelectTypeNode(TopoTypeNUMA)
SelectNumaNode(load, binds) == Lightest(Numa, load, binds)

-----------------------------------------------------------------------------
(* Loads *)

\* Go's integer division truncates towards zero
Quot(a, b) == IF a >= 0 THEN a \div b ELSE -((-a) \div b)

\* mutant: the CPUs under a node are not updated
AddLoadToNodeOnly(n, d, load) ==
    [m \in Node |-> IF m \in Chain[n] THEN load[m] + d ELSE load[m]]

\* AddLoad(d) of node n: a CPU adds d to itself and to all its ancestors, any
\* other node has each of its CPUs add d divided by the bits of n's mask
AddLoad(n, d, load) ==
    LET share == IF TypeOf[n] = TypeCPU THEN d ELSE Quot(d, Weight[n])
    IN [m \in Node |-> load[m] + share * Cardinality(CpusOf[n] \cap CpusOf[m])]

\* SetLoad on every CPU: each adds its change to itself and all its ancestors
SetCpuLoads(measured, load) ==
    LET change == [c \in Cpu |-> measured[c] - load[c]]
    IN [m \in Node |-> load[m] + SumOf(change, CpusOf[m])]

-----------------------------------------------------------------------------
(* What a tree has in which nodes have the CPUs of their masks below them   *)

\* Each CPU below a node has a bit of its own in the node's mask.  So it is where CPU
\* numbers follow the levels (TopologyBuild!Regular), and not where the threads of a core
\* are numbered far apart and hang under the cluster of the first.
MasksCover == \A n \in Node : TypeOf[n] < TypeNUMA => Cardinality(CpusOf[n]) <= Weight[n]

\* Every cluster, core and NUMA node has a CPU below it.  Where the threads of a core are
\* numbered far apart, the clusters of the second threads stay empty.
CpusEverywhere == \A n \in Node : TypeOf[n] <= TypeNUMA => CpusOf[n] # {}

=============================================================================
