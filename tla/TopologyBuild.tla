--------------------------- MODULE TopologyBuild ---------------------------
(***************************************************************************)
(* InitTopo of common/topology: the tree is built from what sysfs shows of   *)
(* one CPU after the other, while CPUs may go on- and offline.  A node is     *)
(* known by its mask: a CPU whose mask of a level is equal to one read before *)
(* goes under that node, wherever it hangs; any other mask makes a new node   *)
(* under the CPU's node of the level above.                                   *)
(***************************************************************************)
EXTENDS Integers, Sequences, FiniteSets

CONSTANTS CpuCount,     \* the CPUs the machine has: 0..CpuCount-1
          ClusterSize,  \* coresPerCluster
          MaskBits,     \* the bits of a Cpumask
          Chips, Numas, Cores,  \* the numberings tried: functions from CPUs to ids
          Starts,       \* the sets of CPUs that may be online at the start
          Fixed,        \* the sets of CPUs that may have no file "online"
          MaxPlugs      \* bound on CPUs that go on- or offline meanwhile

AllCpus == 0..(CpuCount - 1)

ASSUME BuildAssumption ==
    /\ CpuCount \in Nat /\ ClusterSize \in Nat \ {0} /\ MaskBits \in Nat /\ MaxPlugs \in Nat
    /\ Chips \cup Numas \cup Cores \subseteq [AllCpus -> AllCpus]
    /\ Starts \cup Fixed \subseteq SUBSET AllCpus

VARIABLES
    chip, numa, core,   \* the machine: CPU -> physical_package_id, node, core
    fixed,      \* the CPUs without a file "online"
    online,     \* the CPUs that are online
    cpuNum,     \* utils.CPUNum: the processors /proc/cpuinfo listed at the start
    nodes,      \* the tree, in the order of creation; 0 is the root
    numaMap,    \* tree.numaMap: id -> node, 0 when there is none
    cpu,        \* the loop variable
    level,      \* the level the CPU has reached, TypeAll before the first
    cur,        \* its node of the level above
    pc,
    plugs       \* the CPUs that went on- or offline since the start

machine == <<chip, numa, core, fixed>>
tree == <<nodes, numaMap>>
vars == <<machine, online, cpuNum, tree, cpu, level, cur, pc, plugs>>

Kind == [n \in 0..Len(nodes) |-> IF n = 0 THEN 5 ELSE nodes[n].type]
MaskOf(n) == IF n = 0 THEN {} ELSE nodes[n].mask

(* The tree as the searches of Topology see it.                             *)
T == INSTANCE Topology WITH
    Node <- 0..Len(nodes), NoNode <- -1, TypeOf <- Kind,
    ParentOf <- [n \in 0..Len(nodes) |-> IF n = 0 THEN -1 ELSE nodes[n].parent],
    Weight <- [n \in 0..Len(nodes) |-> Cardinality(MaskOf(n))],
    Rank <- [n \in 0..Len(nodes) |-> n]

Levels == 0..4

TypeOK ==
    /\ online \subseteq AllCpus
    /\ \A n \in DOMAIN nodes : nodes[n] \in [type : Levels, id : AllCpus, parent : 0..(n - 1),
                                             mask : SUBSET (0..(MaskBits - 1))]
    /\ numaMap \in [AllCpus -> 0..Len(nodes)]
    /\ cpu \in 0..cpuNum /\ level \in 0..5 /\ cur \in 0..Len(nodes)
    /\ pc \in {"run", "built", "failed"} /\ plugs \in 0..MaxPlugs

Init ==
    /\ chip \in Chips /\ numa \in Numas /\ core \in Cores /\ fixed \in Fixed
    /\ online \in {s \cup fixed : s \in Starts}
    /\ cpuNum = Cardinality(online)
    /\ nodes = <<>>
    /\ numaMap = [i \in AllCpus |-> 0]
    /\ cpu = 0 /\ level = T!TypeAll /\ cur = 0
    /\ pc = "run" /\ plugs = 0

-----------------------------------------------------------------------------
(* What is read of a CPU.                                                   *)

(* mutant: no CPU is cut off, as if a mask had room for all of them         *)
NoMaskLimit(S) == S

InMask(S) == S \cap (0..(MaskBits - 1))

Alike(f, c) == {d \in online : f[d] = f[c]}

(* mutant: the block begins at the CPU itself                               *)
ClusterFrom(c) == c..(c + ClusterSize - 1)

ClusterBlock(c) == LET first == c - (c % ClusterSize) IN first..(first + ClusterSize - 1)

Mask(t, c) ==
    InMask(CASE t = T!TypeChip -> Alike(chip, c)
             [] t = T!TypeNUMA -> Alike(numa, c)
             [] t = T!TypeCluster -> ClusterBlock(c)
             [] t = T!TypeCore -> Alike(core, c)
             [] t = T!TypeCPU -> {c})

Id(t, c) ==
    CASE t = T!TypeChip -> chip[c]
      [] t = T!TypeNUMA -> numa[c]
      [] t = T!TypeCluster -> c \div ClusterSize
      [] t = T!TypeCore -> core[c]
      [] t = T!TypeCPU -> c

(* sysfs has nothing on a CPU that is offline; the block and the CPU itself  *)
(* are not read from there.                                                 *)
Readable(t, c) == c \in online \/ t \in {T!TypeCluster, T!TypeCPU}

(* findTypeTopoNode: the first node of the type with this mask.  A CPU's     *)
(* node is always a new one.                                                *)
Known(t, c) == {n \in DOMAIN nodes : t # T!TypeCPU /\ nodes[n].type = t
                                     /\ nodes[n].mask = Mask(t, c)}
First(S) == CHOOSE n \in S : \A m \in S : n <= m

-----------------------------------------------------------------------------

SkipCpu ==
    /\ pc = "run" /\ level = T!TypeAll /\ cpu < cpuNum
    /\ cpu \notin online \ fixed
    /\ cpu' = cpu + 1
    /\ UNCHANGED <<machine, online, cpuNum, tree, level, cur, pc, plugs>>

TakeCpu ==
    /\ pc = "run" /\ level = T!TypeAll /\ cpu < cpuNum
    /\ cpu \in online \ fixed
    /\ level' = T!TypeChip /\ cur' = 0
    /\ UNCHANGED <<machine, online, cpuNum, tree, cpu, pc, plugs>>

(* mutant: the loop over the CPUs goes on below the node of the last one    *)
DescendKeepsNode(n) ==
    IF level = T!TypeCPU
    THEN cpu' = cpu + 1 /\ level' = T!TypeAll /\ cur' = 0
    ELSE level' = level - 1 /\ cur' = cur /\ UNCHANGED cpu

(* After the last level the loop goes on to the next CPU.                   *)
Descend(n) ==
    IF level = T!TypeCPU
    THEN cpu' = cpu + 1 /\ level' = T!TypeAll /\ cur' = 0
    ELSE level' = level - 1 /\ cur' = n /\ UNCHANGED cpu

OldNode ==
    /\ pc = "run" /\ level \in Levels /\ Readable(level, cpu)
    /\ Known(level, cpu) # {}
    /\ Descend(First(Known(level, cpu)))
    /\ UNCHANGED <<machine, online, cpuNum, tree, pc, plugs>>

NewNode ==
    /\ pc = "run" /\ level \in Levels /\ Readable(level, cpu)
    /\ Known(level, cpu) = {}
    /\ nodes' = Append(nodes, [type |-> level, id |-> Id(level, cpu), parent |-> cur,
                               mask |-> Mask(level, cpu)])
    /\ numaMap' = IF level = T!TypeNUMA
                  THEN [numaMap EXCEPT ![numa[cpu]] = Len(nodes) + 1] ELSE numaMap
    /\ Descend(Len(nodes) + 1)
    /\ UNCHANGED <<machine, online, cpuNum, pc, plugs>>

(* The CPU went offline after the look at "online": InitTopo gives up.       *)
ReadFails ==
    /\ pc = "run" /\ level \in Levels /\ ~Readable(level, cpu)
    /\ pc' = "failed"
    /\ UNCHANGED <<machine, online, cpuNum, tree, cpu, level, cur, plugs>>

Built ==
    /\ pc = "run" /\ level = T!TypeAll /\ cpu = cpuNum
    /\ pc' = "built"
    /\ UNCHANGED <<machine, online, cpuNum, tree, cpu, level, cur, plugs>>

Plug(c) ==
    /\ pc = "run" /\ plugs < MaxPlugs /\ c \notin fixed
    /\ online' = (online \ {c}) \cup ({c} \ online)
    /\ plugs' = plugs + 1
    /\ UNCHANGED <<machine, cpuNum, tree, cpu, level, cur, pc>>

Next == SkipCpu \/ TakeCpu \/ OldNode \/ NewNode \/ ReadFails \/ Built
        \/ \E c \in AllCpus : Plug(c)

Spec == Init /\ [][Next]_vars

-----------------------------------------------------------------------------
(* Properties.                                                              *)

Seen == {nodes[n].id : n \in {m \in DOMAIN nodes : nodes[m].type = T!TypeCPU}}
InRange == Seen \subseteq 0..(MaskBits - 1)

(* GetNumaNodeByID answers the one node of each NUMA id that a CPU of the    *)
(* tree has.                                                                *)
NumaKnown ==
    \A c \in Seen :
        {n \in DOMAIN nodes : nodes[n].type = T!TypeNUMA /\ nodes[n].id = numa[c]}
        = {numaMap[numa[c]]}

(* MeetsAssumption: whatever the numbering, whatever comes and goes while it *)
(* is read, a tree that InitTopo hands out is what the other models assume   *)
(* of it, as long as all CPUs fit into a mask: six levels, each under the     *)
(* next, no mask to divide a load by is empty, and, unless a CPU was plugged  *)
(* meanwhile, a NUMA id names one node.                                     *)
MeetsAssumption == pc = "built" /\ InRange => T!TreeShape /\ (plugs = 0 => NumaKnown)

(* The CPUs seen are numbered in keeping with the levels: the clusters are   *)
(* within NUMA nodes, these within chips, and the threads of a core within a *)
(* cluster.                                                                  *)
Regular ==
    \A c, d \in Seen :
        /\ ClusterBlock(c) = ClusterBlock(d) => numa[c] = numa[d]
        /\ numa[c] = numa[d] => chip[c] = chip[d]
        /\ core[c] = core[d] => ClusterBlock(c) = ClusterBlock(d)

CpuIds(n) == {nodes[m].id : m \in T!CpusOf[n]}

(* RegularExact: with nothing plugged meanwhile, a node's loads are those of *)
(* the CPUs that binding to its mask gives exactly when the numbering is     *)
(* regular.  With another (interleaved NUMA nodes, threads of a core far     *)
(* apart) some node lacks CPUs of its mask, or has them all elsewhere and    *)
(* nothing below: the search that SelectLighter...Node makes in it is nil.   *)
RegularExact ==
    pc = "built" /\ plugs = 0 /\ InRange =>
        (Regular <=> \A n \in DOMAIN nodes : CpuIds(n) = nodes[n].mask \cap Seen)
=============================================================================
