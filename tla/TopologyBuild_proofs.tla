------------------------ MODULE TopologyBuild_proofs ------------------------
(***************************************************************************)
(* The tree that InitTopo hands out meets what Topology, and with it the   *)
(* models of binding, assume of it: for machines of any size and numbering *)
(* and CPUs that go on- and offline at any point.                          *)
(***************************************************************************)
EXTENDS TopologyBuild, Sums_proofs, SequenceTheorems

USE DEF T!TypeCPU, T!TypeCore, T!TypeCluster, T!TypeNUMA, T!TypeChip, T!TypeAll

Bits == 0..(MaskBits - 1)
NodeRec == [type : Levels, id : AllCpus, parent : Nat, mask : SUBSET Bits]

\* The variables' types, with the nodes as a sequence
Types ==
    /\ chip \in [AllCpus -> AllCpus] /\ numa \in [AllCpus -> AllCpus]
    /\ core \in [AllCpus -> AllCpus]
    /\ fixed \subseteq AllCpus /\ online \subseteq AllCpus
    /\ cpuNum \in 0..CpuCount
    /\ nodes \in Seq(NodeRec) /\ numaMap \in [AllCpus -> 0..Len(nodes)]
    /\ cpu \in 0..cpuNum /\ level \in 0..5 /\ cur \in 0..Len(nodes)
    /\ pc \in {"run", "built", "failed"} /\ plugs \in 0..MaxPlugs
    /\ level \in Levels => cpu < cpuNum
    /\ pc = "built" => level = 5

\* Each node hangs under an older one of the next level, and so will the next
Hangs(ns, n, t) == IF t = 4 THEN n = 0 ELSE n \in DOMAIN ns /\ ns[n].type = t + 1

Hanging ==
    /\ \A n \in DOMAIN nodes : nodes[n].parent < n /\ Hangs(nodes, nodes[n].parent, nodes[n].type)
    /\ level \in Levels => Hangs(nodes, cur, level)
    /\ level = 5 => cur = 0

\* All CPUs that the tree has, or is about to have, fit into a mask
Fits == InRange /\ (level \in Levels => cpu \in Bits)

\* No mask that a load is divided by is empty
Masked == Fits => \A n \in DOMAIN nodes : nodes[n].mask # {}

\* The NUMA nodes made so far, while nothing is plugged
NumaNodes == {n \in DOMAIN nodes : nodes[n].type = 3}
NumasFound ==
    Fits /\ plugs = 0 =>
        /\ \A n \in NumaNodes : /\ numaMap[nodes[n].id] = n
                                /\ nodes[n].mask = InMask({d \in online : numa[d] = nodes[n].id})
        /\ \A i \in AllCpus : numaMap[i] # 0 => numaMap[i] \in NumaNodes /\ nodes[numaMap[i]].id = i
        /\ \A c \in Seen : numaMap[numa[c]] # 0
        /\ level \in 0..2 => numaMap[numa[cpu]] # 0

BuildInv == Types /\ Hanging /\ Masked /\ NumasFound

-----------------------------------------------------------------------------

LEMMA CpuKnown == ASSUME Types, level \in Levels PROVE cpu \in AllCpus /\ cpuNum \in Nat
BY BuildAssumption DEF Types, AllCpus

\* What is read of a CPU
LEMMA MaskFacts ==
    ASSUME Types, level \in Levels
    PROVE  /\ Mask(level, cpu) \in SUBSET Bits /\ Id(level, cpu) \in AllCpus
           /\ Readable(level, cpu) /\ cpu \in Bits => cpu \in Mask(level, cpu)
           /\ level = 3 => /\ Mask(level, cpu) = InMask({d \in online : numa[d] = numa[cpu]})
                           /\ Id(level, cpu) = numa[cpu]
           /\ level = 0 => Id(level, cpu) = cpu
<1>1. cpu \in AllCpus /\ cpu \in Nat /\ level \in {0, 1, 2, 3, 4}
  BY CpuKnown, BuildAssumption DEF Levels, AllCpus
<1>2. Mask(level, cpu) \in SUBSET Bits
  BY DEF Mask, InMask, Bits
<1>3. ClusterSize \in Nat \ {0}
  BY BuildAssumption
<1>4. cpu \div ClusterSize \in 0..cpu
  BY <1>1, <1>3
<1>5. Id(level, cpu) \in AllCpus
  <2>1. cpu \div ClusterSize \in AllCpus
    BY <1>1, <1>4, BuildAssumption DEF AllCpus
  <2> QED
    BY <1>1, <2>1 DEF Id, Types
<1>6. cpu \in ClusterBlock(cpu)
  <2>1. cpu % ClusterSize \in 0..(ClusterSize - 1)
    BY <1>1, <1>3
  <2> QED
    BY <1>1, <1>3, <2>1 DEF ClusterBlock
<1>7. ASSUME Readable(level, cpu), cpu \in Bits PROVE cpu \in Mask(level, cpu)
  BY <1>1, <1>6, <1>7 DEF Mask, InMask, Bits, Readable, Alike
<1>8. level = 3 => /\ Mask(level, cpu) = InMask({d \in online : numa[d] = numa[cpu]})
                   /\ Id(level, cpu) = numa[cpu]
  BY DEF Mask, Id, Alike
<1>9. level = 0 => Id(level, cpu) = cpu
  BY DEF Id
<1> QED
  BY <1>2, <1>5, <1>7, <1>8, <1>9

LEMMA FirstIn ==
    ASSUME Types, Known(level, cpu) # {}
    PROVE  First(Known(level, cpu)) \in Known(level, cpu)
<1>1. Known(level, cpu) \subseteq Nat
  BY DEF Known, Types
<1>2. \E x \in Known(level, cpu) : \A y \in Known(level, cpu) : x <= y
  BY <1>1, NatHasMin
<1> QED
  BY <1>2 DEF First

\* Where the loop is after a level
LEMMA DescendFacts ==
    ASSUME Types, level \in Levels, NEW n \in Nat, Descend(n)
    PROVE  /\ level = 0 => cpu' = cpu + 1 /\ level' = 5 /\ cur' = 0
           /\ level # 0 => cpu' = cpu /\ level' = level - 1 /\ cur' = n /\ level' \in 0..3
           /\ cpu' \in 0..cpuNum /\ level' \in 0..5 /\ cur' \in {0, n}
           /\ level' \in Levels => cpu' < cpuNum
<1>1. cpuNum \in Nat /\ cpu \in Nat /\ cpu < cpuNum
  BY BuildAssumption DEF Types
<1> QED
  BY <1>1 DEF Descend, Levels

\* Another CPU of the tree, or one about to be in it, only takes away that all fit
LEMMA NewNodeFacts ==
    ASSUME Types, NewNode
    PROVE  /\ Len(nodes') = Len(nodes) + 1 /\ DOMAIN nodes' = 1..(Len(nodes) + 1)
           /\ DOMAIN nodes = 1..Len(nodes) /\ Len(nodes) \in Nat
           /\ \A n \in DOMAIN nodes : nodes'[n] = nodes[n]
           /\ nodes'[Len(nodes) + 1] = [type |-> level, id |-> Id(level, cpu), parent |-> cur,
                                         mask |-> Mask(level, cpu)]
           /\ nodes' \in Seq(NodeRec) /\ level \in Levels /\ Descend(Len(nodes) + 1)
           /\ Readable(level, cpu)
           /\ UNCHANGED <<machine, online, cpuNum, pc, plugs>>
<1>1. level \in Levels /\ Len(nodes) \in Nat
  BY DEF NewNode, Types
<1>2. [type |-> level, id |-> Id(level, cpu), parent |-> cur, mask |-> Mask(level, cpu)] \in NodeRec
  BY <1>1, MaskFacts DEF NodeRec, Types
<1> QED
  BY <1>1, <1>2 DEF NewNode, Types

LEMMA SeenGrows ==
    ASSUME Types, NewNode
    PROVE  Seen' = IF level = 0 THEN Seen \cup {cpu} ELSE Seen
<1>1. Id(level, cpu) = cpu \/ level # 0
  BY NewNodeFacts, MaskFacts
<1> QED
  BY <1>1, NewNodeFacts DEF Seen

LEMMA FitsBefore ==
    ASSUME Types, OldNode \/ NewNode, Fits'
    PROVE  Fits /\ cpu \in Bits
<1>1. level \in Levels
  BY DEF OldNode, NewNode
<1>2. CASE OldNode
  <2>1. Seen' = Seen /\ level # 0
    BY <1>2 DEF OldNode, tree, Seen, Known
  <2>2. cpu' = cpu /\ level' \in Levels
    BY <1>1, <1>2, <2>1 DEF OldNode, Descend, Levels
  <2> QED
    BY <2>1, <2>2 DEF Fits, InRange, Bits
<1>3. CASE NewNode
  <2>1. Seen \subseteq Seen' /\ (level = 0 => cpu \in Seen')
    BY <1>3, SeenGrows
  <2>2. level # 0 => cpu' = cpu /\ level' \in Levels
    BY <1>1, <1>3 DEF NewNode, Descend, Levels
  <2> QED
    BY <2>1, <2>2 DEF Fits, InRange, Bits
<1> QED
  BY <1>2, <1>3

-----------------------------------------------------------------------------
(* The steps that change the tree or go down it *)

LEMMA OldNodeFacts ==
    ASSUME Types, OldNode
    PROVE  \E n \in DOMAIN nodes :
             /\ Descend(n) /\ n \in 1..Len(nodes) /\ nodes[n].type = level
             /\ nodes[n].mask = Mask(level, cpu) /\ level \in 1..4 /\ level \in Levels
             /\ Readable(level, cpu) /\ Seen' = Seen
             /\ UNCHANGED <<machine, online, cpuNum, tree, pc, plugs>>
<1>1. level \in Levels /\ Known(level, cpu) # {}
  BY DEF OldNode
<1>2. PICK n \in Known(level, cpu) : Descend(n)
  BY <1>1, FirstIn DEF OldNode
<1>3. n \in DOMAIN nodes /\ nodes[n].type = level /\ nodes[n].mask = Mask(level, cpu) /\ level # 0
  BY DEF Known
<1>4. n \in 1..Len(nodes) /\ level \in 1..4
  BY <1>1, <1>3 DEF Types, Levels
<1>5. Seen' = Seen
  BY DEF OldNode, tree, Seen
<1> QED
  BY <1>1, <1>2, <1>3, <1>4, <1>5 DEF OldNode

LEMMA OldNodeInv == ASSUME BuildInv, OldNode PROVE BuildInv'
<1> USE DEF BuildInv
<1>1. PICK n \in DOMAIN nodes :
        /\ Descend(n) /\ n \in 1..Len(nodes) /\ nodes[n].type = level
        /\ nodes[n].mask = Mask(level, cpu) /\ level \in 1..4 /\ level \in Levels
        /\ Readable(level, cpu) /\ Seen' = Seen
        /\ UNCHANGED <<machine, online, cpuNum, tree, pc, plugs>>
  BY OldNodeFacts
<1>2. /\ cpu' = cpu /\ level' = level - 1 /\ cur' = n /\ level' \in 0..3 /\ cpu' \in 0..cpuNum
      /\ level' \in Levels => cpu' < cpuNum
  BY <1>1, DescendFacts DEF Types
<1>3. Types'
  BY <1>1, <1>2 DEF Types, machine, tree
<1>4. Hanging'
  BY <1>1, <1>2 DEF Hanging, Hangs, tree, Levels
<1>5. Masked'
  BY <1>1, FitsBefore DEF Masked, tree
<1>6. ASSUME Fits', plugs' = 0
      PROVE  /\ \A m \in NumaNodes' : /\ numaMap'[nodes'[m].id] = m
                 /\ nodes'[m].mask = InMask({d \in online' : numa'[d] = nodes'[m].id})
             /\ \A i \in AllCpus : numaMap'[i] # 0 => numaMap'[i] \in NumaNodes'
                                                     /\ nodes'[numaMap'[i]].id = i
             /\ \A c \in Seen' : numaMap'[numa'[c]] # 0
             /\ level' \in 0..2 => numaMap'[numa'[cpu']] # 0
  <2>1. Fits /\ cpu \in Bits /\ plugs = 0
    BY <1>1, <1>6, FitsBefore
  <2>2. UNCHANGED <<nodes, numaMap, numa, online>> /\ NumaNodes' = NumaNodes
    BY <1>1 DEF machine, tree, NumaNodes
  <2>3. CASE level = 3
    <3>1. cpu \in InMask({d \in online : numa[d] = nodes[n].id})
      BY <1>1, <2>1, <2>3, MaskFacts DEF NumasFound, NumaNodes
    <3>2. numa[cpu] = nodes[n].id /\ numaMap[numa[cpu]] = n
      BY <1>1, <2>1, <2>3, <3>1 DEF NumasFound, NumaNodes, InMask
    <3>3. n # 0
      BY <1>1
    <3> QED
      BY <1>1, <1>2, <2>1, <2>2, <3>2, <3>3 DEF NumasFound
  <2>4. CASE level # 3
    <3>1. level' \in 0..2 => level \in 0..2
      BY <1>1, <1>2, <2>4
    <3> QED
      BY <1>1, <1>2, <2>1, <2>2, <3>1 DEF NumasFound
  <2> QED
    BY <2>3, <2>4
<1>7. NumasFound'
  BY <1>6 DEF NumasFound
<1> QED
  BY <1>3, <1>4, <1>5, <1>7

LEMMA NewNodeInv == ASSUME BuildInv, NewNode PROVE BuildInv'
<1> USE DEF BuildInv
<1> DEFINE N == Len(nodes) + 1
<1>1. /\ Len(nodes') = N /\ DOMAIN nodes' = 1..N /\ DOMAIN nodes = 1..Len(nodes)
      /\ Len(nodes) \in Nat /\ \A n \in DOMAIN nodes : nodes'[n] = nodes[n]
      /\ nodes'[N] = [type |-> level, id |-> Id(level, cpu), parent |-> cur,
                      mask |-> Mask(level, cpu)]
      /\ nodes' \in Seq(NodeRec) /\ level \in Levels /\ Descend(N) /\ Readable(level, cpu)
      /\ UNCHANGED <<machine, online, cpuNum, pc, plugs>>
  BY NewNodeFacts
<1>2. /\ N \in Nat /\ N \notin DOMAIN nodes /\ N # 0 /\ DOMAIN nodes' = DOMAIN nodes \cup {N}
      /\ cur \in 0..Len(nodes) /\ cur < N /\ level \in 0..4
  BY <1>1 DEF Types, Levels
<1> HIDE DEF N
<1>3. /\ level = 0 => cpu' = cpu + 1 /\ level' = 5 /\ cur' = 0
      /\ level # 0 => cpu' = cpu /\ level' = level - 1 /\ cur' = N /\ level' \in 0..3
      /\ cpu' \in 0..cpuNum /\ level' \in 0..5 /\ cur' \in {0, N}
      /\ level' \in Levels => cpu' < cpuNum
  BY <1>1, <1>2, DescendFacts
<1>4. /\ numaMap' = IF level = 3 THEN [numaMap EXCEPT ![numa[cpu]] = N] ELSE numaMap
      /\ Known(level, cpu) = {}
  BY DEF NewNode, N
<1>5. numa[cpu] \in AllCpus
  BY <1>1, CpuKnown DEF Types
<1>6. Types'
  <2>1. numaMap' \in [AllCpus -> 0..Len(nodes')]
    BY <1>1, <1>2, <1>4, <1>5 DEF Types, N
  <2>2. cur' \in 0..Len(nodes')
    BY <1>1, <1>2, <1>3
  <2> QED
    BY <1>1, <1>3, <2>1, <2>2 DEF Types, machine
<1>7. Hanging'
  <2>1. ASSUME NEW n \in DOMAIN nodes'
        PROVE  nodes'[n].parent < n /\ Hangs(nodes', nodes'[n].parent, nodes'[n].type)
    <3>1. CASE n \in DOMAIN nodes
      BY <1>1, <1>2, <3>1 DEF Hanging, Hangs
    <3>2. CASE n = N
      BY <1>1, <1>2, <3>2 DEF Hanging, Hangs
    <3> QED
      BY <1>2, <3>1, <3>2
  <2>2. level' \in Levels => Hangs(nodes', cur', level')
    <3>1. CASE level = 0
      BY <1>3, <3>1 DEF Levels
    <3>2. CASE level # 0
      BY <1>1, <1>2, <1>3, <3>2 DEF Hangs
    <3> QED
      BY <3>1, <3>2
  <2>3. level' = 5 => cur' = 0
    BY <1>3
  <2> QED
    BY <2>1, <2>2, <2>3 DEF Hanging
<1>8. Masked'
  <2>1. ASSUME Fits', NEW n \in DOMAIN nodes' PROVE nodes'[n].mask # {}
    <3>1. Fits /\ cpu \in Bits
      BY <2>1, FitsBefore
    <3>2. Mask(level, cpu) # {}
      BY <1>1, <3>1, MaskFacts
    <3>3. CASE n \in DOMAIN nodes
      BY <1>1, <3>1, <3>3 DEF Masked
    <3>4. CASE n = N
      BY <1>1, <3>2, <3>4
    <3> QED
      BY <1>2, <3>3, <3>4
  <2> QED
    BY <2>1 DEF Masked
<1>9. ASSUME Fits', plugs' = 0
      PROVE  /\ \A m \in NumaNodes' : /\ numaMap'[nodes'[m].id] = m
                 /\ nodes'[m].mask = InMask({d \in online' : numa'[d] = nodes'[m].id})
             /\ \A i \in AllCpus : numaMap'[i] # 0 => numaMap'[i] \in NumaNodes'
                                                     /\ nodes'[numaMap'[i]].id = i
             /\ \A c \in Seen' : numaMap'[numa'[c]] # 0
             /\ level' \in 0..2 => numaMap'[numa'[cpu']] # 0
  <2>1. Fits /\ cpu \in Bits /\ plugs = 0 /\ UNCHANGED <<numa, online>>
    BY <1>1, <1>9, FitsBefore DEF machine
  <2>2. /\ \A m \in NumaNodes : /\ numaMap[nodes[m].id] = m
                 /\ nodes[m].mask = InMask({d \in online : numa[d] = nodes[m].id})
        /\ \A i \in AllCpus : numaMap[i] # 0 => numaMap[i] \in NumaNodes
                                                     /\ nodes[numaMap[i]].id = i
        /\ \A c \in Seen : numaMap[numa[c]] # 0
        /\ level \in 0..2 => numaMap[numa[cpu]] # 0
    BY <2>1 DEF NumasFound
  <2>3. numaMap \in [AllCpus -> 0..Len(nodes)] /\ \A m \in NumaNodes : nodes[m].id \in AllCpus
    <3>1. \A m \in DOMAIN nodes : nodes[m] \in NodeRec
      BY DEF Types
    <3> QED
      BY <3>1 DEF Types, NumaNodes, NodeRec
  <2>4. Seen \subseteq AllCpus
    <3>1. \A m \in DOMAIN nodes : nodes[m] \in NodeRec
      BY DEF Types
    <3> QED
      BY <3>1 DEF Seen, NodeRec
  <2>5. numa \in [AllCpus -> AllCpus]
    BY DEF Types
  <2>6. CASE level = 3
    <3>1. NumaNodes' = NumaNodes \cup {N} /\ Seen' = Seen
      BY <1>1, <1>2, <2>6, SeenGrows DEF NumaNodes
    <3>2. nodes'[N].id = numa[cpu]
          /\ nodes'[N].mask = InMask({d \in online : numa[d] = numa[cpu]})
      BY <1>1, <2>6, MaskFacts
    <3>3. \A m \in NumaNodes : nodes[m].id # numa[cpu]
      BY <1>1, <1>4, <2>2, <2>6, <3>2 DEF Known, NumaNodes
    <3>4. /\ numaMap'[numa[cpu]] = N
          /\ \A i \in AllCpus : i # numa[cpu] => numaMap'[i] = numaMap[i]
      BY <1>4, <1>5, <2>3, <2>6
    <3>5. \A m \in NumaNodes : nodes'[m] = nodes[m]
      BY <1>1 DEF NumaNodes
    <3>6. \A m \in NumaNodes' : /\ numaMap'[nodes'[m].id] = m
                 /\ nodes'[m].mask = InMask({d \in online' : numa'[d] = nodes'[m].id})
      <4>1. ASSUME NEW m \in NumaNodes
            PROVE  /\ numaMap'[nodes'[m].id] = m
                   /\ nodes'[m].mask = InMask({d \in online : numa[d] = nodes'[m].id})
        BY <2>2, <2>3, <3>3, <3>4, <3>5
      <4>2. /\ numaMap'[nodes'[N].id] = N
            /\ nodes'[N].mask = InMask({d \in online : numa[d] = nodes'[N].id})
        BY <3>2, <3>4
      <4>3. ASSUME NEW m \in NumaNodes'
            PROVE  /\ numaMap'[nodes'[m].id] = m
                   /\ nodes'[m].mask = InMask({d \in online : numa[d] = nodes'[m].id})
        BY <3>1, <4>1, <4>2
      <4> QED
        BY <2>1, <4>3
    <3>7. \A i \in AllCpus : numaMap'[i] # 0 => numaMap'[i] \in NumaNodes'
                                                     /\ nodes'[numaMap'[i]].id = i
      BY <2>2, <3>1, <3>2, <3>4, <3>5
    <3>8. \A c \in Seen' : numaMap'[numa'[c]] # 0
      BY <1>2, <2>1, <2>2, <2>4, <2>5, <3>1, <3>4
    <3>9. numaMap'[numa'[cpu']] # 0
      BY <1>2, <1>3, <2>1, <2>6, <3>4
    <3> QED
      BY <3>6, <3>7, <3>8, <3>9
  <2>7. CASE level # 3
    <3>1. NumaNodes' = NumaNodes /\ numaMap' = numaMap
      <4>1. nodes'[N].type # 3
        BY <1>1, <2>7
      <4> QED
        BY <1>1, <1>2, <1>4, <2>7, <4>1 DEF NumaNodes
    <3>2. \A m \in NumaNodes : nodes'[m] = nodes[m]
      BY <1>1 DEF NumaNodes
    <3>3. \A c \in Seen' : numaMap[numa[c]] # 0
      BY <2>2, SeenGrows
    <3>4. level' \in 0..2 => cpu' = cpu /\ level \in 0..2
      BY <1>2, <1>3, <2>7
    <3> QED
      BY <2>1, <2>2, <3>1, <3>2, <3>3, <3>4
  <2> QED
    BY <2>6, <2>7
<1>10. NumasFound'
  BY <1>9 DEF NumasFound
<1> QED
  BY <1>6, <1>7, <1>8, <1>10

-----------------------------------------------------------------------------
(* The other steps, and the theorem *)

LEMMA InitBuild == ASSUME Init PROVE BuildInv
<1>1. online \subseteq AllCpus /\ fixed \subseteq AllCpus
  BY BuildAssumption DEF Init
<1>2. cpuNum \in 0..CpuCount
  <2>1. IsFiniteSet(AllCpus) /\ Cardinality(AllCpus) = CpuCount
    BY BuildAssumption, FS_Interval DEF AllCpus
  <2>2. Cardinality(online) \in Nat /\ Cardinality(online) <= CpuCount
    BY <1>1, <2>1, FS_Subset, FS_CardinalityType
  <2> QED
    BY <2>2, BuildAssumption DEF Init
<1>3. nodes = <<>> /\ Len(nodes) = 0 /\ DOMAIN nodes = {} /\ nodes \in Seq(NodeRec)
  BY DEF Init
<1>4. Types
  BY <1>1, <1>2, <1>3, BuildAssumption DEF Init, Types, Levels
<1>5. Hanging /\ Masked
  BY <1>3 DEF Init, Hanging, Masked, Levels
<1>6. Seen = {} /\ NumaNodes = {}
  BY <1>3 DEF Seen, NumaNodes
<1>7. NumasFound
  BY <1>6 DEF Init, NumasFound
<1> QED
  BY <1>4, <1>5, <1>7 DEF BuildInv

\* A step that leaves the tree alone, and nothing fits that did not before
LEMMA TreeKept ==
    ASSUME BuildInv, UNCHANGED <<tree, numa, online, plugs>>, Types', Fits' => Fits,
           (level' \in {4, 5} /\ cur' = 0) \/ UNCHANGED <<level, cur, cpu>>
    PROVE  BuildInv'
<1>1. Seen' = Seen /\ NumaNodes' = NumaNodes
  BY DEF tree, Seen, NumaNodes
<1>2. Hanging'
  BY DEF BuildInv, Hanging, Hangs, tree, Levels
<1>3. Masked'
  BY DEF BuildInv, Masked, tree
<1>4. level' \in 0..2 => level \in 0..2 /\ cpu' = cpu
  OBVIOUS
<1>5. NumasFound'
  BY <1>1, <1>4 DEF BuildInv, NumasFound, tree
<1> QED
  BY <1>2, <1>3, <1>5 DEF BuildInv

LEMMA LoopInv == ASSUME BuildInv, SkipCpu \/ TakeCpu \/ ReadFails \/ Built PROVE BuildInv'
<1>1. /\ UNCHANGED <<tree, machine, online, plugs>> /\ Seen' = Seen
      /\ (level' \in {4, 5} /\ cur' = 0) \/ UNCHANGED <<level, cur, cpu>>
  <2>1. level = 5 => cur = 0
    BY DEF BuildInv, Hanging
  <2> QED
    BY <2>1 DEF SkipCpu, TakeCpu, ReadFails, Built, tree, Seen
<1>2. cpuNum \in Nat
  BY BuildAssumption DEF BuildInv, Types
<1>3. Types'
  BY <1>1, <1>2 DEF SkipCpu, TakeCpu, ReadFails, Built, BuildInv, Types, tree, machine, Levels
<1>4. Fits' => Fits
  <2>1. level \in Levels => level' = level /\ cpu' = cpu
    BY DEF SkipCpu, TakeCpu, ReadFails, Built, Levels
  <2> QED
    BY <1>1, <2>1 DEF Fits, InRange
<1> QED
  BY <1>1, <1>3, <1>4, TreeKept DEF machine

LEMMA PlugInv == ASSUME BuildInv, NEW c \in AllCpus, Plug(c) PROVE BuildInv'
<1>1. UNCHANGED <<machine, cpuNum, tree, cpu, level, cur, pc>> /\ Seen' = Seen
  BY DEF Plug, tree, Seen
<1>2. plugs' = plugs + 1 /\ plugs' \in 0..MaxPlugs /\ plugs' # 0 /\ online' \subseteq AllCpus
  BY BuildAssumption DEF Plug, BuildInv, Types
<1>3. Types'
  BY <1>1, <1>2 DEF BuildInv, Types, machine, tree
<1>4. Hanging'
  BY <1>1 DEF BuildInv, Hanging, tree
<1>5. Masked'
  BY <1>1 DEF BuildInv, Masked, Fits, InRange, tree
<1>6. NumasFound'
  BY <1>2 DEF NumasFound
<1> QED
  BY <1>3, <1>4, <1>5, <1>6 DEF BuildInv

LEMMA BuildStep == ASSUME BuildInv, [Next]_vars PROVE BuildInv'
<1>1. CASE UNCHANGED vars
  <2>1. UNCHANGED <<tree, machine, numa, online, cpuNum, plugs, cpu, level, cur, pc>>
    BY <1>1 DEF vars, machine
  <2>2. Types'
    BY <2>1 DEF BuildInv, Types, machine, tree
  <2>3. Fits' => Fits
    BY <2>1 DEF Fits, InRange, Seen, tree
  <2> QED
    BY <2>1, <2>2, <2>3, TreeKept
<1> QED
  BY <1>1, LoopInv, OldNodeInv, NewNodeInv, PlugInv DEF Next

\* The inductive invariant of the building: every node hangs under an older one of the
\* next level, and, as long as all CPUs fit into a mask, none is empty and each NUMA id
\* read without a change in between has one node.
THEOREM BuildInvariance == Spec => []BuildInv
BY InitBuild, BuildStep, PTL DEF Spec

LEMMA ShapeBuilt == ASSUME BuildInv, pc = "built", InRange PROVE T!TreeShape
<1>1. Types /\ Hanging /\ Masked /\ level = 5 /\ Fits
  BY DEF BuildInv, Types, Fits, Levels
<1> DEFINE Nodes == 0..Len(nodes)
           Parent == [n \in Nodes |-> IF n = 0 THEN -1 ELSE nodes[n].parent]
           Bitcount == [n \in Nodes |-> Cardinality(MaskOf(n))]
<1>2. Len(nodes) \in Nat /\ DOMAIN nodes = 1..Len(nodes)
  BY <1>1 DEF Types
<1>3. ASSUME NEW n \in 1..Len(nodes)
      PROVE  /\ nodes[n].type \in 0..4 /\ nodes[n].parent \in Nat /\ nodes[n].parent < n
             /\ nodes[n].mask \subseteq Bits /\ nodes[n].mask # {}
             /\ Hangs(nodes, nodes[n].parent, nodes[n].type)
  <2>1. nodes[n] \in NodeRec
    BY <1>1, <1>2 DEF Types
  <2> QED
    BY <1>1, <1>2, <2>1 DEF NodeRec, Levels, Hanging, Masked
<1>4. IsFiniteSet(Nodes) /\ -1 \notin Nodes
  BY <1>2, FS_Interval
<1>5. Kind \in [Nodes -> 0..5] /\ Parent \in [Nodes -> Nodes \cup {-1}]
  BY <1>2, <1>3 DEF Kind
<1>6. ASSUME NEW n \in Nodes
      PROVE  IF Kind[n] = 5 THEN Parent[n] = -1
             ELSE Parent[n] \in Nodes /\ Kind[Parent[n]] = Kind[n] + 1
  <2>1. CASE n = 0
    BY <2>1 DEF Kind
  <2>2. CASE n # 0
    <3>1. n \in 1..Len(nodes) /\ Kind[n] = nodes[n].type /\ Parent[n] = nodes[n].parent
      BY <1>2, <2>2 DEF Kind
    <3>2. Kind[n] \in 0..4 /\ Parent[n] \in Nodes
      BY <1>2, <1>3, <3>1
    <3>3. Kind[Parent[n]] = Kind[n] + 1
      BY <1>2, <1>3, <3>1, <3>2 DEF Hangs, Kind
    <3> QED
      BY <3>2, <3>3
  <2> QED
    BY <2>1, <2>2
<1>7. ASSUME NEW n \in Nodes
      PROVE  Cardinality(MaskOf(n)) \in Nat /\ (Kind[n] # 5 => Cardinality(MaskOf(n)) > 0)
  <2>1. MaskOf(n) \subseteq Bits /\ (n # 0 => MaskOf(n) # {})
    BY <1>2, <1>3 DEF MaskOf
  <2>2. IsFiniteSet(Bits)
    BY BuildAssumption, FS_Interval DEF Bits
  <2>3. IsFiniteSet(MaskOf(n))
    BY <2>1, <2>2, FS_Subset
  <2>4. Cardinality(MaskOf(n)) \in Nat /\ (MaskOf(n) # {} => Cardinality(MaskOf(n)) # 0)
    BY <2>3, FS_CardinalityType, FS_EmptySet
  <2>5. Kind[0] = 5
    BY <1>2 DEF Kind
  <2> QED
    BY <2>1, <2>4, <2>5
<1>8. Bitcount \in [Nodes -> Nat] /\ \A n \in Nodes : Kind[n] # 5 => Bitcount[n] > 0
  BY <1>7
<1>9. /\ [n \in Nodes |-> n] \in [Nodes -> Nat]
      /\ \A m, n \in Nodes : [k \in Nodes |-> k][m] = [k \in Nodes |-> k][n] => m = n
  BY <1>2
<1>10. T!IsFiniteSet(Nodes)
  BY <1>4 DEF IsFiniteSet, T!IsFiniteSet
<1> QED
  BY <1>4, <1>5, <1>6, <1>8, <1>9, <1>10 DEF T!TreeShape

LEMMA NumaBuilt == ASSUME BuildInv, pc = "built", InRange, plugs = 0 PROVE NumaKnown
<1>1. Types /\ Fits /\ NumasFound
  BY DEF BuildInv, Types, Fits, Levels
<1>2. ASSUME NEW c \in Seen
      PROVE  {n \in DOMAIN nodes : nodes[n].type = 3 /\ nodes[n].id = numa[c]} = {numaMap[numa[c]]}
  <2>1. \A m \in DOMAIN nodes : nodes[m] \in NodeRec
    BY <1>1 DEF Types
  <2>2. numa[c] \in AllCpus
    BY <1>1, <2>1 DEF Seen, NodeRec, Types
  <2>3. numaMap[numa[c]] \in NumaNodes /\ nodes[numaMap[numa[c]]].id = numa[c]
    BY <1>1, <2>2 DEF NumasFound
  <2>4. \A n \in NumaNodes : numaMap[nodes[n].id] = n
    BY <1>1 DEF NumasFound
  <2> QED
    BY <2>3, <2>4 DEF NumaNodes
<1> QED
  BY <1>2 DEF NumaKnown

\* Whatever the machine's size and numbering and whatever is plugged while InitTopo
\* reads it: if it hands out a tree and every CPU in it fits into a mask, the tree is
\* what Topology assumes, and without plugging GetNumaNodeByID answers the one node of an id.
THEOREM MeetsAssumptionHolds == Spec => []MeetsAssumption
<1>1. BuildInv => MeetsAssumption
  BY ShapeBuilt, NumaBuilt DEF MeetsAssumption
<1> QED
  BY <1>1, BuildInvariance, PTL

\* Whatever is plugged meanwhile, no CPU runs past the processors counted at the start,
\* and the tree, its map of NUMA ids and its cursor stay in their bounds.
THEOREM TypeCorrect == Spec => []TypeOK
<1>1. ASSUME BuildInv PROVE TypeOK
  <2>1. Types /\ Hanging
    BY <1>1 DEF BuildInv
  <2>2. ASSUME NEW n \in DOMAIN nodes
        PROVE  nodes[n] \in [type : Levels, id : AllCpus, parent : 0..(n - 1), mask : SUBSET Bits]
    <3>1. nodes[n] \in NodeRec /\ n \in Nat
      BY <2>1 DEF Types
    <3>2. nodes[n].parent \in 0..(n - 1)
      BY <2>1, <3>1 DEF NodeRec, Hanging
    <3> QED
      BY <3>1, <3>2 DEF NodeRec
  <2> QED
    BY <2>1, <2>2 DEF Types, TypeOK, Bits
<1> QED
  BY <1>1, BuildInvariance, PTL

-----------------------------------------------------------------------------
(* What hangs where, while nothing is plugged: a node is found again by its mask, and *)
(* keeps the parent that the CPU which made it had                                    *)

Made == Seen \cup (IF level \in Levels THEN {cpu} ELSE {})

\* The masks of a node and of its parent are both those of CPU d
MadeBy(n, d) ==
    /\ nodes[n].mask = Mask(nodes[n].type, d)
    /\ nodes[n].type # 4 => nodes[nodes[n].parent].mask = Mask(nodes[n].type + 1, d)
    /\ nodes[n].type = 0 => nodes[n].id = d

Present(t, c) == \E n \in DOMAIN nodes : nodes[n].type = t /\ nodes[n].mask = Mask(t, c)

Placed ==
    /\ Made \subseteq online
    /\ \A n \in DOMAIN nodes : \E d \in Made : MadeBy(n, d)
    /\ \A n, m \in DOMAIN nodes :
         nodes[n].type = nodes[m].type /\ nodes[n].type # 0 /\ nodes[n].mask = nodes[m].mask => n = m
    /\ level \in 0..3 => nodes[cur].mask = Mask(level + 1, cpu)
    /\ \A c \in Seen, t \in 1..4 : Present(t, c)
    /\ level \in Levels => \A t \in 1..4 : level < t => Present(t, cpu)

PlacedInv == Fits /\ plugs = 0 => Placed

LEMMA MaskStays ==
    ASSUME UNCHANGED <<machine, online>>
    PROVE  \A t, c : Mask(t, c)' = Mask(t, c)
BY DEF Mask, InMask, Alike, machine

LEMMA PlacedKept ==
    ASSUME PlacedInv, UNCHANGED <<tree, machine, online, plugs>>, Fits' => Fits,
           \/ level' = 4 /\ level = 5 /\ cpu' \in online
           \/ level' = 5 /\ level = 5
           \/ UNCHANGED <<level, cur, cpu>>
    PROVE  PlacedInv'
<1> SUFFICES ASSUME Fits', plugs' = 0 PROVE Placed'
  BY DEF PlacedInv
<1>1. Placed
  BY DEF PlacedInv
<1>2. nodes' = nodes /\ online' = online /\ Seen' = Seen
  BY DEF tree, Seen
<1>3. Made \subseteq Made' /\ Made' \subseteq Made \cup (online \cap {cpu'})
  BY <1>1, <1>2 DEF Made, Levels, Placed
<1>4. /\ \A n, d : MadeBy(n, d)' <=> MadeBy(n, d)
      /\ \A t, c : Present(t, c)' <=> Present(t, c)
  BY <1>2, MaskStays DEF MadeBy, Present
<1>5. Made' \subseteq online' /\ \A n \in DOMAIN nodes' : \E d \in Made' : MadeBy(n, d)'
  BY <1>1, <1>2, <1>3, <1>4 DEF Placed
<1>6. level' \in 0..3 => nodes'[cur'].mask = Mask(level + 1, cpu)'
  <2> SUFFICES ASSUME level' \in 0..3 PROVE nodes'[cur'].mask = Mask(level + 1, cpu)'
    OBVIOUS
  <2>1. UNCHANGED <<level, cur, cpu>> /\ nodes[cur].mask = Mask(level + 1, cpu)
    BY <1>1 DEF Placed
  <2> QED
    BY <1>2, <2>1 DEF Mask, InMask, Alike, machine
<1>7. level' \in Levels => \A t \in 1..4 : level' < t => Present(t, cpu)'
  <2>1. CASE level' = 4 \/ level' = 5
    <3>1. level' \in Levels => \A t \in 1..4 : ~(level' < t)
      BY <2>1 DEF Levels
    <3> QED
      BY <3>1
  <2>2. CASE UNCHANGED <<level, cur, cpu>>
    BY <1>1, <1>2, <2>2, MaskStays DEF Placed, Present
  <2> QED
    BY <2>1, <2>2
<1>8. \A c \in Seen', t \in 1..4 : Present(t, c)'
  BY <1>1, <1>2, <1>4 DEF Placed
<1> QED
  BY <1>1, <1>2, <1>5, <1>6, <1>7, <1>8 DEF Placed

LEMMA PlacedInit == ASSUME Init PROVE PlacedInv
<1>1. nodes = <<>> /\ DOMAIN nodes = {} /\ level = 5
  BY DEF Init
<1>2. Seen = {} /\ Made = {}
  BY <1>1 DEF Seen, Made, Levels
<1> QED
  BY <1>1, <1>2 DEF PlacedInv, Placed, Levels

LEMMA PlacedLoop == ASSUME BuildInv, PlacedInv, SkipCpu \/ TakeCpu \/ ReadFails \/ Built PROVE PlacedInv'
<1>1. UNCHANGED <<tree, machine, online, plugs>>
  BY DEF SkipCpu, TakeCpu, ReadFails, Built
<1>2. Fits' => Fits
  <2>1. level \in Levels => level' = level /\ cpu' = cpu
    BY DEF SkipCpu, TakeCpu, ReadFails, Built, Levels
  <2>2. Seen' = Seen
    BY <1>1 DEF tree, Seen
  <2> QED
    BY <2>1, <2>2 DEF Fits, InRange
<1>3. \/ level' = 4 /\ level = 5 /\ cpu' \in online
      \/ level' = 5 /\ level = 5
      \/ UNCHANGED <<level, cur, cpu>>
  BY DEF SkipCpu, TakeCpu, ReadFails, Built
<1> QED
  BY <1>1, <1>2, <1>3, PlacedKept

LEMMA PlacedOld == ASSUME BuildInv, PlacedInv, OldNode PROVE PlacedInv'
<1> SUFFICES ASSUME Fits', plugs' = 0 PROVE Placed'
  BY DEF PlacedInv
<1>1. PICK n \in DOMAIN nodes :
        /\ Descend(n) /\ n \in 1..Len(nodes) /\ nodes[n].type = level
        /\ nodes[n].mask = Mask(level, cpu) /\ level \in 1..4 /\ level \in Levels
        /\ Readable(level, cpu) /\ Seen' = Seen
        /\ UNCHANGED <<machine, online, cpuNum, tree, pc, plugs>>
  BY OldNodeFacts DEF BuildInv
<1>2. cpu' = cpu /\ level' = level - 1 /\ cur' = n /\ level' \in 0..3
  BY <1>1, DescendFacts DEF BuildInv
<1>3. Placed /\ nodes' = nodes /\ online' = online
  BY <1>1, FitsBefore DEF PlacedInv, BuildInv, tree
<1>4. Made' = Made
  BY <1>1, <1>2 DEF Made, Levels
<1>5. /\ \A m, d : MadeBy(m, d)' <=> MadeBy(m, d)
      /\ \A t, c : Present(t, c)' <=> Present(t, c)
  BY <1>1, <1>3, MaskStays DEF MadeBy, Present
<1>6. level' \in 0..3 => nodes'[cur'].mask = Mask(level + 1, cpu)'
  <2>1. nodes[n].mask = Mask(level' + 1, cpu)
    BY <1>1, <1>2
  <2> QED
    BY <1>1, <1>2, <1>3, <2>1 DEF Mask, InMask, Alike, machine
<1>7. level' \in Levels => \A t \in 1..4 : level' < t => Present(t, cpu)'
  <2>1. ASSUME NEW t \in 1..4, level' < t PROVE Present(t, cpu)
    <3>1. t = level \/ level < t
      BY <1>1, <1>2, <2>1
    <3> QED
      BY <1>1, <1>3, <3>1 DEF Placed, Present
  <2>2. ASSUME NEW t, NEW c, c = cpu, Present(t, c) PROVE Present(t, cpu)'
    BY <1>2, <1>5, <2>2
  <2> QED
    BY <2>1, <2>2
<1>8. /\ \A c \in Seen', t \in 1..4 : Present(t, c)'
      /\ \A m \in DOMAIN nodes' : \E d \in Made' : MadeBy(m, d)'
      /\ Made' \subseteq online'
  BY <1>1, <1>3, <1>4, <1>5 DEF Placed
<1> QED
  BY <1>3, <1>6, <1>7, <1>8 DEF Placed

LEMMA PlacedNew == ASSUME BuildInv, PlacedInv, NewNode PROVE PlacedInv'
<1> SUFFICES ASSUME Fits', plugs' = 0 PROVE Placed'
  BY DEF PlacedInv
<1> DEFINE N == Len(nodes) + 1
<1>1. /\ DOMAIN nodes' = 1..N /\ DOMAIN nodes = 1..Len(nodes)
      /\ Len(nodes) \in Nat /\ \A n \in DOMAIN nodes : nodes'[n] = nodes[n]
      /\ nodes'[N] = [type |-> level, id |-> Id(level, cpu), parent |-> cur,
                      mask |-> Mask(level, cpu)]
      /\ level \in Levels /\ Descend(N)
      /\ UNCHANGED <<machine, online, cpuNum, pc, plugs>>
  BY NewNodeFacts DEF BuildInv
<1>2. N \in Nat /\ N \notin DOMAIN nodes /\ DOMAIN nodes' = DOMAIN nodes \cup {N} /\ level \in 0..4
  BY <1>1 DEF Levels
<1> HIDE DEF N
<1>3. /\ level = 0 => level' = 5
      /\ level # 0 => cpu' = cpu /\ level' = level - 1 /\ cur' = N /\ level' \in 0..3
  BY <1>1, <1>2, DescendFacts DEF BuildInv
<1>4. Placed /\ online' = online /\ cpu \in Bits
  BY <1>1, FitsBefore DEF PlacedInv, BuildInv
<1>5. Known(level, cpu) = {} /\ Id(0, cpu) = cpu
  BY DEF NewNode, Id
<1>6. Made' = Made
  <2>1. Seen' = IF level = 0 THEN Seen \cup {cpu} ELSE Seen
    BY SeenGrows DEF BuildInv
  <2>2. CASE level = 0
    BY <1>1, <1>3, <2>1, <2>2 DEF Made, Levels
  <2>3. CASE level # 0
    BY <1>1, <1>3, <2>1, <2>3 DEF Made, Levels
  <2> QED
    BY <2>2, <2>3
<1>7. \A n \in DOMAIN nodes : nodes[n].type # 4 => nodes[n].parent \in DOMAIN nodes
  BY DEF BuildInv, Hanging, Hangs
<1>8. cpu \in Made
  BY <1>1 DEF Made
<1>9. \A m \in DOMAIN nodes' : \E d \in Made' : MadeBy(m, d)'
  <2>1. ASSUME NEW m \in DOMAIN nodes, NEW d, MadeBy(m, d) PROVE MadeBy(m, d)'
    BY <1>1, <1>7, <2>1, MaskStays DEF MadeBy
  <2>2. ASSUME NEW n, n = N, NEW d, d = cpu PROVE MadeBy(n, d)'
    <3>1. level # 4 => cur \in DOMAIN nodes /\ nodes'[cur].mask = Mask(level + 1, d)
      BY <1>1, <1>2, <1>4, <2>2 DEF BuildInv, Hanging, Hangs, Placed
    <3>2. \A t, c : Mask(t, c)' = Mask(t, c)
      BY <1>1, MaskStays
    <3>3. nodes'[n].type = level /\ nodes'[n].mask = Mask(level, d) /\ nodes'[n].parent = cur
          /\ nodes'[n].id = Id(level, cpu)
      BY <1>1, <2>2
    <3> QED
      BY <1>1, <1>5, <2>2, <3>1, <3>2, <3>3 DEF MadeBy
  <2>3. \A m \in DOMAIN nodes : \E d \in Made : MadeBy(m, d)
    BY <1>4 DEF Placed
  <2> QED
    BY <1>2, <1>6, <1>8, <2>1, <2>2, <2>3
<1>10. ASSUME NEW n \in DOMAIN nodes', NEW m \in DOMAIN nodes',
              nodes'[n].type = nodes'[m].type, nodes'[n].type # 0, nodes'[n].mask = nodes'[m].mask
       PROVE  n = m
  <2>1. ASSUME NEW k \in DOMAIN nodes, nodes[k].type = level, level # 0
        PROVE  nodes[k].mask # Mask(level, cpu)
    BY <1>5, <2>1 DEF Known
  <2>2. CASE n \in DOMAIN nodes /\ m \in DOMAIN nodes
    BY <1>1, <1>4, <1>10, <2>2 DEF Placed
  <2>3. CASE n = N /\ m \in DOMAIN nodes
    BY <1>1, <1>10, <2>1, <2>3
  <2>4. CASE m = N /\ n \in DOMAIN nodes
    BY <1>1, <1>10, <2>1, <2>4
  <2> QED
    BY <1>2, <2>2, <2>3, <2>4
<1>11. level' \in 0..3 => nodes'[cur'].mask = Mask(level + 1, cpu)'
  <2> SUFFICES ASSUME level' \in 0..3 PROVE nodes'[cur'].mask = Mask(level + 1, cpu)'
    OBVIOUS
  <2>1. cpu' = cpu /\ level' = level - 1 /\ cur' = N
    BY <1>3
  <2>2. nodes'[N].mask = Mask(level' + 1, cpu)
    BY <1>1, <1>2, <2>1
  <2> QED
    BY <1>1, <2>1, <2>2 DEF Mask, InMask, Alike, machine
<1>12. \A t, c : Present(t, c) => Present(t, c)'
  BY <1>1, <1>2, MaskStays DEF Present
<1>13. ASSUME NEW t, t = level, NEW c, c = cpu PROVE Present(t, c)'
  <2>1. nodes'[N].type = t /\ nodes'[N].mask = Mask(t, c) /\ N \in DOMAIN nodes'
    <3>1. nodes'[N].type = level /\ nodes'[N].mask = Mask(level, cpu)
      BY <1>1
    <3>2. N \in DOMAIN nodes'
      BY <1>2
    <3> QED
      BY <1>13, <3>1, <3>2
  <2>2. Mask(t, c)' = Mask(t, c)
    BY <1>1, MaskStays
  <2> QED
    BY <2>1, <2>2 DEF Present
<1>14. level' \in Levels => \A t \in 1..4 : level' < t => Present(t, cpu)'
  <2> SUFFICES ASSUME level' \in Levels, NEW t \in 1..4, level' < t, NEW c, c = cpu
               PROVE  Present(t, cpu)'
    OBVIOUS
  <2>1. level # 0 /\ cpu' = cpu /\ (t = level \/ level < t)
    BY <1>2, <1>3 DEF Levels
  <2>2. Present(t, c)'
    BY <1>1, <1>4, <1>12, <1>13, <2>1 DEF Placed
  <2> QED
    BY <2>1, <2>2
<1>15. ASSUME NEW c \in Seen', NEW t \in 1..4 PROVE Present(t, c)'
  <2>1. c \in Seen \/ (level = 0 /\ c = cpu)
    BY SeenGrows DEF BuildInv
  <2>2. Present(t, c)
    BY <1>1, <1>4, <2>1 DEF Placed
  <2> QED
    BY <1>12, <2>2
<1> QED
  BY <1>4, <1>6, <1>9, <1>10, <1>11, <1>14, <1>15 DEF Placed

LEMMA PlacedStep == ASSUME BuildInv, PlacedInv, [Next]_vars PROVE PlacedInv'
<1>1. CASE UNCHANGED vars
  <2>1. UNCHANGED <<tree, machine, online, plugs, level, cur, cpu>>
    BY <1>1 DEF vars
  <2>2. Fits' => Fits
    BY <2>1 DEF Fits, InRange, Seen, tree
  <2> QED
    BY <2>1, <2>2, PlacedKept
<1>2. ASSUME NEW c \in AllCpus, Plug(c) PROVE PlacedInv'
  BY <1>2, BuildAssumption DEF Plug, PlacedInv, BuildInv, Types
<1> QED
  BY <1>1, <1>2, PlacedLoop, PlacedOld, PlacedNew DEF Next

\* The inductive invariant of where nodes hang: each one was made by a CPU that has its mask
\* and that of its parent, no other node of its level has that mask, and every CPU of the tree
\* has a node at each level, under which it need not hang.
THEOREM PlacedInvariance == Spec => []PlacedInv
BY PlacedInit, PlacedStep, BuildInvariance, PTL DEF Spec

-----------------------------------------------------------------------------
(* The masks of a level divide the CPUs *)

LEMMA BlockClass ==
    ASSUME NEW c \in Nat, NEW d \in Nat
    PROVE  /\ c \in ClusterBlock(c)
           /\ d \in ClusterBlock(c) <=> ClusterBlock(d) = ClusterBlock(c)
<1> DEFINE S == ClusterSize
           first(x) == x - (x % S)
<1>1. S \in Nat /\ S > 0
  BY BuildAssumption
<1>2. ASSUME NEW x \in Nat
      PROVE  \E q \in Int : first(x) = S * q /\ S * q <= x /\ x < S * q + S
  <2> HIDE DEF S
  <2>1. x = S * (x \div S) + (x % S) /\ x % S \in 0..(S - 1) /\ x \div S \in Int
    BY <1>1
  <2> DEFINE q == x \div S
             r == x % S
  <2>2. q \in Int /\ r \in 0..(S - 1) /\ x = S * q + r /\ S * q \in Int
    BY <1>1, <2>1
  <2> HIDE DEF q
  <2>3. first(x) = S * q /\ S * q <= x /\ x < S * q + S
    BY <1>1, <2>2
  <2> QED
    BY <2>2, <2>3
<1>3. \A x : ClusterBlock(x) = first(x)..(first(x) + S - 1)
  BY DEF ClusterBlock
<1> HIDE DEF first, S
<1>4. PICK p \in Int : first(c) = S * p /\ S * p <= c /\ c < S * p + S
  BY <1>2
<1>5. PICK q \in Int : first(d) = S * q /\ S * q <= d /\ d < S * q + S
  BY <1>2
<1>6. c \in ClusterBlock(c) /\ d \in ClusterBlock(d)
  BY <1>1, <1>3, <1>4, <1>5
<1>7. ASSUME d \in ClusterBlock(c) PROVE p = q
  <2>1. S * p <= d /\ d < S * p + S
    BY <1>1, <1>3, <1>4, <1>7
  <2>2. ASSUME NEW a \in Int, NEW b \in Int, a < b PROVE S * a + S <= S * b
    <3>1. S * (b - a) >= S
      BY <1>1, <2>2
    <3>2. S * (b - a) = S * b - S * a
      BY <1>1
    <3> QED
      BY <1>1, <3>1, <3>2
  <2>3. ~(p < q)
    BY <1>1, <1>5, <2>1, <2>2
  <2>4. ~(q < p)
    BY <1>1, <1>5, <2>1, <2>2
  <2> QED
    BY <2>3, <2>4
<1>8. d \in ClusterBlock(c) => ClusterBlock(d) = ClusterBlock(c)
  BY <1>3, <1>4, <1>5, <1>7
<1> QED
  BY <1>6, <1>8

\* Two CPUs alike at a level
Near(t, c, d) ==
    /\ t = 4 => chip[c] = chip[d]
    /\ t = 3 => numa[c] = numa[d]
    /\ t = 2 => ClusterBlock(c) = ClusterBlock(d)
    /\ t = 1 => core[c] = core[d]

LEMMA MaskClass ==
    ASSUME NEW t \in 1..4, NEW c \in online \cap Bits, NEW d \in online \cap Bits
    PROVE  /\ d \in Mask(t, c) <=> Near(t, c, d)
           /\ Mask(t, c) = Mask(t, d) <=> Near(t, c, d)
<1>1. c \in Nat /\ d \in Nat
  BY BuildAssumption DEF Bits
<1>2. t \in {1, 2, 3, 4}
  OBVIOUS
<1>3. /\ t = 4 => Mask(t, c) = InMask(Alike(chip, c)) /\ Mask(t, d) = InMask(Alike(chip, d))
      /\ t = 3 => Mask(t, c) = InMask(Alike(numa, c)) /\ Mask(t, d) = InMask(Alike(numa, d))
      /\ t = 2 => Mask(t, c) = InMask(ClusterBlock(c)) /\ Mask(t, d) = InMask(ClusterBlock(d))
      /\ t = 1 => Mask(t, c) = InMask(Alike(core, c)) /\ Mask(t, d) = InMask(Alike(core, d))
  BY DEF Mask
<1>4. \A S : InMask(S) = S \cap Bits
  BY DEF InMask, Bits
<1>5. d \in Mask(t, c) <=> Near(t, c, d)
  BY <1>1, <1>2, <1>3, <1>4, BlockClass DEF Near, Alike
<1>6. d \in Mask(t, d)
  BY <1>1, <1>2, <1>3, <1>4, BlockClass DEF Alike
<1>7. Near(t, c, d) => Mask(t, c) = Mask(t, d)
  BY <1>2, <1>3 DEF Near, Alike
<1> QED
  BY <1>5, <1>6, <1>7

-----------------------------------------------------------------------------
(* The CPUs below a node *)

Dad(n) == nodes[n].parent

\* The node of level t above a CPU's node
Anc(k, t) ==
    CASE t = 0 -> k
      [] t = 1 -> Dad(k)
      [] t = 2 -> Dad(Dad(k))
      [] t = 3 -> Dad(Dad(Dad(k)))
      [] t = 4 -> Dad(Dad(Dad(Dad(k))))

CpuNodes == {k \in DOMAIN nodes : nodes[k].type = 0}

LEMMA Ancestors ==
    ASSUME Types, Hanging, NEW k \in CpuNodes
    PROVE  /\ \A t \in 0..4 : Anc(k, t) \in DOMAIN nodes /\ nodes[Anc(k, t)].type = t
           /\ \A t \in 0..3 : Anc(k, t + 1) = Dad(Anc(k, t))
           /\ \A n \in DOMAIN nodes : n \in T!Chain[k] <=> Anc(k, nodes[n].type) = n
<1>1. ASSUME NEW n \in DOMAIN nodes
      PROVE  /\ nodes[n].type \in 0..4 /\ n \in Nat /\ n # 0
             /\ nodes[n].type < 4 => Dad(n) \in DOMAIN nodes /\ nodes[Dad(n)].type = nodes[n].type + 1
             /\ nodes[n].type = 4 => Dad(n) = 0
  <2>1. nodes[n] \in NodeRec /\ n \in 1..Len(nodes)
    BY DEF Types
  <2> QED
    BY <2>1 DEF NodeRec, Levels, Hanging, Hangs, Dad
<1> DEFINE a1 == Dad(k)
           a2 == Dad(a1)
           a3 == Dad(a2)
           a4 == Dad(a3)
<1>2. /\ k \in DOMAIN nodes /\ nodes[k].type = 0
      /\ a1 \in DOMAIN nodes /\ nodes[a1].type = 1
  BY <1>1 DEF CpuNodes
<1>3. a2 \in DOMAIN nodes /\ nodes[a2].type = 2
  BY <1>1, <1>2
<1>4. a3 \in DOMAIN nodes /\ nodes[a3].type = 3
  BY <1>1, <1>3
<1>5. a4 \in DOMAIN nodes /\ nodes[a4].type = 4 /\ Dad(a4) = 0
  BY <1>1, <1>4
<1>6. Anc(k, 0) = k /\ Anc(k, 1) = a1 /\ Anc(k, 2) = a2 /\ Anc(k, 3) = a3 /\ Anc(k, 4) = a4
  BY DEF Anc
<1>7. T!Chain[k] = {k, a1, a2, a3, a4, 0}
  <2>1. Len(nodes) \in Nat /\ DOMAIN nodes = 1..Len(nodes)
    BY DEF Types
  <2>2. /\ \A n \in DOMAIN nodes : T!Up(n) = Dad(n)
        /\ T!Up(0) = -1
    <3>1. \A n \in DOMAIN nodes : n \in 0..Len(nodes) /\ n # 0 /\ n # -1
      BY <2>1
    <3>2. 0 \in 0..Len(nodes) /\ 0 # -1
      BY <2>1
    <3> QED
      BY <3>1, <3>2 DEF T!Up, Dad
  <2>3. k \in 0..Len(nodes)
    BY <1>2, <2>1
  <2> DEFINE U(n) == T!Up(n)
  <2>4. T!Chain[k] = {k, U(k), U(U(k)), U(U(U(k))), U(U(U(U(k)))), U(U(U(U(U(k)))))} \ {-1}
    BY <2>3, Zenon DEF T!Chain
  <2>5. U(k) = a1 /\ U(a1) = a2 /\ U(a2) = a3 /\ U(a3) = a4 /\ U(a4) = 0
    BY <1>2, <1>3, <1>4, <1>5, <2>2
  <2> HIDE DEF U, a1, a2, a3, a4
  <2>6. T!Chain[k] = {k, a1, a2, a3, a4, 0} \ {-1}
    BY <2>4, <2>5
  <2>7. -1 \notin {k, a1, a2, a3, a4, 0}
    BY <1>1, <1>2, <1>3, <1>4, <1>5
  <2> QED
    BY <2>6, <2>7
<1> HIDE DEF a1, a2, a3, a4
<1>8. ASSUME NEW t \in 0..4 PROVE t = 0 \/ t = 1 \/ t = 2 \/ t = 3 \/ t = 4
  OBVIOUS
<1>9. \A t \in 0..4 : Anc(k, t) \in DOMAIN nodes /\ nodes[Anc(k, t)].type = t
  BY <1>2, <1>3, <1>4, <1>5, <1>6, <1>8
<1>10. \A t \in 0..3 : Anc(k, t + 1) = Dad(Anc(k, t))
  <2>1. ASSUME NEW t \in 0..3 PROVE t = 0 \/ t = 1 \/ t = 2 \/ t = 3
    OBVIOUS
  <2>2. a1 = Dad(k) /\ a2 = Dad(a1) /\ a3 = Dad(a2) /\ a4 = Dad(a3)
    BY DEF a1, a2, a3, a4
  <2> QED
    BY <1>6, <2>1, <2>2
<1>11. \A n \in DOMAIN nodes : n \in T!Chain[k] <=> Anc(k, nodes[n].type) = n
  <2> TAKE n \in DOMAIN nodes
  <2>1. n # 0 /\ nodes[n].type \in 0..4
    BY <1>1
  <2>2. Anc(k, nodes[n].type) = n => n \in T!Chain[k]
    BY <1>6, <1>7, <1>8, <2>1
  <2>3. n \in T!Chain[k] => Anc(k, nodes[n].type) = n
    BY <1>2, <1>3, <1>4, <1>5, <1>6, <1>7, <2>1
  <2> QED
    BY <2>2, <2>3
<1> QED
  BY <1>9, <1>10, <1>11

LEMMA CpusUnder ==
    ASSUME Types, Hanging, NEW n \in DOMAIN nodes
    PROVE  CpuIds(n) = {nodes[k].id : k \in {l \in CpuNodes : Anc(l, nodes[n].type) = n}}
<1>1. Len(nodes) \in Nat /\ DOMAIN nodes = 1..Len(nodes)
  BY DEF Types
<1>2. T!Cpu = CpuNodes
  BY <1>1 DEF T!Cpu, CpuNodes, Kind
<1>3. T!Sub[n] = {m \in 0..Len(nodes) : n \in T!Chain[m]}
  BY <1>1 DEF T!Sub
<1>4. T!CpusOf[n] = T!Sub[n] \cap T!Cpu
  BY <1>1 DEF T!CpusOf
<1>5. CpuNodes \subseteq 0..Len(nodes)
  BY <1>1 DEF CpuNodes
<1>6. T!CpusOf[n] = {l \in CpuNodes : Anc(l, nodes[n].type) = n}
  BY <1>2, <1>3, <1>4, <1>5, Ancestors
<1> QED
  BY <1>6 DEF CpuIds

-----------------------------------------------------------------------------
(* The tree against the numbering *)

ExactTree == \A n \in DOMAIN nodes : CpuIds(n) = nodes[n].mask \cap Seen

\* What the tree that is built has, with nothing plugged: its nodes by their masks
BuiltPlaced ==
    /\ Types /\ Hanging /\ Seen \subseteq online \cap Bits
    /\ \A n \in DOMAIN nodes : \E d \in Seen : MadeBy(n, d)
    /\ \A n, m \in DOMAIN nodes :
         nodes[n].type = nodes[m].type /\ nodes[n].type # 0 /\ nodes[n].mask = nodes[m].mask => n = m
    /\ \A c \in Seen, t \in 1..4 : Present(t, c)

LEMMA PlacedBuilt == ASSUME BuildInv, PlacedInv, pc = "built", plugs = 0, InRange PROVE BuiltPlaced
<1>1. Types /\ Hanging /\ level = 5 /\ level \notin Levels
  BY DEF BuildInv, Types, Levels
<1>2. Placed /\ Made = Seen
  BY <1>1 DEF PlacedInv, Fits, Made
<1> QED
  BY <1>1, <1>2 DEF Placed, BuiltPlaced, InRange, Bits

\* The CPU nodes by what they are called and what they have for a mask
LEMMA CpuMask ==
    ASSUME BuiltPlaced, NEW k \in CpuNodes
    PROVE  /\ nodes[k].id \in Seen /\ nodes[k].mask = {nodes[k].id}
           /\ nodes[Dad(k)].mask = Mask(1, nodes[k].id)
<1>1. k \in DOMAIN nodes /\ nodes[k].type = 0 /\ nodes[k].id \in Seen
  BY DEF CpuNodes, Seen
<1>2. PICK d \in Seen : MadeBy(k, d)
  BY <1>1 DEF BuiltPlaced
<1>3. nodes[k].id = d /\ nodes[k].mask = Mask(0, d) /\ nodes[Dad(k)].mask = Mask(1, d)
  BY <1>1, <1>2 DEF MadeBy, Dad
<1>4. Mask(0, d) = {d}
  <2>1. d \in Bits
    BY DEF BuiltPlaced
  <2> QED
    BY <2>1 DEF Mask, InMask, Bits
<1> QED
  BY <1>1, <1>3, <1>4

\* What is alike at a level is alike at the next one
Coarser == \A t \in 1..3 : \A c, d \in Seen : Near(t, c, d) => Near(t + 1, c, d)

LEMMA RegularIs == Regular <=> Coarser
<1>1. /\ \A c, d : Near(1, c, d) <=> core[c] = core[d]
      /\ \A c, d : Near(2, c, d) <=> ClusterBlock(c) = ClusterBlock(d)
      /\ \A c, d : Near(3, c, d) <=> numa[c] = numa[d]
      /\ \A c, d : Near(4, c, d) <=> chip[c] = chip[d]
  BY DEF Near
<1>2. Coarser => Regular
  <2>1. ASSUME Coarser, NEW c \in Seen, NEW d \in Seen
        PROVE  /\ Near(1, c, d) => Near(2, c, d)
               /\ Near(2, c, d) => Near(3, c, d)
               /\ Near(3, c, d) => Near(4, c, d)
    <3>1. \A t \in {1, 2, 3} : Near(t, c, d) => Near(t + 1, c, d)
      BY <2>1 DEF Coarser
    <3>2. /\ Near(1, c, d) => Near(1 + 1, c, d)
          /\ Near(2, c, d) => Near(2 + 1, c, d)
          /\ Near(3, c, d) => Near(3 + 1, c, d)
      BY <3>1
    <3>3. 1 + 1 = 2 /\ 2 + 1 = 3 /\ 3 + 1 = 4
      OBVIOUS
    <3> QED
      BY <3>2, <3>3
  <2> QED
    BY <1>1, <2>1 DEF Regular
<1>3. ASSUME Regular, NEW t \in 1..3, NEW c \in Seen, NEW d \in Seen, Near(t, c, d)
      PROVE  Near(t + 1, c, d)
  <2>1. t = 1 \/ t = 2 \/ t = 3
    OBVIOUS
  <2> QED
    BY <1>1, <1>3, <2>1 DEF Regular
<1> QED
  BY <1>2, <1>3 DEF Coarser

\* With a regular numbering a CPU hangs under its own nodes
LEMMA OwnNodes ==
    ASSUME BuiltPlaced, Coarser, NEW k \in CpuNodes
    PROVE  \A t \in 1..4 : nodes[Anc(k, t)].mask = Mask(t, nodes[k].id)
<1> DEFINE c == nodes[k].id
           P(t) == nodes[Anc(k, t)].mask = Mask(t, c)
<1>1. c \in Seen /\ c \in online \cap Bits
  BY CpuMask DEF BuiltPlaced
<1>2. /\ \A t \in 0..4 : Anc(k, t) \in DOMAIN nodes /\ nodes[Anc(k, t)].type = t
      /\ \A t \in 0..3 : Anc(k, t + 1) = Dad(Anc(k, t))
  BY Ancestors DEF BuiltPlaced
<1>3. P(1)
  BY CpuMask DEF Anc
<1>4. ASSUME NEW t \in 1..3, P(t) PROVE P(t + 1)
  <2> DEFINE n == Anc(k, t)
  <2>1. n \in DOMAIN nodes /\ nodes[n].type = t /\ t # 4 /\ Anc(k, t + 1) = nodes[n].parent
    BY <1>2 DEF Dad
  <2>2. PICK d \in Seen : MadeBy(n, d)
    BY <2>1 DEF BuiltPlaced
  <2>3. nodes[n].mask = Mask(t, d) /\ nodes[nodes[n].parent].mask = Mask(t + 1, d)
    BY <2>1, <2>2 DEF MadeBy
  <2>4. d \in online \cap Bits /\ t \in 1..4 /\ t + 1 \in 1..4
    BY DEF BuiltPlaced
  <2>5. Near(t, c, d)
    BY <1>1, <1>4, <2>3, <2>4, MaskClass
  <2>6. Near(t + 1, c, d)
    BY <1>1, <2>5 DEF Coarser
  <2>7. Mask(t + 1, c) = Mask(t + 1, d)
    BY <1>1, <2>4, <2>6, MaskClass
  <2> QED
    BY <2>1, <2>3, <2>7
<1>5. P(2) /\ P(3) /\ P(4)
  <2> HIDE DEF P
  <2>1. P(1) => P(1 + 1)
    BY <1>4
  <2>2. P(2) => P(2 + 1)
    BY <1>4
  <2>3. P(3) => P(3 + 1)
    BY <1>4
  <2>4. 1 + 1 = 2 /\ 2 + 1 = 3 /\ 3 + 1 = 4
    OBVIOUS
  <2> QED
    BY <1>3, <2>1, <2>2, <2>3, <2>4
<1>6. \A t \in 1..4 : t = 1 \/ t = 2 \/ t = 3 \/ t = 4
  OBVIOUS
<1> QED
  BY <1>3, <1>5, <1>6

LEMMA RegularTree == ASSUME BuiltPlaced, Coarser PROVE ExactTree
<1> SUFFICES ASSUME NEW n \in DOMAIN nodes PROVE CpuIds(n) = nodes[n].mask \cap Seen
  BY DEF ExactTree
<1> DEFINE t == nodes[n].type
           Below == {l \in CpuNodes : Anc(l, t) = n}
<1>1. t \in 0..4 /\ CpuIds(n) = {nodes[k].id : k \in Below}
  <2>1. nodes[n] \in NodeRec
    BY DEF BuiltPlaced, Types
  <2> QED
    BY <2>1, CpusUnder DEF BuiltPlaced, NodeRec, Levels
<1>2. PICK e \in Seen : MadeBy(n, e)
  BY DEF BuiltPlaced
<1>3. nodes[n].mask = Mask(t, e)
  BY <1>2 DEF MadeBy
<1>4. CASE t = 0
  <2>1. n \in CpuNodes /\ Below = {n}
    BY <1>4 DEF CpuNodes, Anc
  <2> QED
    BY <1>1, <2>1, CpuMask
<1>5. CASE t # 0
  <2>1. t \in 1..4
    BY <1>1, <1>5
  <2>2. ASSUME NEW k \in CpuNodes PROVE Anc(k, t) = n <=> nodes[k].id \in nodes[n].mask
    <3> DEFINE c == nodes[k].id
    <3>1. c \in online \cap Bits /\ e \in online \cap Bits
      BY CpuMask DEF BuiltPlaced
    <3>2. Anc(k, t) \in DOMAIN nodes /\ nodes[Anc(k, t)].type = t
      BY <1>1, Ancestors DEF BuiltPlaced
    <3>3. nodes[Anc(k, t)].mask = Mask(t, c)
      BY <2>1, OwnNodes
    <3>4. Anc(k, t) = n <=> Mask(t, c) = Mask(t, e)
      BY <1>3, <1>5, <3>2, <3>3 DEF BuiltPlaced
    <3>5. Mask(t, c) = Mask(t, e) <=> c \in Mask(t, e)
      <4>1. Mask(t, e) = Mask(t, c) <=> Near(t, e, c)
        BY <2>1, <3>1, MaskClass
      <4>2. c \in Mask(t, e) <=> Near(t, e, c)
        BY <2>1, <3>1, MaskClass
      <4> QED
        BY <4>1, <4>2
    <3> QED
      BY <1>3, <3>4, <3>5
  <2>3. \A c \in Seen : \E k \in CpuNodes : nodes[k].id = c
    BY DEF Seen, CpuNodes
  <2>4. \A k \in CpuNodes : nodes[k].id \in Seen
    BY CpuMask
  <2> QED
    BY <1>1, <2>2, <2>3, <2>4
<1> QED
  BY <1>4, <1>5

LEMMA TreeRegular == ASSUME BuiltPlaced, ExactTree PROVE Coarser
<1> SUFFICES ASSUME NEW t \in 1..3, NEW c \in Seen, NEW d \in Seen, Near(t, c, d)
             PROVE  Near(t + 1, c, d)
  BY DEF Coarser
<1>1. c \in online \cap Bits /\ d \in online \cap Bits /\ t \in 1..4 /\ t + 1 \in 1..4 /\ t \in 0..3
  BY DEF BuiltPlaced
<1>2. PICK n \in DOMAIN nodes : nodes[n].type = t /\ nodes[n].mask = Mask(t, c)
  BY <1>1 DEF BuiltPlaced, Present
<1>3. c \in nodes[n].mask /\ d \in nodes[n].mask
  <2>1. Near(t, c, c)
    BY DEF Near
  <2> QED
    BY <1>1, <1>2, <2>1, MaskClass
<1>4. ASSUME NEW a \in {c, d} PROVE \E k \in CpuNodes : nodes[k].id = a /\ Anc(k, t) = n
  <2>1. a \in CpuIds(n)
    BY <1>3 DEF ExactTree
  <2> QED
    BY <1>2, <2>1, CpusUnder DEF BuiltPlaced
<1> DEFINE p == Dad(n)
<1>5. PICK k \in CpuNodes : nodes[k].id = c /\ Anc(k, t) = n
  BY <1>4
<1>6. PICK l \in CpuNodes : nodes[l].id = d /\ Anc(l, t) = n
  BY <1>4
<1>7. p = Anc(k, t + 1) /\ p = Anc(l, t + 1) /\ p \in DOMAIN nodes /\ nodes[p].type = t + 1
  <2>1. /\ Anc(k, t + 1) = Dad(Anc(k, t)) /\ Anc(l, t + 1) = Dad(Anc(l, t))
        /\ Anc(k, t + 1) \in DOMAIN nodes /\ nodes[Anc(k, t + 1)].type = t + 1
    BY <1>1, Ancestors DEF BuiltPlaced
  <2> QED
    BY <1>5, <1>6, <2>1
<1> HIDE DEF p
<1>8. c \in nodes[p].mask /\ d \in nodes[p].mask
  <2>1. c \in CpuIds(p) /\ d \in CpuIds(p)
    BY <1>5, <1>6, <1>7, CpusUnder DEF BuiltPlaced
  <2> QED
    BY <1>7, <2>1 DEF ExactTree
<1>9. PICK e \in Seen : MadeBy(p, e)
  BY <1>7 DEF BuiltPlaced
<1>10. nodes[p].mask = Mask(t + 1, e) /\ e \in online \cap Bits
  BY <1>7, <1>9 DEF MadeBy, BuiltPlaced
<1>11. Near(t + 1, e, c) /\ Near(t + 1, e, d)
  BY <1>1, <1>8, <1>10, MaskClass
<1> QED
  BY <1>11 DEF Near

\* With nothing plugged and all CPUs within a mask, each node's CPUs are those of its mask
\* exactly when the numbering is regular, for machines of any size and numbering
THEOREM RegularExactHolds == Spec => []RegularExact
<1>1. BuildInv /\ PlacedInv => RegularExact
  <2> SUFFICES ASSUME BuildInv, PlacedInv, pc = "built", plugs = 0, InRange
               PROVE  Regular <=> ExactTree
    BY DEF RegularExact, ExactTree
  <2> QED
    BY PlacedBuilt, RegularIs, RegularTree, TreeRegular
<1> QED
  BY <1>1, BuildInvariance, PlacedInvariance, PTL

-----------------------------------------------------------------------------
(* What the binding proofs assume of the loads' tree *)

\* The loop makes one node of each CPU
Numbered ==
    /\ \A k \in CpuNodes : nodes[k].id < cpu
    /\ \A k, l \in CpuNodes : nodes[k].id = nodes[l].id => k = l

LEMMA NumberedStep == ASSUME BuildInv, BuildInv', Numbered, [Next]_vars PROVE Numbered'
<1>1. cpu \in Nat /\ \A k \in CpuNodes : nodes[k].id \in Nat
  <2>1. \A k \in DOMAIN nodes : nodes[k] \in NodeRec
    BY DEF BuildInv, Types
  <2> QED
    BY <2>1, BuildAssumption DEF BuildInv, Types, CpuNodes, NodeRec, AllCpus
<1>2. CASE NewNode
  <2> DEFINE N == Len(nodes) + 1
  <2>1. /\ DOMAIN nodes' = 1..N /\ DOMAIN nodes = 1..Len(nodes) /\ Len(nodes) \in Nat
        /\ \A n \in DOMAIN nodes : nodes'[n] = nodes[n]
        /\ nodes'[N] = [type |-> level, id |-> Id(level, cpu), parent |-> cur,
                        mask |-> Mask(level, cpu)]
        /\ level \in Levels /\ Descend(N)
    BY <1>2, NewNodeFacts DEF BuildInv
  <2>2. N \in Nat /\ N \notin DOMAIN nodes /\ DOMAIN nodes' = DOMAIN nodes \cup {N}
    BY <2>1
  <2>3. Id(0, cpu) = cpu
    BY DEF Id
  <2> HIDE DEF N
  <2>4. /\ level = 0 => cpu' = cpu + 1
        /\ level # 0 => cpu' = cpu
    BY <2>1, <2>2, DescendFacts DEF BuildInv
  <2>5. \A k \in CpuNodes : k \in DOMAIN nodes /\ nodes'[k] = nodes[k]
    BY <2>1 DEF CpuNodes
  <2>6. CASE level = 0
    <3>1. CpuNodes' = CpuNodes \cup {N} /\ nodes'[N].id = cpu
      BY <2>1, <2>2, <2>3, <2>6 DEF CpuNodes
    <3>2. \A k \in CpuNodes' : k = N \/ nodes'[k].id < cpu
      BY <2>5, <3>1 DEF Numbered
    <3>3. \A k \in CpuNodes' : nodes'[k].id < cpu'
      BY <1>1, <2>4, <2>5, <2>6, <3>1, <3>2
    <3>4. \A k, l \in CpuNodes' : nodes'[k].id = nodes'[l].id => k = l
      BY <1>1, <2>5, <3>1, <3>2 DEF Numbered
    <3> QED
      BY <3>3, <3>4 DEF Numbered
  <2>7. CASE level # 0
    <3>1. nodes'[N].type # 0
      BY <2>1, <2>7
    <3>2. CpuNodes' = CpuNodes
      BY <2>1, <2>2, <3>1 DEF CpuNodes
    <3> QED
      BY <2>4, <2>5, <2>7, <3>2 DEF Numbered
  <2> QED
    BY <2>6, <2>7
<1>3. ASSUME UNCHANGED nodes, cpu' = cpu \/ cpu' = cpu + 1 PROVE Numbered'
  BY <1>1, <1>3 DEF Numbered, CpuNodes
<1>4. CASE OldNode
  <2>1. level \in Levels /\ UNCHANGED nodes
    BY <1>4 DEF OldNode, tree
  <2>2. cpu' = cpu \/ cpu' = cpu + 1
    BY <1>4 DEF OldNode, Descend
  <2> QED
    BY <1>3, <2>1, <2>2
<1>5. CASE SkipCpu \/ TakeCpu \/ ReadFails \/ Built \/ UNCHANGED vars
  BY <1>3, <1>5 DEF SkipCpu, TakeCpu, ReadFails, Built, vars, tree
<1>6. ASSUME NEW c \in AllCpus, Plug(c) PROVE Numbered'
  BY <1>3, <1>6 DEF Plug, tree
<1> QED
  BY <1>2, <1>4, <1>5, <1>6 DEF Next

LEMMA TreeCovers ==
    ASSUME BuiltPlaced, ExactTree, Numbered
    PROVE  T!MasksCover /\ T!CpusEverywhere
<1>1. Len(nodes) \in Nat /\ DOMAIN nodes = 1..Len(nodes)
  BY DEF BuiltPlaced, Types
<1>2. ASSUME NEW n \in 0..Len(nodes), Kind[n] < 4
      PROVE  n \in DOMAIN nodes /\ T!CpusOf[n] \subseteq CpuNodes
             /\ CpuIds(n) = {nodes[k].id : k \in T!CpusOf[n]}
  <2>1. n # 0
    BY <1>1, <1>2 DEF Kind
  <2>2. T!CpusOf[n] \subseteq T!Cpu
    BY <1>2 DEF T!CpusOf
  <2>3. T!Cpu = CpuNodes
    BY <1>1 DEF T!Cpu, CpuNodes, Kind
  <2> QED
    BY <1>1, <1>2, <2>1, <2>2, <2>3 DEF CpuIds
<1>3. ASSUME NEW n \in 0..Len(nodes), Kind[n] < 4
      PROVE  Cardinality(T!CpusOf[n]) <= Cardinality(MaskOf(n)) /\ T!CpusOf[n] # {}
  <2>1. n \in DOMAIN nodes /\ MaskOf(n) = nodes[n].mask /\ CpuIds(n) = nodes[n].mask \cap Seen
    BY <1>1, <1>2, <1>3 DEF MaskOf, ExactTree
  <2>2. IsFiniteSet(nodes[n].mask) /\ nodes[n].type \in 0..4
    <3>1. nodes[n] \in NodeRec
      BY <2>1 DEF BuiltPlaced, Types
    <3>2. IsFiniteSet(Bits)
      BY BuildAssumption, FS_Interval DEF Bits
    <3> QED
      BY <3>1, <3>2, FS_Subset DEF NodeRec, Levels
  <2> DEFINE f == [k \in T!CpusOf[n] |-> nodes[k].id]
  <2>3. f \in Injection(T!CpusOf[n], nodes[n].mask)
    <3>1. \A k \in T!CpusOf[n] : k \in CpuNodes /\ nodes[k].id \in nodes[n].mask
      BY <1>2, <1>3, <2>1
    <3> QED
      BY <3>1 DEF Numbered, Injection, IsInjective
  <2>4. Cardinality(T!CpusOf[n]) <= Cardinality(nodes[n].mask)
    BY <2>2, <2>3, FS_Injection
  <2>5. PICK d \in Seen : MadeBy(n, d)
    BY <2>1 DEF BuiltPlaced
  <2>6. d \in nodes[n].mask
    <3>1. d \in online \cap Bits /\ nodes[n].mask = Mask(nodes[n].type, d)
      BY <2>5 DEF BuiltPlaced, MadeBy
    <3>2. CASE nodes[n].type = 0
      BY <3>1, <3>2 DEF Mask, InMask, Bits
    <3>3. CASE nodes[n].type # 0
      <4>1. nodes[n].type \in 1..4 /\ Near(nodes[n].type, d, d)
        BY <2>2, <3>3 DEF Near
      <4> QED
        BY <3>1, <4>1, MaskClass
    <3> QED
      BY <3>2, <3>3
  <2>7. d \in CpuIds(n)
    BY <2>1, <2>5, <2>6
  <2> QED
    BY <1>2, <1>3, <2>1, <2>4, <2>7
<1>4. \A S : T!Cardinality(S) = Cardinality(S)
  BY DEF T!Cardinality, Cardinality
<1>5. \A n \in 0..Len(nodes) : Kind[n] \in 0..5
  <2>1. \A n \in DOMAIN nodes : nodes[n] \in NodeRec
    BY DEF BuiltPlaced, Types
  <2> QED
    BY <1>1, <2>1 DEF Kind, NodeRec, Levels
<1> QED
  BY <1>1, <1>3, <1>4, <1>5 DEF T!MasksCover, T!CpusEverywhere

\* What the proofs of NoOvershoot and MigrationTargetExists assume of the machine holds of
\* every tree that InitTopo builds of a regular numbering, with nothing plugged meanwhile and
\* all CPUs within a mask
THEOREM RegularTreeCovers ==
    Spec => [](pc = "built" /\ plugs = 0 /\ InRange /\ Regular => T!MasksCover /\ T!CpusEverywhere)
<1>1. Init => Numbered
  BY DEF Init, Numbered, CpuNodes
<1>2. BuildInv /\ BuildInv' /\ Numbered /\ [Next]_vars => Numbered'
  BY NumberedStep
<1>3. BuildInv /\ PlacedInv /\ Numbered =>
        (pc = "built" /\ plugs = 0 /\ InRange /\ Regular => T!MasksCover /\ T!CpusEverywhere)
  BY PlacedBuilt, RegularIs, RegularTree, TreeCovers
<1> QED
  BY <1>1, <1>2, <1>3, BuildInvariance, PlacedInvariance, PTL DEF Spec

=============================================================================
