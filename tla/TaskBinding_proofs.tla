------------------------- MODULE TaskBinding_proofs -------------------------
(***************************************************************************)
(* What TaskBinding promises for every machine InitTopo can build, every   *)
(* workload and every sequence of refusals, exits and switch settings.     *)
(***************************************************************************)
EXTENDS TaskBindingProps, Sums_proofs, SequenceTheorems

USE DEF TreeShape

(***************************************************************************)
(* The topology tree: facts that hold for every tree InitTopo builds.      *)
(***************************************************************************)

\* A node's parent is one level up; the root has none.
LEMMA UpFacts ==
    ASSUME NEW n \in Node
    PROVE  /\ n # NoNode
           /\ TypeOf[n] \in 0..5
           /\ TypeOf[n] = 5 => Up(n) = NoNode
           /\ TypeOf[n] # 5 => Up(n) \in Node /\ TypeOf[Up(n)] = TypeOf[n] + 1
BY TopologyAssumption DEF Up, TypeCPU, TypeAll

\* A node's chain is the node and its parent's chain.
LEMMA ChainStep ==
    ASSUME NEW n \in Node
    PROVE  /\ TypeOf[n] = 5 => Chain[n] = {n}
           /\ TypeOf[n] # 5 => Chain[n] = {n} \cup Chain[Up(n)]
<1> DEFINE n1 == Up(n)  n2 == Up(n1)  n3 == Up(n2)  n4 == Up(n3)  n5 == Up(n4)  n6 == Up(n5)
<1>1. Chain[n] = {n, n1, n2, n3, n4, n5} \ {NoNode}
  BY DEF Chain
<1>2. n1 \in Node => Chain[n1] = {n1, n2, n3, n4, n5, n6} \ {NoNode}
  BY DEF Chain
<1>3. Up(NoNode) = NoNode
  BY DEF Up
<1>4. CASE TypeOf[n] = 5
  <2>1. n1 = NoNode /\ n2 = NoNode /\ n3 = NoNode /\ n4 = NoNode /\ n5 = NoNode
    BY <1>3, <1>4, UpFacts
  <2> HIDE DEF n1, n2, n3, n4, n5, n6
  <2> QED BY <1>1, <1>4, <2>1, UpFacts
<1>5. CASE TypeOf[n] # 5
  <2>1. n1 \in Node /\ TypeOf[n1] = TypeOf[n] + 1
    BY <1>5, UpFacts
  <2>2. n6 = NoNode
    <3>1. n2 = NoNode \/ (n2 \in Node /\ TypeOf[n2] = TypeOf[n] + 2)
      BY <2>1, UpFacts
    <3>2. n3 = NoNode \/ (n3 \in Node /\ TypeOf[n3] = TypeOf[n] + 3)
      BY <1>3, <3>1, UpFacts
    <3>3. n4 = NoNode \/ (n4 \in Node /\ TypeOf[n4] = TypeOf[n] + 4)
      BY <1>3, <3>2, UpFacts
    <3>4. n5 = NoNode \/ (n5 \in Node /\ TypeOf[n5] = TypeOf[n] + 5)
      BY <1>3, <3>3, UpFacts
    <3> HIDE DEF n5
    <3> QED BY <1>3, <3>4, UpFacts
  <2> HIDE DEF n1, n2, n3, n4, n5, n6
  <2>3. Chain[n] = {n} \cup Chain[n1]
    BY <1>1, <1>2, <2>1, <2>2, UpFacts
  <2> QED BY <1>5, <2>3 DEF n1
<1> QED BY <1>4, <1>5

\* What is proved of chains, for the nodes of a level and then for those below it.
ChainFacts(n) ==
    /\ n \in Chain[n]
    /\ Chain[n] \subseteq Node
    /\ \A p \in Chain[n] : TypeOf[p] >= TypeOf[n]
    /\ \A p, q \in Chain[n] : TypeOf[p] = TypeOf[q] => p = q
    /\ \A t \in TypeOf[n]..5 : \E p \in Chain[n] : TypeOf[p] = t
    /\ \A p \in Chain[n] : Chain[p] \subseteq Chain[n]

\* A level's chains have these facts when the next level's have them.
LEMMA ChainFactsDown ==
    ASSUME NEW n \in Node, TypeOf[n] # 5, ChainFacts(Up(n))
    PROVE  ChainFacts(n)
<1> DEFINE m == Up(n)
<1>1. m \in Node /\ TypeOf[m] = TypeOf[n] + 1 /\ TypeOf[n] \in 0..5
  BY UpFacts
<1>2. Chain[n] = {n} \cup Chain[m]
  BY ChainStep
<1>3. ChainFacts(m)
  OBVIOUS
<1> HIDE DEF m
<1>4. n \in Chain[n] /\ Chain[n] \subseteq Node
  BY <1>2, <1>3 DEF ChainFacts
<1>5. \A p \in Chain[m] : TypeOf[p] >= TypeOf[n] + 1 /\ TypeOf[p] \in 0..5
  BY <1>1, <1>3, UpFacts DEF ChainFacts
<1>6. \A p \in Chain[n] : TypeOf[p] >= TypeOf[n]
  BY <1>1, <1>2, <1>5
<1>7. \A p, q \in Chain[n] : TypeOf[p] = TypeOf[q] => p = q
  BY <1>1, <1>2, <1>3, <1>5 DEF ChainFacts
<1>8. \A t \in TypeOf[n]..5 : \E p \in Chain[n] : TypeOf[p] = t
  <2> SUFFICES ASSUME NEW t \in TypeOf[n]..5
               PROVE  \E p \in Chain[n] : TypeOf[p] = t
    OBVIOUS
  <2>1. CASE t = TypeOf[n]
    BY <1>4, <2>1
  <2>2. CASE t # TypeOf[n]
    <3>1. t \in TypeOf[m]..5
      BY <1>1, <2>2
    <3> QED BY <1>2, <1>3, <3>1 DEF ChainFacts
  <2> QED BY <2>1, <2>2
<1>9. \A p \in Chain[n] : Chain[p] \subseteq Chain[n]
  BY <1>2, <1>3 DEF ChainFacts
<1> QED BY <1>4, <1>6, <1>7, <1>8, <1>9 DEF ChainFacts

\* Every node's chain holds nodes only, at most one of each level and one of each
\* level from its own up, and the chains of its members.
LEMMA Chains == \A n \in Node : ChainFacts(n)
<1>5. \A n \in Node : TypeOf[n] = 5 => ChainFacts(n)
  BY ChainStep, UpFacts DEF ChainFacts
<1>4. \A n \in Node : TypeOf[n] = 4 => ChainFacts(n)
  BY <1>5, ChainFactsDown, UpFacts
<1>3. \A n \in Node : TypeOf[n] = 3 => ChainFacts(n)
  BY <1>4, ChainFactsDown, UpFacts
<1>2. \A n \in Node : TypeOf[n] = 2 => ChainFacts(n)
  BY <1>3, ChainFactsDown, UpFacts
<1>1. \A n \in Node : TypeOf[n] = 1 => ChainFacts(n)
  BY <1>2, ChainFactsDown, UpFacts
<1>0. \A n \in Node : TypeOf[n] = 0 => ChainFacts(n)
  BY <1>1, ChainFactsDown, UpFacts
<1> QED BY <1>0, <1>1, <1>2, <1>3, <1>4, <1>5, UpFacts

\* Parent(t) of a node at or below level t is the node of that level on its chain.
LEMMA ParentOfTypeFacts ==
    ASSUME NEW n \in Node, NEW t \in TypeOf[n]..5
    PROVE  /\ ParentOfType(n, t) \in Chain[n] /\ ParentOfType(n, t) \in Node
           /\ TypeOf[ParentOfType(n, t)] = t
           /\ \A p \in Chain[n] : TypeOf[p] = t => p = ParentOfType(n, t)
<1>1. ChainFacts(n)
  BY Chains
<1>2. \E p \in Chain[n] : TypeOf[p] = t
  BY <1>1 DEF ChainFacts
<1>3. ParentOfType(n, t) \in Chain[n] /\ TypeOf[ParentOfType(n, t)] = t
  BY <1>2 DEF ParentOfType
<1> QED BY <1>1, <1>3 DEF ChainFacts

\* A node and its descendants have the same ancestor at any level at or above it.
LEMMA SameParent ==
    ASSUME NEW n \in Node, NEW m \in Sub[n], NEW t \in TypeOf[n]..5
    PROVE  m \in Node /\ ParentOfType(m, t) = ParentOfType(n, t)
<1>1. m \in Node /\ n \in Chain[m]
  BY DEF Sub
<1>2. ChainFacts(m) /\ ChainFacts(n)
  BY <1>1, Chains
<1>3. TypeOf[m] \in 0..5 /\ TypeOf[n] \in 0..5 /\ TypeOf[m] <= TypeOf[n]
  BY <1>1, <1>2, UpFacts DEF ChainFacts
<1>4. t \in TypeOf[m]..5
  BY <1>3
<1>5. ParentOfType(n, t) \in Chain[m] /\ TypeOf[ParentOfType(n, t)] = t
  BY <1>1, <1>2, ParentOfTypeFacts DEF ChainFacts
<1> QED BY <1>1, <1>4, <1>5, ParentOfTypeFacts

\* A node is below itself, and what is below it are nodes.
LEMMA SubFacts ==
    ASSUME NEW n \in Node
    PROVE  n \in Sub[n] /\ Sub[n] \subseteq Node
BY Chains DEF Sub, ChainFacts

\* The searches answer nodes of the asked type below the one they start from.
LEMMA BindSearchFacts ==
    ASSUME NEW n \in Node, NEW t, NEW binds, NEW m \in SelectLighterBindNode(n, t, binds)
    PROVE  m \in Sub[n] /\ TypeOf[m] = t
BY DEF SelectLighterBindNode, OfType

LEMMA LoadSearchFacts ==
    ASSUME NEW n \in Node, NEW t, NEW weights, NEW binds,
           NEW m \in SelectLighterLoadNode(n, t, weights, binds)
    PROVE  m \in Sub[n] /\ TypeOf[m] = t
BY DEF SelectLighterLoadNode, Lightest, OfType

LEMMA NumaSearchFacts ==
    ASSUME NEW weights, NEW binds
    PROVE  SelectNumaNode(weights, binds) \subseteq Numa
BY DEF SelectNumaNode, Lightest

(***************************************************************************)
(* The strengthening: what the loop variables mean at each point of a pass.*)
(***************************************************************************)

\* The groups still to balance exist, and so does the one that migrates, whose
\* tasks still to move are its own; source and target are under one NUMA node.
\* If the daemon died in a migration, its tasks are under that one at least.
BalanceInv ==
    /\ pc \in {"balance", "migrate"} => todoGroups \subseteq Groups
    /\ pc = "migrate" =>
          /\ curGroup \in Groups /\ curNode \in Node
          /\ todoTids \subseteq grpTasks[curGroup]
          /\ TypeOf[grpNode[curGroup]] < TypeNUMA /\ TypeOf[curNode] < TypeNUMA
          /\ NumaOf(curNode) = NumaOf(grpNode[curGroup])
    /\ pc = "panic" => \A t \in Bound : NumaOf(taskNode[t]) = NumaOf(grpNode[taskGroup[t]])

\* The group of the binding loop is known and its target is a NUMA node or nil; the
\* tasks the last loop looks at are bound.
BindInv ==
    /\ pc = "bind" => curGroup \in Name /\ curNode \in Numa \cup {NoNode}
    /\ pc = "reap" => todoTids \subseteq Bound

\* A group is on a NUMA node or below one.
GroupLevel == \A g \in Groups : TypeOf[grpNode[g]] <= TypeNUMA

Inv ==
    /\ TypeOK /\ Bookkeeping /\ RetryNamesBound /\ TaskUnderGroup
    /\ BalanceInv /\ BindInv /\ GroupLevel

(***************************************************************************)
(* Lemmas on the operators.                                                *)
(***************************************************************************)

\* Removing a task's element leaves a list that names the other tasks only.
LEMMA DropRetryFacts ==
    ASSUME retryTasks \in Seq(Tids \cup {Stale}), NEW t \in Tids
    PROVE  /\ DropRetry(t) \in Seq(Tids \cup {Stale})
           /\ \A i \in DOMAIN DropRetry(t) :
                 \/ DropRetry(t)[i] = Stale
                 \/ /\ DropRetry(t)[i] # t
                    /\ \E j \in DOMAIN retryTasks : DropRetry(t)[i] = retryTasks[j]
<1>1. CASE Positions(t) = {}
  BY <1>1 DEF DropRetry, Positions
<1>2. CASE Positions(t) # {}
  <2> DEFINE at(i) == IF i < LastPosition(t) THEN i ELSE i + 1
             D == [i \in 1..(Len(retryTasks) - 1) |->
                      IF retryTasks[at(i)] = t THEN Stale ELSE retryTasks[at(i)]]
  <2>1. DropRetry(t) = D
    BY <1>2 DEF DropRetry
  <2>2. Len(retryTasks) \in Nat /\ DOMAIN retryTasks = 1..Len(retryTasks)
    OBVIOUS
  <2>3. \A i \in 1..(Len(retryTasks) - 1) : at(i) \in DOMAIN retryTasks
    BY <2>2
  <2>4. \A i \in DOMAIN retryTasks : retryTasks[i] \in Tids \cup {Stale}
    BY <2>2
  <2>5. Len(retryTasks) - 1 \in Nat
    BY <1>2, <2>2 DEF Positions
  <2> HIDE DEF at
  <2>6. D \in Seq(Tids \cup {Stale})
    BY <2>3, <2>4, <2>5
  <2>7. \A i \in DOMAIN D : D[i] = Stale \/ (D[i] # t /\ \E j \in DOMAIN retryTasks : D[i] = retryTasks[j])
    BY <2>3
  <2> HIDE DEF D
  <2> QED BY <2>1, <2>6, <2>7
<1> QED BY <1>1, <1>2

\* After unbindAllTasks only elements of unbound tasks are left on the list.
LEMMA DropAllFacts ==
    ASSUME retryTasks \in Seq(Tids \cup {Stale})
    PROVE  /\ DropAllRetries \in Seq(Tids \cup {Stale})
           /\ \A i \in DOMAIN DropAllRetries : DropAllRetries[i] = Stale
<1> DEFINE left == {j \in DOMAIN retryTasks : retryTasks[j] = Stale
                       \/ j # LastPosition(retryTasks[j])}
<1>1. IsFiniteSet(DOMAIN retryTasks)
  BY FS_Interval
<1>2. IsFiniteSet(left)
  BY <1>1, FS_Subset
<1>3. Cardinality(left) \in Nat
  BY <1>2, FS_CardinalityType
<1>4. DropAllRetries = [i \in 1..Cardinality(left) |-> Stale]
  BY DEF DropAllRetries
<1> HIDE DEF left
<1> QED BY <1>3, <1>4

\* A group's target, when there is one, is below the same NUMA node.
LEMMA GroupTargetFacts ==
    ASSUME NEW g, grpNode[g] \in Node, NEW dst \in GroupTarget(g)
    PROVE  /\ dst \in Node
           /\ TypeOf[grpNode[g]] < TypeNUMA /\ TypeOf[dst] = TypeOf[grpNode[g]]
           /\ NumaOf(dst) = NumaOf(grpNode[g])
<1> DEFINE src == grpNode[g]
           top == ParentOfType(src, TypeNUMA)
<1>1. TypeOf[src] \in 0..5 /\ TypeOf[src] < TypeNUMA
  BY UpFacts DEF GroupTarget, TypeNUMA
<1>2. dst \in SelectLighterLoadNode(top, TypeOf[src], load, bindCount)
  BY <1>1 DEF GroupTarget
<1>3. TypeNUMA \in TypeOf[src]..5
  BY <1>1 DEF TypeNUMA
<1>4. top \in Node /\ TypeOf[top] = TypeNUMA /\ top \in Chain[src]
  BY <1>3, ParentOfTypeFacts
<1>5. dst \in Sub[top] /\ TypeOf[dst] = TypeOf[src]
  BY <1>2, <1>4, LoadSearchFacts
<1>6. src \in Sub[top]
  BY <1>4 DEF Sub
<1>7. TypeNUMA \in TypeOf[top]..5
  BY <1>4 DEF TypeNUMA
<1>8. dst \in Node /\ NumaOf(dst) = NumaOf(top)
  BY <1>4, <1>5, <1>7, SameParent DEF NumaOf
<1>9. NumaOf(src) = NumaOf(top)
  BY <1>4, <1>6, <1>7, SameParent DEF NumaOf
<1> QED BY <1>1, <1>5, <1>8, <1>9

(***************************************************************************)
(* Groups of steps that keep most of the invariant.                        *)
(***************************************************************************)

\* Steps that leave the tables and the retry list alone keep what is said of them.
LEMMA TablesKept ==
    ASSUME Inv, UNCHANGED <<tables, retryTasks>>
    PROVE  /\ Bookkeeping' /\ RetryNamesBound' /\ GroupLevel'
           /\ Bound' = Bound /\ Groups' = Groups
<1>1. Bound' = Bound /\ Groups' = Groups
  BY DEF tables, Bound, Groups
<1>2. Bookkeeping'
  BY <1>1 DEF Inv, Bookkeeping, tables
<1>3. RetryNamesBound'
  BY <1>1 DEF Inv, RetryNamesBound
<1>4. GroupLevel'
  BY <1>1 DEF Inv, GroupLevel, tables
<1> QED BY <1>1, <1>2, <1>3, <1>4

\* Outside a migration a task's home is its group's node.
LEMMA HomeKept ==
    ASSUME Inv, UNCHANGED tables, pc \notin {"migrate", "panic"}, pc' # "migrate"
    PROVE  TaskUnderGroup'
BY DEF Inv, TaskUnderGroup, HomeOf, Bound, tables

\* A task is under its group's NUMA node, during a migration too.
LEMMA Together ==
    ASSUME Inv, NEW t \in Bound
    PROVE  NumaOf(taskNode[t]) = NumaOf(grpNode[taskGroup[t]])
<1> DEFINE g == taskGroup[t]
<1>1. /\ g \in Groups /\ grpNode[g] \in Node /\ TypeOf[grpNode[g]] <= TypeNUMA
  BY DEF Inv, TypeOK, Bookkeeping, GroupLevel, Groups, Bound
<1>2. CASE pc = "panic"
  BY <1>2 DEF Inv, BalanceInv
<1>3. CASE pc # "panic"
  <2>1. taskNode[t] \in Sub[HomeOf(t)]
    BY <1>3 DEF Inv, TaskUnderGroup
  <2>2. /\ HomeOf(t) \in Node /\ TypeOf[HomeOf(t)] <= TypeNUMA
        /\ NumaOf(HomeOf(t)) = NumaOf(grpNode[g])
    <3>1. CASE HomeOf(t) = grpNode[g]
      BY <1>1, <3>1
    <3>2. CASE HomeOf(t) = curNode /\ pc = "migrate" /\ g = curGroup
      BY <3>2, UpFacts DEF Inv, BalanceInv, TypeNUMA
    <3> QED BY <3>1, <3>2 DEF HomeOf
  <2>3. TypeNUMA \in TypeOf[HomeOf(t)]..5
    BY <2>2, UpFacts DEF TypeNUMA
  <2>4. NumaOf(taskNode[t]) = NumaOf(HomeOf(t))
    BY <2>1, <2>2, <2>3, SameParent DEF NumaOf
  <2> QED BY <2>2, <2>4
<1> QED BY <1>2, <1>3

\* UnbindTaskPolicy of a bound task, outside a migration: every table forgets the
\* task, and an emptied group goes with it.
LEMMA UnbindFacts ==
    ASSUME Inv, NEW t \in Bound, UnbindTask(t), pc \notin {"migrate", "panic"}, pc' # "migrate"
    PROVE  /\ taskGroup' \in [Tids -> Name \cup {NoName}]
           /\ taskNode' \in [Tids -> Node \cup {NoNode}]
           /\ grpNode' \in [Name -> Node \cup {NoNode}]
           /\ grpTasks' \in [Name -> SUBSET Tids]
           /\ attach' \in [Node -> SUBSET Tids]
           /\ bindCount' \in [Node -> Int]
           /\ monitored' \in SUBSET Tids
           /\ retryTasks' \in Seq(Tids \cup {Stale})
           /\ Bookkeeping' /\ RetryNamesBound' /\ GroupLevel' /\ TaskUnderGroup'
           /\ Bound' = Bound \ {t}
<1> DEFINE g == taskGroup[t]
           n == taskNode[t]
<1>1. t \in Tids /\ g \in Name /\ n \in Node /\ NoNode \notin Node /\ NoName \notin Name
  BY TopologyAssumption, BindingAssumption DEF Inv, TypeOK, Bookkeeping, Bound
<1>2. /\ taskGroup' = [taskGroup EXCEPT ![t] = NoName]
      /\ taskNode' = [taskNode EXCEPT ![t] = NoNode]
      /\ grpTasks' = [grpTasks EXCEPT ![g] = @ \ {t}]
      /\ grpNode' = IF grpTasks[g] = {t} THEN [grpNode EXCEPT ![g] = NoNode] ELSE grpNode
      /\ attach' = [attach EXCEPT ![n] = @ \ {t}]
      /\ bindCount' = [bindCount EXCEPT ![n] = @ + (-1)]
      /\ retryTasks' = DropRetry(t)
      /\ monitored' = monitored \ {t}
  BY DEF UnbindTask, Plus
<1>3. TypeOK
  BY DEF Inv
<1> HIDE DEF g, n
<1>4. /\ taskGroup' \in [Tids -> Name \cup {NoName}]
      /\ taskNode' \in [Tids -> Node \cup {NoNode}]
      /\ grpNode' \in [Name -> Node \cup {NoNode}]
      /\ grpTasks' \in [Name -> SUBSET Tids]
      /\ attach' \in [Node -> SUBSET Tids]
      /\ bindCount' \in [Node -> Int]
      /\ monitored' \in SUBSET Tids
  BY <1>1, <1>2, <1>3 DEF TypeOK
<1>5. Bound' = Bound \ {t}
  BY <1>1, <1>2, <1>3 DEF Bound, TypeOK
<1>6. Bookkeeping'
  <2>1. Bookkeeping
    BY DEF Inv
  <2>2. \A u \in Tids : taskGroup'[u] = NoName <=> taskNode'[u] = NoNode
    BY <1>1, <1>2, <1>3, <2>1 DEF TypeOK, Bookkeeping
  <2>3. \A u \in Tids, h \in Name : u \in grpTasks'[h] <=> taskGroup'[u] = h
    BY <1>1, <1>2, <1>3, <2>1 DEF TypeOK, Bookkeeping, g
  <2>4. \A u \in Tids, m \in Node : u \in attach'[m] <=> taskNode'[u] = m
    BY <1>1, <1>2, <1>3, <2>1 DEF TypeOK, Bookkeeping, n
  <2>5. \A u \in Bound' : grpNode'[taskGroup'[u]] # NoNode
    <3> SUFFICES ASSUME NEW u \in Bound \ {t}
                 PROVE  grpNode'[taskGroup'[u]] # NoNode
      BY <1>5
    <3>1. u \in Tids /\ taskGroup'[u] = taskGroup[u] /\ taskGroup[u] \in Name
      BY <1>1, <1>2, <1>3 DEF Bound, TypeOK
    <3>2. u \in grpTasks[taskGroup[u]] /\ grpNode[taskGroup[u]] # NoNode
      BY <2>1, <3>1 DEF Bookkeeping
    <3>3. taskGroup[u] = g => grpTasks[g] # {t}
      BY <3>2
    <3> QED BY <1>1, <1>2, <1>3, <3>1, <3>2, <3>3 DEF TypeOK
  <2>6. monitored' = Bound'
    BY <1>2, <1>5, <2>1 DEF Bookkeeping
  <2> QED BY <2>2, <2>3, <2>4, <2>5, <2>6 DEF Bookkeeping
<1>7. retryTasks' \in Seq(Tids \cup {Stale}) /\ RetryNamesBound'
  <2>1. retryTasks \in Seq(Tids \cup {Stale})
    BY <1>3 DEF TypeOK
  <2>2. \A i \in DOMAIN retryTasks : retryTasks[i] \in Bound \cup {Stale}
    BY DEF Inv, RetryNamesBound
  <2>3. \A i \in DOMAIN DropRetry(t) : DropRetry(t)[i] \in (Bound \ {t}) \cup {Stale}
    BY <1>1, <2>1, <2>2, DropRetryFacts
  <2> QED BY <1>1, <1>2, <1>5, <2>1, <2>3, DropRetryFacts DEF RetryNamesBound
<1>8. GroupLevel'
  BY <1>1, <1>2, <1>3 DEF Inv, GroupLevel, Groups, TypeOK
<1>9. TaskUnderGroup'
  <2> SUFFICES ASSUME NEW u \in Bound \ {t}
               PROVE  taskNode'[u] \in Sub[grpNode'[taskGroup'[u]]]
    BY <1>5 DEF TaskUnderGroup, HomeOf
  <2>1. u \in Tids /\ taskGroup'[u] = taskGroup[u] /\ taskNode'[u] = taskNode[u]
        /\ taskGroup[u] \in Name
    BY <1>1, <1>2, <1>3 DEF Bound, TypeOK
  <2>2. u \in grpTasks[taskGroup[u]]
    BY <2>1 DEF Inv, Bookkeeping
  <2>3. grpNode'[taskGroup[u]] = grpNode[taskGroup[u]]
    BY <1>1, <1>2, <1>3, <2>1, <2>2 DEF TypeOK
  <2>4. taskNode[u] \in Sub[grpNode[taskGroup[u]]]
    BY DEF Inv, TaskUnderGroup, HomeOf
  <2> QED BY <2>1, <2>3, <2>4
<1> QED BY <1>4, <1>5, <1>6, <1>7, <1>8, <1>9

(***************************************************************************)
(* The invariant holds initially and every step keeps it.                  *)
(***************************************************************************)

LEMMA InitInv == ASSUME Init PROVE Inv
<1>1. Bound = {} /\ Groups = {}
  BY DEF Init, Bound, Groups
<1>2. TypeOK
  BY BindingAssumption DEF Init, TypeOK, PassPoints
<1>3. Bookkeeping
  BY <1>1, TopologyAssumption, BindingAssumption DEF Init, Bookkeeping
<1>4. RetryNamesBound /\ TaskUnderGroup /\ BalanceInv /\ BindInv /\ GroupLevel
  BY <1>1 DEF Init, RetryNamesBound, TaskUnderGroup, BalanceInv, BindInv, GroupLevel
<1> QED BY <1>2, <1>3, <1>4 DEF Inv

\* Threads come and go without the daemon noticing.
LEMMA ThreadsInv == ASSUME Inv, Threads PROVE Inv'
<1>1. PICK t \in Tids : Spawn(t) \/ Exit(t)
  BY DEF Threads
<1>2. UNCHANGED <<tables, retryTasks>> /\ UNCHANGED <<conf, pc, loops>>
  BY <1>1 DEF Spawn, Exit
<1>3. TypeOK'
  <2>1. events' \in 0..MaxEvents
    BY <1>1, BindingAssumption DEF Spawn, Exit, Spend, Inv, TypeOK
  <2>2. life' \in [Tids -> {"new", "alive", "dead"}]
    BY <1>1 DEF Spawn, Exit, Inv, TypeOK
  <2>3. affinity' \in [Tids -> Node \cup {NoNode}]
    BY <1>1 DEF Spawn, Exit, Inv, TypeOK
  <2> QED BY <1>2, <2>1, <2>2, <2>3 DEF Inv, TypeOK, tables, loops
<1>4. TaskUnderGroup'
  BY <1>2 DEF Inv, TaskUnderGroup, HomeOf, Bound, tables, loops
<1>5. BalanceInv' /\ BindInv'
  BY <1>2, TablesKept DEF Inv, BalanceInv, BindInv, tables, loops
<1> QED BY <1>2, <1>3, <1>4, <1>5, TablesKept DEF Inv

LEMMA TickInv == ASSUME Inv, Tick PROVE Inv'
<1>1. PICK c \in Confs, m \in Measurements : StartPass(c, m)
  BY DEF Tick
<1>2. UNCHANGED <<tables, retryTasks>> /\ pc = "idle" /\ pc' = "balance"
  BY <1>1 DEF StartPass
<1>3. todoGroups' \subseteq Groups
  BY <1>1 DEF StartPass
<1>4. TypeOK'
  BY <1>1, <1>3 DEF StartPass, Inv, TypeOK, PassPoints, tables, env, Groups
<1>5. BalanceInv' /\ BindInv'
  BY <1>2, <1>3, TablesKept DEF BalanceInv, BindInv
<1> QED BY <1>2, <1>4, <1>5, TablesKept, HomeKept DEF Inv

\* A panic changes nothing but where the pass is.
LEMMA PanicInv == ASSUME Inv, Panic PROVE Inv'
<1>1. UNCHANGED <<tables, retryTasks>> /\ pc' = "panic"
  BY DEF Panic
<1>2. TypeOK'
  BY DEF Panic, Inv, TypeOK, PassPoints, tables, loops, env
<1>3. TaskUnderGroup' /\ BindInv'
  BY <1>1 DEF TaskUnderGroup, BindInv
<1>4. BalanceInv'
  BY <1>1, TablesKept, Together DEF BalanceInv, NumaOf, tables
<1> QED BY <1>1, <1>2, <1>3, <1>4, TablesKept DEF Inv

LEMMA KeepGroupInv == ASSUME Inv, NEW g \in Name, KeepGroup(g) PROVE Inv'
<1>1. UNCHANGED <<tables, retryTasks>> /\ pc = "balance" /\ pc' = "balance"
  BY DEF KeepGroup
<1>2. todoGroups' = todoGroups \ {g}
  BY DEF KeepGroup
<1>3. TypeOK'
  BY <1>2 DEF KeepGroup, Inv, TypeOK, tables, env
<1>4. BalanceInv' /\ BindInv'
  BY <1>1, <1>2, TablesKept DEF Inv, BalanceInv, BindInv
<1> QED BY <1>1, <1>3, <1>4, TablesKept, HomeKept DEF Inv

LEMMA BeginMigrateInv == ASSUME Inv, NEW g \in Name, BeginMigrate(g) PROVE Inv'
<1>1. UNCHANGED <<tables, retryTasks>> /\ pc = "balance" /\ pc' = "migrate"
  BY DEF BeginMigrate
<1>2. todoGroups' = todoGroups \ {g} /\ todoTids' = grpTasks[g] /\ curGroup' = g
  BY DEF BeginMigrate
<1>3. g \in Groups /\ grpNode[g] \in Node
  BY DEF BeginMigrate, Inv, BalanceInv, Groups, TypeOK
<1>4. curNode' \in GroupTarget(g)
  BY DEF BeginMigrate
<1>5. /\ curNode' \in Node
      /\ TypeOf[grpNode[g]] < TypeNUMA /\ TypeOf[curNode'] = TypeOf[grpNode[g]]
      /\ NumaOf(curNode') = NumaOf(grpNode[g])
  BY <1>3, <1>4, GroupTargetFacts
<1>6. TypeOK'
  BY <1>2, <1>5 DEF BeginMigrate, Inv, TypeOK, PassPoints, tables, env
<1>7. BalanceInv' /\ BindInv'
  BY <1>1, <1>2, <1>3, <1>5, TablesKept DEF Inv, BalanceInv, BindInv, tables, NumaOf
<1>8. TaskUnderGroup'
  <2> SUFFICES ASSUME NEW t \in Bound
               PROVE  taskNode'[t] \in Sub[HomeOf(t)']
    BY <1>1, TablesKept DEF TaskUnderGroup
  <2>1. taskGroup[t] = g => t \in todoTids'
    BY <1>2 DEF Inv, Bookkeeping, Bound
  <2>2. HomeOf(t)' = grpNode[taskGroup[t]]
    BY <1>1, <1>2, <2>1 DEF HomeOf, tables
  <2>3. taskNode[t] \in Sub[grpNode[taskGroup[t]]]
    BY <1>1 DEF Inv, TaskUnderGroup, HomeOf
  <2> QED BY <1>1, <2>2, <2>3 DEF tables
<1> QED BY <1>1, <1>6, <1>7, <1>8, TablesKept DEF Inv

\* What migrateTaskToTopoNode knows when it is called.
LEMMA MigrateTaskFacts ==
    ASSUME Inv, NEW t \in Tids, MigrateTask(t)
    PROVE  \E new \in Node :
             /\ new \in Sub[curNode] /\ TypeOf[new] = TypeOf[taskNode[t]]
             /\ BindToNode(t, new)
             /\ taskNode' = [taskNode EXCEPT ![t] = new]
             /\ attach' = [attach EXCEPT ![taskNode[t]] = @ \ {t}, ![new] = @ \cup {t}]
             /\ bindCount' = Plus(Plus(bindCount, taskNode[t], -1), new, 1)
             /\ t \in Bound /\ taskGroup[t] = curGroup
             /\ taskNode[t] \in Node /\ taskNode[t] \in Sub[grpNode[curGroup]]
<1>1. pc = "migrate" /\ t \in todoTids
  BY DEF MigrateTask
<1>2. /\ curGroup \in Groups /\ curNode \in Node /\ t \in grpTasks[curGroup]
  BY <1>1 DEF Inv, BalanceInv
<1>3. curGroup \in Name /\ taskGroup[t] = curGroup
  BY <1>2 DEF Inv, Bookkeeping, Groups
<1>4. t \in Bound
  BY <1>3, BindingAssumption DEF Bound
<1>5. taskNode[t] \in Node
  BY <1>4 DEF Inv, TypeOK, Bookkeeping, Bound
<1>6. taskNode[t] \in Sub[grpNode[curGroup]]
  BY <1>1, <1>3, <1>4 DEF Inv, TaskUnderGroup, HomeOf
<1>7. PICK new \in SelectLighterBindNode(curNode, TypeOf[taskNode[t]], bindCount) :
         /\ BindToNode(t, new)
         /\ taskNode' = [taskNode EXCEPT ![t] = new]
         /\ attach' = [attach EXCEPT ![taskNode[t]] = @ \ {t}, ![new] = @ \cup {t}]
         /\ bindCount' = Plus(Plus(bindCount, taskNode[t], -1), new, 1)
  BY DEF MigrateTask
<1>8. curNode \in Node
  BY <1>2
<1>9. new \in Sub[curNode] /\ TypeOf[new] = TypeOf[taskNode[t]]
  BY <1>7, <1>8, BindSearchFacts
<1>10. new \in Node
  BY <1>8, <1>9, SubFacts
<1> QED BY <1>3, <1>4, <1>5, <1>6, <1>7, <1>9, <1>10

\* The affinity call puts the task on the retry list or leaves the list alone.
LEMMA BindToNodeFacts ==
    ASSUME Inv, NEW t \in Tids, NEW n \in Node, BindToNode(t, n)
    PROVE  /\ affinity' \in [Tids -> Node \cup {NoNode}]
           /\ events' \in 0..MaxEvents
           /\ retryTasks' \in Seq(Tids \cup {Stale})
           /\ \A i \in DOMAIN retryTasks' : retryTasks'[i] \in Bound \cup {t, Stale}
<1>1. retryTasks \in Seq(Tids \cup {Stale})
  BY DEF Inv, TypeOK
<1>2. \A i \in DOMAIN retryTasks : retryTasks[i] \in Bound \cup {Stale}
  BY DEF Inv, RetryNamesBound
<1>3. CASE Accepted(t, n) /\ UNCHANGED retryTasks
  BY <1>1, <1>2, <1>3 DEF Accepted, Inv, TypeOK
<1>4. CASE Refused(t) /\ retryTasks' = Append(retryTasks, t)
  <2>1. affinity' \in [Tids -> Node \cup {NoNode}] /\ events' \in 0..MaxEvents
    BY <1>4, BindingAssumption DEF Refused, Spend, Inv, TypeOK
  <2>2. retryTasks' \in Seq(Tids \cup {Stale})
    BY <1>1, <1>4
  <2>3. \A i \in DOMAIN retryTasks' :
           (i \in DOMAIN retryTasks /\ retryTasks'[i] = retryTasks[i]) \/ retryTasks'[i] = t
    BY <1>1, <1>4
  <2> QED BY <1>2, <2>1, <2>2, <2>3
<1> QED BY <1>3, <1>4 DEF BindToNode

LEMMA MigrateTaskInv == ASSUME Inv, NEW t \in Tids, MigrateTask(t) PROVE Inv'
<1>1. PICK new \in Node :
         /\ new \in Sub[curNode] /\ TypeOf[new] = TypeOf[taskNode[t]]
         /\ BindToNode(t, new)
         /\ taskNode' = [taskNode EXCEPT ![t] = new]
         /\ attach' = [attach EXCEPT ![taskNode[t]] = @ \ {t}, ![new] = @ \cup {t}]
         /\ bindCount' = Plus(Plus(bindCount, taskNode[t], -1), new, 1)
         /\ t \in Bound /\ taskGroup[t] = curGroup
         /\ taskNode[t] \in Node
  BY MigrateTaskFacts
<1>2. /\ pc = "migrate" /\ UNCHANGED <<pc, taskGroup, grpNode, grpTasks, monitored, curGroup,
                                       curNode, todoGroups, conf, detected, cursor, life>>
      /\ todoTids' = todoTids \ {t}
  BY DEF MigrateTask
<1>3. Bound' = Bound /\ Groups' = Groups
  BY <1>2 DEF Bound, Groups
<1>4. TypeOK /\ Bookkeeping /\ NoNode \notin Node
  BY TopologyAssumption DEF Inv
<1>5. TypeOK'
  <2>1. bindCount' \in [Node -> Int]
    <3>1. bindCount \in [Node -> Int]
      BY <1>4 DEF TypeOK
    <3>2. bindCount' = Plus(Plus(bindCount, taskNode[t], -1), new, 1)
      BY <1>1
    <3> QED BY <3>1, <3>2 DEF Plus
  <2>3. attach' \in [Node -> SUBSET Tids]
    BY <1>1, <1>4 DEF TypeOK
  <2>4. taskNode' \in [Tids -> Node \cup {NoNode}]
    BY <1>1, <1>4 DEF TypeOK
  <2>2. /\ affinity' \in [Tids -> Node \cup {NoNode}]
        /\ events' \in 0..MaxEvents
        /\ retryTasks' \in Seq(Tids \cup {Stale})
    BY <1>1, BindToNodeFacts
  <2> QED BY <1>2, <1>4, <2>1, <2>2, <2>3, <2>4 DEF TypeOK
<1>6. Bookkeeping'
  <2>1. \A u \in Tids : taskGroup'[u] = NoName <=> taskNode'[u] = NoNode
    BY <1>1, <1>2, <1>4, BindingAssumption DEF TypeOK, Bookkeeping, Bound
  <2>2. \A u \in Tids, n \in Node : u \in attach'[n] <=> taskNode'[u] = n
    BY <1>1, <1>4 DEF TypeOK, Bookkeeping
  <2> QED BY <1>2, <1>3, <1>4, <2>1, <2>2 DEF Bookkeeping
<1>7. RetryNamesBound'
  BY <1>1, <1>3, BindToNodeFacts DEF RetryNamesBound
<1>8. TaskUnderGroup'
  <2> SUFFICES ASSUME NEW u \in Bound PROVE taskNode'[u] \in Sub[HomeOf(u)']
    BY <1>3 DEF TaskUnderGroup
  <2>1. CASE u = t
    <3>1. HomeOf(u)' = curNode
      BY <1>1, <1>2, <2>1 DEF HomeOf
    <3> QED BY <1>1, <1>4, <2>1, <3>1 DEF TypeOK
  <2>2. CASE u # t
    <3>1. HomeOf(u)' = HomeOf(u)
      BY <1>2, <2>2 DEF HomeOf
    <3> QED BY <1>1, <1>2, <1>4, <2>2, <3>1 DEF Inv, TaskUnderGroup, TypeOK, Bound
  <2> QED BY <2>1, <2>2
<1>9. BalanceInv' /\ BindInv' /\ GroupLevel'
  BY <1>2, <1>3 DEF Inv, BalanceInv, BindInv, GroupLevel
<1> QED BY <1>5, <1>6, <1>7, <1>8, <1>9 DEF Inv

LEMMA MigrateEndInv == ASSUME Inv, MigrateEnd PROVE Inv'
<1>1. /\ pc = "migrate" /\ todoTids = {} /\ pc' = "balance"
      /\ bindCount' = Plus(Plus(bindCount, grpNode[curGroup], -1), curNode, 1)
      /\ grpNode' = [grpNode EXCEPT ![curGroup] = curNode]
      /\ curGroup' = NoName /\ curNode' = NoNode
      /\ UNCHANGED <<taskGroup, taskNode, grpTasks, attach, monitored, retryTasks, conf,
                     todoGroups, todoTids, detected, cursor, life, affinity, events>>
  BY DEF MigrateEnd, env
<1>2. curGroup \in Groups /\ curNode \in Node /\ TypeOf[curNode] < TypeNUMA
  BY <1>1 DEF Inv, BalanceInv
<1>3. TypeOK /\ NoNode \notin Node /\ curGroup \in Name /\ grpNode[curGroup] \in Node
  BY <1>2, TopologyAssumption DEF Inv, Groups, TypeOK
<1>4. Bound' = Bound /\ Groups' = Groups
  BY <1>1, <1>2, <1>3 DEF Bound, Groups, TypeOK
<1>5. TypeOK'
  <2>1. bindCount' \in [Node -> Int] /\ grpNode' \in [Name -> Node \cup {NoNode}]
    BY <1>1, <1>2, <1>3 DEF TypeOK, Plus
  <2> QED BY <1>1, <1>3, <2>1 DEF TypeOK, PassPoints
<1>6. Bookkeeping'
  <2>1. \A t \in Bound : grpNode'[taskGroup[t]] # NoNode
    BY <1>1, <1>2, <1>3 DEF Inv, Bookkeeping, TypeOK, Bound
  <2> QED BY <1>1, <1>4, <2>1 DEF Inv, Bookkeeping
<1>7. RetryNamesBound'
  BY <1>1, <1>4 DEF Inv, RetryNamesBound
<1>8. TaskUnderGroup'
  <2> SUFFICES ASSUME NEW t \in Bound PROVE taskNode[t] \in Sub[grpNode'[taskGroup[t]]]
    BY <1>1, <1>4 DEF TaskUnderGroup, HomeOf
  <2>1. taskNode[t] \in Sub[HomeOf(t)] /\ taskGroup[t] \in Name
    BY <1>1, <1>3 DEF Inv, TaskUnderGroup, TypeOK, Bound
  <2>2. HomeOf(t) = grpNode'[taskGroup[t]]
    BY <1>1, <1>3, <2>1 DEF HomeOf, TypeOK
  <2> QED BY <2>1, <2>2
<1>9. BalanceInv' /\ BindInv'
  BY <1>1, <1>4 DEF Inv, BalanceInv, BindInv
<1>10. GroupLevel'
  <2> SUFFICES ASSUME NEW g \in Groups PROVE TypeOf[grpNode'[g]] <= TypeNUMA
    BY <1>4 DEF GroupLevel
  <2>1. TypeOf[curNode] \in 0..5
    BY <1>2, UpFacts
  <2>2. CASE g = curGroup
    BY <1>1, <1>2, <1>3, <2>1, <2>2 DEF TypeOK, TypeNUMA
  <2>3. CASE g # curGroup
    BY <1>1, <1>3, <2>3 DEF Inv, GroupLevel, Groups, TypeOK
  <2> QED BY <2>2, <2>3
<1> QED BY <1>5, <1>6, <1>7, <1>8, <1>9, <1>10 DEF Inv


LEMMA BalanceDoneInv == ASSUME Inv, BalanceDone PROVE Inv'
<1>1. UNCHANGED <<tables, retryTasks>> /\ pc = "balance" /\ pc' = "retry"
  BY DEF BalanceDone
<1>2. TypeOK'
  BY DEF BalanceDone, Inv, TypeOK, PassPoints, tables, loops, env
<1>3. BalanceInv' /\ BindInv'
  BY <1>1 DEF BalanceInv, BindInv
<1> QED BY <1>1, <1>2, <1>3, TablesKept, HomeKept DEF Inv

LEMMA RetryOkInv == ASSUME Inv, NEW t \in Tids, RetryOk(t) PROVE Inv'
<1>1. UNCHANGED <<tables, retryTasks>> /\ pc = "retry" /\ pc' = "retry"
  BY DEF RetryOk
<1>2. TypeOK'
  <2>1. affinity' \in [Tids -> Node \cup {NoNode}] /\ events' = events
    <3>1. t \in Bound
      BY BindingAssumption DEF RetryOk, Inv, RetryNamesBound, TypeOK
    <3> QED BY <3>1 DEF RetryOk, Accepted, Inv, TypeOK
  <2>2. cursor' \in Nat \ {0}
    BY DEF RetryOk, Inv, TypeOK
  <2> QED BY <2>1, <2>2 DEF RetryOk, Inv, TypeOK, tables
<1>3. BalanceInv' /\ BindInv'
  BY <1>1 DEF BalanceInv, BindInv
<1> QED BY <1>1, <1>2, <1>3, TablesKept, HomeKept DEF Inv

LEMMA RetryErrInv == ASSUME Inv, NEW t \in Tids, RetryErr(t) PROVE Inv'
<1>1. /\ pc = "retry" /\ UnbindTask(t) /\ Refused(t)
      /\ cursor <= Len(retryTasks) /\ retryTasks[cursor] = t
      /\ cursor' = IF LastPosition(t) = cursor THEN Len(retryTasks) ELSE cursor + 1
      /\ UNCHANGED <<conf, pc, todoGroups, todoTids, detected, curGroup, curNode, life>>
  BY DEF RetryErr
<1>2. retryTasks \in Seq(Tids \cup {Stale}) /\ cursor \in Nat \ {0}
  BY DEF Inv, TypeOK
<1>3. cursor \in DOMAIN retryTasks /\ cursor' \in Nat \ {0}
  BY <1>1, <1>2
<1>4. t \in Bound
  BY <1>1, <1>3, BindingAssumption DEF Inv, RetryNamesBound
<1>5. affinity' \in [Tids -> Node \cup {NoNode}] /\ events' \in 0..MaxEvents
  BY <1>1, BindingAssumption DEF Refused, Spend, Inv, TypeOK
<1>6. TypeOK'
  BY <1>1, <1>3, <1>4, <1>5, UnbindFacts DEF Inv, TypeOK
<1>7. BalanceInv' /\ BindInv'
  BY <1>1 DEF BalanceInv, BindInv
<1> QED BY <1>1, <1>4, <1>6, <1>7, UnbindFacts DEF Inv

LEMMA RetryDoneInv == ASSUME Inv, RetryDone PROVE Inv'
<1>1. UNCHANGED <<tables, retryTasks>> /\ pc = "retry" /\ pc' \in {"detect", "scan"}
  BY DEF RetryDone
<1>2. todoGroups' \in SUBSET Name /\ cursor' = 1
  BY DEF RetryDone, Name
<1>3. TypeOK'
  BY <1>1, <1>2 DEF RetryDone, Inv, TypeOK, PassPoints, tables, env
<1>4. BalanceInv' /\ BindInv'
  BY <1>1 DEF BalanceInv, BindInv
<1> QED BY <1>1, <1>3, <1>4, TablesKept, HomeKept DEF Inv

\* BindGroupAuto starts to bind threads to a NUMA node.
LEMMA StartBindInv ==
    ASSUME Inv, NEW g \in Name, NEW ts \in SUBSET Tids, StartBind(g, ts), pc \notin {"migrate", "panic"},
           todoGroups' \in SUBSET Name, detected' \in SUBSET (SUBSET Tids)
    PROVE  Inv'
<1>1. UNCHANGED <<tables, retryTasks>> /\ pc' = "bind"
  BY DEF StartBind
<1>2. curNode' \in Numa \cup {NoNode}
  BY BindingAssumption, NumaSearchFacts DEF StartBind, TargetNuma
<1>3. curNode' \in Node \cup {NoNode}
  BY <1>2 DEF Numa
<1>4. TypeOK'
  BY <1>1, <1>3 DEF StartBind, Inv, TypeOK, PassPoints, tables, env
<1>5. BalanceInv' /\ BindInv'
  BY <1>1, <1>2 DEF StartBind, BalanceInv, BindInv
<1> QED BY <1>1, <1>4, <1>5, TablesKept, HomeKept DEF Inv

LEMMA BindMembersInv == ASSUME Inv, NEW g \in SchedNames, BindMembers(g) PROVE Inv'
<1>1. g \in Name /\ Members[g] \cap Alive \in SUBSET Tids
  BY DEF Name, Alive
<1>2. pc \notin {"migrate", "panic"} /\ StartBind(g, Members[g] \cap Alive)
  BY DEF BindMembers
<1>3. todoGroups' \in SUBSET Name /\ detected' \in SUBSET (SUBSET Tids)
  BY DEF BindMembers, Inv, TypeOK
<1> QED BY <1>1, <1>2, <1>3, StartBindInv

LEMMA BindDetectedInv == ASSUME Inv, NEW ts \in detected, BindDetected(ts) PROVE Inv'
<1>1. AutoName \in Name /\ ts \in SUBSET Tids
  BY DEF Name, Inv, TypeOK
<1>2. pc \notin {"migrate", "panic"} /\ StartBind(AutoName, ts)
  BY DEF BindDetected
<1>3. todoGroups' \in SUBSET Name /\ detected' \in SUBSET (SUBSET Tids)
  BY DEF BindDetected, Inv, TypeOK
<1> QED BY <1>1, <1>2, <1>3, StartBindInv

LEMMA NoMembersInv == ASSUME Inv, NEW g \in SchedNames, NoMembers(g) PROVE Inv'
<1>1. UNCHANGED <<tables, retryTasks>> /\ pc = "scan" /\ pc' = "scan"
  BY DEF NoMembers
<1>2. todoGroups' \in SUBSET Name
  BY DEF NoMembers, Inv, TypeOK
<1>3. TypeOK'
  BY <1>2 DEF NoMembers, Inv, TypeOK, tables, env
<1>4. BalanceInv' /\ BindInv'
  BY <1>1 DEF BalanceInv, BindInv
<1> QED BY <1>1, <1>3, <1>4, TablesKept, HomeKept DEF Inv

\* Both ways of finding groups end by looking at every bound task.
LEMMA ReapStartInv == ASSUME Inv, ScanDone \/ DetectDone PROVE Inv'
<1>1. /\ UNCHANGED <<tables, retryTasks>> /\ pc \in {"scan", "detect"} /\ pc' = "reap"
      /\ todoTids' = Bound
  BY DEF ScanDone, DetectDone
<1>2. TypeOK'
  BY <1>1 DEF ScanDone, DetectDone, Inv, TypeOK, PassPoints, tables, env, Bound
<1>3. BalanceInv' /\ BindInv'
  BY <1>1, TablesKept DEF BalanceInv, BindInv
<1> QED BY <1>1, <1>2, <1>3, TablesKept, HomeKept DEF Inv

\* unbindAllTasks leaves no task bound and no task on the retry list.
LEMMA RegroupInv == ASSUME Inv, NEW P \in Detections, Regroup(P) PROVE Inv'
<1>1. pc = "detect"
  BY DEF Regroup
<1>2. CASE Panic
  BY <1>1, <1>2, PanicInv
<1>3. CASE UnbindAll /\ detected' = P /\ Spend
           /\ UNCHANGED <<load, conf, pc, todoGroups, todoTids, curGroup, curNode, cursor,
                          gap, life, affinity>>
  <2>1. TypeOK /\ Bookkeeping
    BY DEF Inv
  <2>2. /\ taskGroup' = [t \in Tids |-> NoName] /\ taskNode' = [t \in Tids |-> NoNode]
        /\ grpTasks' = [g \in Name |-> {}]
        /\ grpNode' = [g \in Name |-> IF grpTasks[g] # {} THEN NoNode ELSE grpNode[g]]
        /\ attach' = [n \in Node |-> attach[n] \ Bound]
        /\ retryTasks' = DropAllRetries /\ monitored' = monitored \ Bound
    BY <1>3 DEF UnbindAll
  <2>3. Bound' = {}
    BY <2>2 DEF Bound
  <2>4. bindCount' \in [Node -> Int]
    <3>1. \A n \in Node : Cardinality({t \in Bound : taskNode[t] = n}) \in Int
      <4> TAKE n \in Node
      <4>1. IsFiniteSet({t \in Bound : taskNode[t] = n})
        BY BindingAssumption, FS_Subset DEF Bound
      <4> QED BY <4>1, FS_CardinalityType
    <3>2. bindCount' = [n \in Node |->
                          bindCount[n] - Cardinality({t \in Bound : taskNode[t] = n})]
      BY <1>3 DEF UnbindAll
    <3>3. bindCount \in [Node -> Int]
      BY <2>1 DEF TypeOK
    <3> QED BY <3>1, <3>2, <3>3
  <2>5. retryTasks' \in Seq(Tids \cup {Stale}) /\ RetryNamesBound'
    <3>1. retryTasks \in Seq(Tids \cup {Stale})
      BY <2>1 DEF TypeOK
    <3> QED BY <2>2, <3>1, DropAllFacts DEF RetryNamesBound
  <2>6. TypeOK'
    <3>1. events' \in 0..MaxEvents
      BY <1>3, <2>1, BindingAssumption DEF Spend, TypeOK
    <3>2. detected' \in SUBSET (SUBSET Tids)
      BY <1>3, BindingAssumption
    <3>3. attach' \in [Node -> SUBSET Tids] /\ grpNode' \in [Name -> Node \cup {NoNode}]
      BY <2>1, <2>2 DEF TypeOK
    <3> QED BY <1>3, <2>1, <2>2, <2>4, <2>5, <3>1, <3>2, <3>3 DEF TypeOK
  <2>7. Bookkeeping'
    <3>1. \A n \in Node : attach'[n] = {}
      <4> SUFFICES ASSUME NEW n \in Node, NEW t \in attach[n] PROVE t \in Bound
        BY <2>2
      <4>1. t \in Tids /\ taskNode[t] = n
        BY <2>1 DEF TypeOK, Bookkeeping
      <4> QED BY <2>1, <4>1, TopologyAssumption DEF Bookkeeping, Bound
    <3>2. \A n \in Node : NoNode # n
      BY TopologyAssumption
    <3>3. \A g \in Name : NoName # g
      BY BindingAssumption
    <3>4. monitored' = {}
      BY <2>1, <2>2 DEF Bookkeeping
    <3> QED BY <2>2, <2>3, <3>1, <3>2, <3>3, <3>4 DEF Bookkeeping
  <2>8. GroupLevel'
    BY <2>1, <2>2 DEF Inv, GroupLevel, Groups, TypeOK
  <2>9. TaskUnderGroup' /\ BalanceInv' /\ BindInv'
    BY <1>1, <1>3, <2>3 DEF TaskUnderGroup, BalanceInv, BindInv
  <2> QED BY <2>5, <2>6, <2>7, <2>8, <2>9 DEF Inv
<1> QED BY <1>2, <1>3 DEF Regroup

\* The node of the group of the binding loop is a NUMA node or below one.
LEMMA GroupNodeFacts ==
    ASSUME Inv, pc = "bind", NEW gn \in GroupNode(curGroup)
    PROVE  /\ curGroup \in Name /\ gn \in Node /\ TypeOf[gn] <= TypeNUMA
           /\ curGroup \in Groups => gn = grpNode[curGroup]
           /\ GroupBinds(curGroup, gn) \in [Node -> Int]
<1>1. curGroup \in Name /\ curNode \in Numa \cup {NoNode}
  BY DEF Inv, BindInv
<1>2. CASE curGroup \in Groups
  BY <1>1, <1>2 DEF GroupNode, GroupBinds, Groups, Inv, GroupLevel, TypeOK
<1>3. CASE curGroup \notin Groups
  <2>0. curNode # NoNode /\ curNode \in Node /\ TypeOf[curNode] = TypeNUMA
    BY <1>1, <1>3 DEF GroupNode, Numa
  <2>1. CASE conf.ccl
    <3>1. gn \in SelectLighterLoadNode(curNode, TypeCluster, load, bindCount)
      BY <1>3, <2>0, <2>1 DEF GroupNode
    <3>2. gn \in Sub[curNode] /\ TypeOf[gn] = TypeCluster
      BY <2>0, <3>1, LoadSearchFacts
    <3> QED BY <1>1, <1>3, <2>0, <3>2, SubFacts
               DEF TypeCluster, TypeNUMA, GroupBinds, Plus, Inv, TypeOK
  <2>2. CASE ~conf.ccl
    BY <1>1, <1>3, <2>0, <2>2 DEF GroupNode, TypeNUMA, GroupBinds, Plus, Inv, TypeOK
  <2> QED BY <2>1, <2>2
<1> QED BY <1>2, <1>3

LEMMA TaskNodeFacts ==
    ASSUME NEW gn \in Node, NEW binds, NEW n \in TaskNodeIn(gn, binds)
    PROVE  n \in Node /\ n \in Sub[gn]
<1>1. CASE conf.perCore
  BY <1>1, BindSearchFacts, SubFacts DEF TaskNodeIn
<1>2. CASE ~conf.perCore
  BY <1>2, SubFacts DEF TaskNodeIn
<1> QED BY <1>1, <1>2

LEMMA BindTaskInv == ASSUME Inv, NEW t \in Tids, BindTask(t) PROVE Inv'
<1>1. /\ pc = "bind" /\ t \in todoTids \ Bound
      /\ monitored' = monitored \cup {t} /\ todoTids' = todoTids \ {t}
      /\ UNCHANGED <<conf, pc, todoGroups, detected, curGroup, curNode, cursor, life>>
  BY DEF BindTask
<1> DEFINE g == curGroup
<1>2. PICK gn \in GroupNode(g) : \E n \in TaskNodeIn(gn, GroupBinds(g, gn)) :
          /\ BindToNode(t, n)
          /\ grpNode' = [grpNode EXCEPT ![g] = gn]
          /\ grpTasks' = [grpTasks EXCEPT ![g] = @ \cup {t}]
          /\ taskGroup' = [taskGroup EXCEPT ![t] = g]
          /\ taskNode' = [taskNode EXCEPT ![t] = n]
          /\ attach' = [attach EXCEPT ![n] = @ \cup {t}]
          /\ bindCount' = Plus(GroupBinds(g, gn), n, 1)
  BY DEF BindTask
<1>3. PICK n \in TaskNodeIn(gn, GroupBinds(g, gn)) :
          /\ BindToNode(t, n)
          /\ grpNode' = [grpNode EXCEPT ![g] = gn]
          /\ grpTasks' = [grpTasks EXCEPT ![g] = @ \cup {t}]
          /\ taskGroup' = [taskGroup EXCEPT ![t] = g]
          /\ taskNode' = [taskNode EXCEPT ![t] = n]
          /\ attach' = [attach EXCEPT ![n] = @ \cup {t}]
          /\ bindCount' = Plus(GroupBinds(g, gn), n, 1)
  BY <1>2
<1>4. /\ g \in Name /\ gn \in Node /\ TypeOf[gn] <= TypeNUMA
      /\ g \in Groups => gn = grpNode[g]
      /\ GroupBinds(g, gn) \in [Node -> Int]
  BY <1>1, <1>2, GroupNodeFacts
<1>5. n \in Node /\ n \in Sub[gn]
  BY <1>3, <1>4, TaskNodeFacts
<1>6. TypeOK /\ Bookkeeping /\ g # NoName /\ gn # NoNode /\ n # NoNode
  BY <1>4, <1>5, TopologyAssumption, BindingAssumption DEF Inv
<1>7. taskGroup[t] = NoName /\ taskNode[t] = NoNode
  BY <1>1, <1>6 DEF Bound, Bookkeeping
<1> HIDE DEF g
<1>8. Bound' = Bound \cup {t}
  BY <1>3, <1>6 DEF Bound, TypeOK
<1>9. TypeOK'
  <2>1. /\ grpNode' \in [Name -> Node \cup {NoNode}] /\ grpTasks' \in [Name -> SUBSET Tids]
        /\ taskGroup' \in [Tids -> Name \cup {NoName}]
        /\ taskNode' \in [Tids -> Node \cup {NoNode}]
    BY <1>3, <1>4, <1>5, <1>6 DEF TypeOK
  <2>2. attach' \in [Node -> SUBSET Tids] /\ bindCount' \in [Node -> Int]
    BY <1>3, <1>4, <1>5, <1>6 DEF TypeOK, Plus
  <2>3. /\ affinity' \in [Tids -> Node \cup {NoNode}] /\ events' \in 0..MaxEvents
        /\ retryTasks' \in Seq(Tids \cup {Stale})
    BY <1>3, <1>5, BindToNodeFacts
  <2>4. monitored' \in SUBSET Tids /\ todoTids' \in SUBSET Tids
    BY <1>1, <1>6 DEF TypeOK
  <2> QED BY <1>1, <1>6, <2>1, <2>2, <2>3, <2>4 DEF TypeOK
<1>10. Bookkeeping'
  <2>1. \A u \in Tids : taskGroup'[u] = NoName <=> taskNode'[u] = NoNode
    BY <1>3, <1>6 DEF TypeOK, Bookkeeping
  <2>2. \A u \in Tids, h \in Name : u \in grpTasks'[h] <=> taskGroup'[u] = h
    <3> TAKE u \in Tids, h \in Name
    <3>1. grpTasks'[h] = IF h = g THEN grpTasks[h] \cup {t} ELSE grpTasks[h]
      BY <1>3, <1>6 DEF TypeOK
    <3>2. taskGroup'[u] = IF u = t THEN g ELSE taskGroup[u]
      BY <1>3, <1>6 DEF TypeOK
    <3>3. h # NoName
      BY BindingAssumption
    <3> QED BY <1>6, <1>7, <3>1, <3>2, <3>3 DEF Bookkeeping
  <2>3. \A u \in Tids, m \in Node : u \in attach'[m] <=> taskNode'[u] = m
    <3> TAKE u \in Tids, m \in Node
    <3>1. attach'[m] = IF m = n THEN attach[m] \cup {t} ELSE attach[m]
      BY <1>3, <1>6 DEF TypeOK
    <3>2. taskNode'[u] = IF u = t THEN n ELSE taskNode[u]
      BY <1>3, <1>6 DEF TypeOK
    <3>3. m # NoNode
      BY TopologyAssumption
    <3> QED BY <1>6, <1>7, <3>1, <3>2, <3>3 DEF Bookkeeping
  <2>4. \A u \in Bound' : grpNode'[taskGroup'[u]] # NoNode
    BY <1>3, <1>4, <1>6, <1>8 DEF TypeOK, Bookkeeping, Bound
  <2>5. monitored' = Bound'
    BY <1>1, <1>6, <1>8 DEF Bookkeeping
  <2> QED BY <2>1, <2>2, <2>3, <2>4, <2>5 DEF Bookkeeping
<1>11. RetryNamesBound'
  BY <1>3, <1>5, <1>8, BindToNodeFacts DEF RetryNamesBound
<1>12. TaskUnderGroup'
  <2> SUFFICES ASSUME NEW u \in Bound \cup {t} PROVE taskNode'[u] \in Sub[grpNode'[taskGroup'[u]]]
    BY <1>1, <1>8 DEF TaskUnderGroup, HomeOf
  <2>1. CASE u = t
    BY <1>3, <1>4, <1>5, <1>6, <2>1 DEF TypeOK
  <2>2. CASE u # t
    <3>1. u \in Bound /\ u \in Tids /\ taskGroup[u] \in Name
      BY <1>6, <2>2 DEF Bound, TypeOK
    <3>2. grpNode[taskGroup[u]] # NoNode
      BY <1>6, <3>1 DEF Bookkeeping
    <3>3. taskNode[u] \in Sub[grpNode[taskGroup[u]]]
      BY <1>1, <3>1 DEF Inv, TaskUnderGroup, HomeOf
    <3>4. taskGroup'[u] = taskGroup[u] /\ taskNode'[u] = taskNode[u]
      BY <1>3, <1>6, <2>2, <3>1 DEF TypeOK
    <3>5. grpNode'[taskGroup[u]] = grpNode[taskGroup[u]]
      BY <1>3, <1>4, <1>6, <3>1, <3>2 DEF TypeOK, Groups
    <3> QED BY <3>3, <3>4, <3>5
  <2> QED BY <2>1, <2>2
<1>13. GroupLevel'
  BY <1>3, <1>4, <1>6 DEF Inv, GroupLevel, Groups, TypeOK
<1>14. BalanceInv' /\ BindInv'
  BY <1>1 DEF Inv, BalanceInv, BindInv
<1> QED BY <1>9, <1>10, <1>11, <1>12, <1>13, <1>14 DEF Inv

\* A thread bound already: only the group may be new.
LEMMA BindTwiceInv == ASSUME Inv, NEW t \in Tids, BindTwice(t) PROVE Inv'
<1>1. /\ pc = "bind" /\ todoTids' = todoTids \ {t}
      /\ UNCHANGED <<taskGroup, taskNode, grpTasks, attach, monitored, retryTasks, conf, pc,
                     todoGroups, detected, curGroup, curNode, cursor, life, affinity, events>>
  BY DEF BindTwice, env
<1>2. PICK gn \in GroupNode(curGroup) :
         grpNode' = [grpNode EXCEPT ![curGroup] = gn] /\ bindCount' = GroupBinds(curGroup, gn)
  BY DEF BindTwice
<1>3. /\ curGroup \in Name /\ gn \in Node /\ TypeOf[gn] <= TypeNUMA
      /\ curGroup \in Groups => gn = grpNode[curGroup]
      /\ bindCount' \in [Node -> Int]
  BY <1>1, <1>2, GroupNodeFacts
<1>4. TypeOK /\ Bookkeeping /\ gn # NoNode
  BY <1>3, TopologyAssumption DEF Inv
<1>5. Bound' = Bound /\ \A u \in Bound : u \in Tids /\ taskGroup[u] \in Name
  BY <1>1, <1>4 DEF Bound, TypeOK
<1>6. TypeOK'
  <2>1. grpNode' \in [Name -> Node \cup {NoNode}] /\ todoTids' \in SUBSET Tids
    BY <1>1, <1>2, <1>3, <1>4 DEF TypeOK
  <2> QED BY <1>1, <1>3, <1>4, <2>1 DEF TypeOK
<1>7. \A u \in Bound : grpNode'[taskGroup[u]] = grpNode[taskGroup[u]]
  BY <1>2, <1>3, <1>4, <1>5 DEF TypeOK, Bookkeeping, Groups
<1>8. Bookkeeping'
  BY <1>1, <1>4, <1>5, <1>7 DEF Bookkeeping
<1>9. RetryNamesBound'
  BY <1>1, <1>5 DEF Inv, RetryNamesBound
<1>10. TaskUnderGroup'
  BY <1>1, <1>5, <1>7 DEF Inv, TaskUnderGroup, HomeOf
<1>11. GroupLevel'
  BY <1>2, <1>3, <1>4 DEF Inv, GroupLevel, Groups, TypeOK
<1>12. BalanceInv' /\ BindInv'
  BY <1>1 DEF Inv, BalanceInv, BindInv
<1> QED BY <1>6, <1>8, <1>9, <1>10, <1>11, <1>12 DEF Inv

LEMMA BindDoneInv == ASSUME Inv, BindDone PROVE Inv'
<1>1. UNCHANGED <<tables, retryTasks>> /\ pc = "bind" /\ pc' \in {"detect", "scan"}
  BY DEF BindDone
<1>2. TypeOK'
  BY <1>1 DEF BindDone, Inv, TypeOK, PassPoints, tables, env
<1>3. BalanceInv' /\ BindInv'
  BY <1>1 DEF BalanceInv, BindInv
<1> QED BY <1>1, <1>2, <1>3, TablesKept, HomeKept DEF Inv

LEMMA ReapInv == ASSUME Inv, NEW t \in Tids, Reap(t) PROVE Inv'
<1>1. /\ pc = "reap" /\ t \in todoTids /\ todoTids' = todoTids \ {t}
      /\ UNCHANGED <<conf, pc, todoGroups, detected, curGroup, curNode, cursor, env>>
  BY DEF Reap
<1>2. t \in Bound /\ todoTids \subseteq Bound
  BY <1>1 DEF Inv, BindInv
<1>3. CASE UNCHANGED <<tables, retryTasks>>
  <2>1. TypeOK'
    BY <1>1, <1>3 DEF Inv, TypeOK, tables, env
  <2>2. BalanceInv' /\ BindInv'
    BY <1>1, <1>2, <1>3, TablesKept DEF BalanceInv, BindInv
  <2> QED BY <1>1, <1>3, <2>1, <2>2, TablesKept, HomeKept DEF Inv
<1>4. CASE UnbindTask(t)
  <2>1. TypeOK'
    BY <1>1, <1>2, <1>4, UnbindFacts DEF Inv, TypeOK, env
  <2>2. BalanceInv' /\ BindInv'
    BY <1>1, <1>2, <1>4, UnbindFacts DEF BalanceInv, BindInv
  <2> QED BY <1>1, <1>2, <1>4, <2>1, <2>2, UnbindFacts DEF Inv
<1> QED BY <1>3, <1>4 DEF Reap

LEMMA ReapDoneInv == ASSUME Inv, ReapDone PROVE Inv'
<1>1. UNCHANGED <<tables, retryTasks>> /\ pc = "reap" /\ pc' = "idle"
  BY DEF ReapDone
<1>2. TypeOK'
  BY DEF ReapDone, Inv, TypeOK, PassPoints, tables, loops, env
<1>3. BalanceInv' /\ BindInv'
  BY <1>1 DEF BalanceInv, BindInv
<1> QED BY <1>1, <1>2, <1>3, TablesKept, HomeKept DEF Inv

LEMMA StutterInv == ASSUME Inv, UNCHANGED vars PROVE Inv'
<1>1. UNCHANGED <<tables, retryTasks>> /\ UNCHANGED <<conf, pc, loops, env>>
  BY DEF vars
<1>2. TypeOK'
  BY <1>1 DEF Inv, TypeOK, tables, loops, env
<1>3. TaskUnderGroup' /\ BalanceInv' /\ BindInv'
  BY <1>1, TablesKept DEF Inv, TaskUnderGroup, HomeOf, BalanceInv, BindInv, NumaOf, tables, loops
<1> QED BY <1>1, <1>2, <1>3, TablesKept DEF Inv

LEMMA NextInv == ASSUME Inv, [Next]_vars PROVE Inv'
<1>1. CASE Tick
  BY <1>1, TickInv
<1>2. CASE Threads
  BY <1>2, ThreadsInv
<1>3. ASSUME NEW g \in Name, KeepGroup(g) \/ BeginMigrate(g) PROVE Inv'
  BY <1>3, KeepGroupInv, BeginMigrateInv
<1>4. ASSUME NEW t \in Tids, MigrateTask(t) \/ MigrateNil(t) \/ RetryOk(t) \/ RetryErr(t)
      PROVE  Inv'
  BY <1>4, MigrateTaskInv, PanicInv, RetryOkInv, RetryErrInv DEF MigrateNil
<1>5. CASE MigrateEnd \/ BalanceDone \/ RetryStale \/ RetryDone
  BY <1>5, MigrateEndInv, BalanceDoneInv, RetryDoneInv, PanicInv DEF RetryStale
<1>6. ASSUME NEW g \in SchedNames, BindMembers(g) \/ NoMembers(g) \/ EmptyNetPanic(g)
      PROVE  Inv'
  BY <1>6, BindMembersInv, NoMembersInv, PanicInv DEF EmptyNetPanic
<1>7. ASSUME NEW P \in Detections, Regroup(P) PROVE Inv'
  BY <1>7, RegroupInv
<1>8. ASSUME NEW ts \in detected, BindDetected(ts) PROVE Inv'
  BY <1>8, BindDetectedInv
<1>9. CASE ScanDone \/ DetectDone
  BY <1>9, ReapStartInv
<1>10. ASSUME NEW t \in Tids, BindTask(t) \/ BindTwice(t) \/ BindNil(t) PROVE Inv'
  BY <1>10, BindTaskInv, BindTwiceInv, PanicInv DEF BindNil
<1>11. ASSUME NEW t \in Tids, Reap(t) PROVE Inv'
  BY <1>11, ReapInv
<1>12. CASE BindDone \/ ReapDone
  BY <1>12, BindDoneInv, ReapDoneInv
<1>13. CASE UNCHANGED vars
  BY <1>13, StutterInv
<1> QED
  BY <1>1, <1>2, <1>3, <1>4, <1>5, <1>6, <1>7, <1>8, <1>9, <1>10, <1>11, <1>12, <1>13
  DEF Next, PassStep

(***************************************************************************)
(* No step takes a bound task, or a group, to another NUMA node.           *)
(***************************************************************************)

LEMMA UnbindNuma == ASSUME Inv, NEW t \in Bound, UnbindTask(t) PROVE NumaStep
<1>1. /\ taskNode' = [taskNode EXCEPT ![t] = NoNode]
      /\ \A g \in Name : grpNode'[g] = grpNode[g] \/ grpNode'[g] = NoNode
  BY DEF UnbindTask, Inv, TypeOK
<1> QED BY <1>1 DEF NumaStep, Inv, TypeOK, Bound, Groups

LEMMA MigrateTaskNuma == ASSUME Inv, NEW t \in Tids, MigrateTask(t) PROVE NumaStep
<1>1. PICK new \in Node :
         /\ new \in Sub[curNode] /\ taskNode' = [taskNode EXCEPT ![t] = new]
         /\ taskNode[t] \in Node /\ taskNode[t] \in Sub[grpNode[curGroup]]
  BY MigrateTaskFacts
<1>2. /\ curGroup \in Groups /\ curNode \in Node
      /\ TypeOf[grpNode[curGroup]] < TypeNUMA /\ TypeOf[curNode] < TypeNUMA
      /\ NumaOf(curNode) = NumaOf(grpNode[curGroup])
  BY DEF MigrateTask, Inv, BalanceInv
<1>3. grpNode[curGroup] \in Node
  BY <1>2 DEF Groups, Inv, TypeOK
<1>4. TypeNUMA \in TypeOf[curNode]..5 /\ TypeNUMA \in TypeOf[grpNode[curGroup]]..5
  BY <1>2, <1>3, UpFacts DEF TypeNUMA
<1>5. NumaOf(new) = NumaOf(curNode)
  BY <1>1, <1>2, <1>4, SameParent DEF NumaOf
<1>6. NumaOf(taskNode[t]) = NumaOf(grpNode[curGroup])
  BY <1>1, <1>3, <1>4, SameParent DEF NumaOf
<1>7. \A u \in Tids : taskNode'[u] = IF u = t THEN new ELSE taskNode[u]
  BY <1>1 DEF Inv, TypeOK
<1>8. \A u \in Bound : NumaOf(taskNode'[u]) = NumaOf(taskNode[u])
  BY <1>2, <1>5, <1>6, <1>7 DEF Bound
<1>9. grpNode' = grpNode
  BY DEF MigrateTask
<1> QED BY <1>8, <1>9 DEF NumaStep

LEMMA MigrateEndNuma == ASSUME Inv, MigrateEnd PROVE NumaStep
<1>1. taskNode' = taskNode /\ grpNode' = [grpNode EXCEPT ![curGroup] = curNode]
  BY DEF MigrateEnd
<1>2. NumaOf(curNode) = NumaOf(grpNode[curGroup])
  BY DEF MigrateEnd, Inv, BalanceInv
<1>3. \A g \in Groups : NumaOf(grpNode'[g]) = NumaOf(grpNode[g])
  BY <1>1, <1>2 DEF Inv, TypeOK, Groups
<1> QED BY <1>1, <1>3 DEF NumaStep

LEMMA BindNuma == ASSUME Inv, NEW t \in Tids, BindTask(t) \/ BindTwice(t) PROVE NumaStep
<1>1. pc = "bind" /\ curGroup \in Name
  BY DEF BindTask, BindTwice, Inv, BindInv
<1>2. \E gn \in GroupNode(curGroup) : grpNode' = [grpNode EXCEPT ![curGroup] = gn]
  BY DEF BindTask, BindTwice
<1>3. \A g \in Groups : grpNode'[g] = grpNode[g]
  BY <1>1, <1>2, GroupNodeFacts DEF Inv, TypeOK, Groups
<1>4. \A u \in Bound : taskNode'[u] = taskNode[u]
  BY DEF BindTask, BindTwice, Inv, TypeOK, Bound
<1> QED BY <1>3, <1>4 DEF NumaStep

LEMMA NextNuma == ASSUME Inv, [Next]_vars PROVE NumaStep
<1>1. CASE UNCHANGED <<taskNode, grpNode>>
  BY <1>1 DEF NumaStep, NumaOf
<1>2. ASSUME NEW t \in Tids, RetryErr(t) PROVE NumaStep
  <2>1. t \in Bound
    BY <1>2, BindingAssumption DEF RetryErr, Inv, RetryNamesBound, TypeOK
  <2> QED BY <1>2, <2>1, UnbindNuma DEF RetryErr
<1>3. ASSUME NEW t \in Tids, Reap(t) PROVE NumaStep
  <2>1. CASE UNCHANGED tables
    BY <1>1, <2>1 DEF tables
  <2>2. CASE UnbindTask(t)
    BY <1>3, <2>2, UnbindNuma DEF Reap, Inv, BindInv
  <2> QED BY <1>3, <2>1, <2>2 DEF Reap
<1>4. ASSUME NEW P \in Detections, Regroup(P) PROVE NumaStep
  <2>1. CASE Panic
    BY <1>1, <2>1 DEF Panic, tables
  <2>2. CASE UnbindAll
    <3>1. \A t \in Tids : taskNode'[t] = NoNode
      BY <2>2 DEF UnbindAll
    <3>2. \A g \in Name : grpNode'[g] = grpNode[g] \/ grpNode'[g] = NoNode
      BY <2>2 DEF UnbindAll
    <3> QED BY <3>1, <3>2 DEF NumaStep, Bound, Groups
  <2> QED BY <1>4, <2>1, <2>2 DEF Regroup
<1>5. CASE Tick \/ Threads \/ BalanceDone \/ RetryStale \/ RetryDone \/ ScanDone \/ DetectDone
           \/ BindDone \/ ReapDone \/ UNCHANGED vars
  BY <1>1, <1>5 DEF Tick, StartPass, Threads, Spawn, Exit, BalanceDone, RetryStale, RetryDone,
     ScanDone, DetectDone, BindDone, ReapDone, Panic, vars, tables
<1>6. ASSUME NEW g \in Name, KeepGroup(g) \/ BeginMigrate(g) PROVE NumaStep
  BY <1>1, <1>6 DEF KeepGroup, BeginMigrate, tables
<1>7. ASSUME NEW t \in Tids, MigrateTask(t) \/ MigrateNil(t) \/ RetryOk(t) PROVE NumaStep
  BY <1>1, <1>7, MigrateTaskNuma DEF MigrateNil, Panic, RetryOk, tables
<1>8. ASSUME NEW g \in SchedNames, BindMembers(g) \/ NoMembers(g) \/ EmptyNetPanic(g)
      PROVE  NumaStep
  BY <1>1, <1>8 DEF BindMembers, NoMembers, EmptyNetPanic, StartBind, Panic, tables
<1>9. ASSUME NEW ts \in detected, BindDetected(ts) PROVE NumaStep
  BY <1>1, <1>9 DEF BindDetected, StartBind, tables
<1>10. ASSUME NEW t \in Tids, BindTask(t) \/ BindTwice(t) \/ BindNil(t) PROVE NumaStep
  BY <1>1, <1>10, BindNuma DEF BindNil, Panic, tables
<1> QED
  BY <1>2, <1>3, <1>4, <1>5, <1>6, <1>7, <1>8, <1>9, <1>10, MigrateEndNuma DEF Next, PassStep

(***************************************************************************)
(* The theorems.                                                           *)
(***************************************************************************)

\* The strengthened invariant holds in every state of every behaviour.
THEOREM Invariance == Spec => []Inv
<1>1. Init => Inv
  BY InitInv
<1>2. Inv /\ [Next]_vars => Inv'
  BY NextInv
<1> QED BY <1>1, <1>2, PTL DEF Spec

\* Type correctness: the tables, the retry list and the loop variables stay in
\* their types, on every machine and for every workload.
THEOREM TypeCorrect == Spec => []TypeOK
<1>1. Inv => TypeOK
  BY DEF Inv
<1> QED BY <1>1, Invariance, PTL

\* The five structures of bindTasksToNuma, migrateTaskToTopoNode and
\* UnbindTaskPolicy agree about every task between any two steps.
THEOREM BookkeepingHolds == Spec => []Bookkeeping
<1>1. Inv => Bookkeeping
  BY DEF Inv
<1> QED BY <1>1, Invariance, PTL

\* Every bound task is on its group's node or below it, migrations included.
THEOREM TaskUnderGroupHolds == Spec => []TaskUnderGroup
<1>1. Inv => TaskUnderGroup
  BY DEF Inv
<1> QED BY <1>1, Invariance, PTL

\* The retry list names bound tasks, or tasks it has forgotten: an element never
\* names a task of the tables that is not bound.
THEOREM RetryNamesBoundHolds == Spec => []RetryNamesBound
<1>1. Inv => RetryNamesBound
  BY DEF Inv
<1> QED BY <1>1, Invariance, PTL

\* Balancing happens inside NUMA nodes: a task and its group keep theirs from
\* being bound to being unbound (BalanceTaskPolicy).
THEOREM NumaConfinementHolds == Spec => NumaConfinement
<1>1. Inv /\ [Next]_vars => [NumaStep]_vars
  BY NextNuma
<1> QED BY <1>1, Invariance, PTL DEF Spec, NumaConfinement

-----------------------------------------------------------------------------
(***************************************************************************)
(* What the passes keep up: the counters of binds, which cover the tasks   *)
(* and the groups that sit on a node however they come and go; the         *)
(* affinities, of which no refused one is lost; the loads of the tree; and *)
(* the placement of groups that the passes implement.                      *)
(***************************************************************************)

\* The groups that sit on a node
GroupsOn(n) == {g \in Groups : grpNode[g] = n}

CountInv == Inv /\ IsFiniteSet(Groups) /\ BindCountCovers

-----------------------------------------------------------------------------

LEMMA Finite ==
    ASSUME Inv, IsFiniteSet(Groups), NEW n \in Node
    PROVE  /\ IsFiniteSet(attach[n]) /\ Cardinality(attach[n]) \in Nat
           /\ IsFiniteSet(GroupsOn(n)) /\ Cardinality(GroupsOn(n)) \in Nat
           /\ bindCount[n] \in Int
<1>1. attach[n] \subseteq Tids /\ bindCount[n] \in Int
  BY DEF Inv, TypeOK
<1>2. IsFiniteSet(attach[n]) /\ IsFiniteSet(GroupsOn(n))
  BY <1>1, BindingAssumption, FS_Subset DEF GroupsOn
<1> QED
  BY <1>1, <1>2, FS_CardinalityType

\* A node that gains nothing and whose counter does not fall stays covered
LEMMA NothingGained ==
    ASSUME CountInv, NEW n \in Node,
           attach'[n] \subseteq attach[n], GroupsOn(n)' \subseteq GroupsOn(n),
           bindCount'[n] >= bindCount[n], bindCount'[n] \in Int
    PROVE  bindCount'[n] >= BindRefs(n)'
<1> USE DEF CountInv
<1>1. Cardinality(attach'[n]) \in Nat /\ Cardinality(attach'[n]) <= Cardinality(attach[n])
  BY Finite, FS_Subset, FS_CardinalityType
<1>2. Cardinality(GroupsOn(n)') \in Nat /\ Cardinality(GroupsOn(n)') <= Cardinality(GroupsOn(n))
  BY Finite, FS_Subset, FS_CardinalityType
<1>3. bindCount[n] >= Cardinality(attach[n]) + Cardinality(GroupsOn(n))
  BY DEF BindCountCovers, BindRefs, GroupsOn
<1>4. BindRefs(n)' = Cardinality(attach'[n]) + Cardinality(GroupsOn(n)')
  BY DEF BindRefs, GroupsOn
<1> QED
  BY <1>1, <1>2, <1>3, <1>4, Finite

LEMMA KeptCounts ==
    ASSUME CountInv, UNCHANGED <<attach, grpNode, bindCount>>
    PROVE  IsFiniteSet(Groups)' /\ BindCountCovers'
BY DEF CountInv, BindCountCovers, BindRefs, Groups

\* UnbindTaskPolicy takes the task's bind back
LEMMA UnbindCounts ==
    ASSUME CountInv, NEW t \in Bound, UnbindTask(t)
    PROVE  IsFiniteSet(Groups)' /\ BindCountCovers'
<1> DEFINE at == taskNode[t]
<1>1. /\ attach' = [attach EXCEPT ![at] = @ \ {t}]
      /\ bindCount' = [bindCount EXCEPT ![at] = @ + (-1)]
  BY DEF UnbindTask, Plus
<1>2. Inv /\ TypeOK /\ Bookkeeping /\ IsFiniteSet(Groups)
  BY DEF CountInv, Inv
<1>3. at \in Node /\ t \in Tids /\ t \in attach[at] /\ taskGroup[t] \in Name
  BY <1>2 DEF TypeOK, Bookkeeping, Bound
<1>4. \A g \in Name : grpNode'[g] \in {grpNode[g], NoNode}
  BY <1>2, <1>3 DEF UnbindTask, TypeOK
<1>5. Groups' \subseteq Groups /\ \A g \in Groups' : grpNode'[g] = grpNode[g]
  BY <1>4 DEF Groups
<1>6. \A n \in Node : GroupsOn(n)' \subseteq GroupsOn(n)
  BY <1>5 DEF GroupsOn
<1>7. IsFiniteSet(Groups)'
  BY <1>2, <1>5, FS_Subset
<1> HIDE DEF at
<1>8. ASSUME NEW n \in Node PROVE bindCount'[n] >= BindRefs(n)'
  <2>1. CASE n # at
    <3>1. attach'[n] = attach[n] /\ bindCount'[n] = bindCount[n] /\ bindCount[n] \in Int
      BY <1>1, <1>2, <2>1 DEF TypeOK
    <3> QED
      BY <1>6, <3>1, NothingGained
  <2>2. CASE n = at
    <3>1. attach'[n] = attach[n] \ {t} /\ bindCount'[n] = bindCount[n] - 1
      BY <1>1, <1>2, <2>2 DEF TypeOK
    <3>2. Cardinality(attach'[n]) = Cardinality(attach[n]) - 1
      BY <1>2, <1>3, <2>2, <3>1, Finite, FS_RemoveElement
    <3>3. Cardinality(GroupsOn(n)') \in Nat /\ Cardinality(GroupsOn(n)') <= Cardinality(GroupsOn(n))
      BY <1>2, <1>6, Finite, FS_Subset, FS_CardinalityType
    <3>4. bindCount[n] >= Cardinality(attach[n]) + Cardinality(GroupsOn(n))
      BY DEF CountInv, BindCountCovers, BindRefs, GroupsOn
    <3>5. BindRefs(n)' = Cardinality(attach'[n]) + Cardinality(GroupsOn(n)')
      BY DEF BindRefs, GroupsOn
    <3> QED
      BY <1>2, <3>1, <3>2, <3>3, <3>4, <3>5, Finite
  <2> QED
    BY <2>1, <2>2
<1> QED
  BY <1>7, <1>8 DEF BindCountCovers

\* unbindAllTasks takes back as many binds as there are tasks on the node
LEMMA UnbindAllCounts ==
    ASSUME CountInv, UnbindAll
    PROVE  IsFiniteSet(Groups)' /\ BindCountCovers'
<1>1. Inv /\ TypeOK /\ Bookkeeping /\ IsFiniteSet(Groups)
  BY DEF CountInv, Inv
<1>2. Groups' \subseteq Groups /\ \A g \in Groups' : grpNode'[g] = grpNode[g]
  BY DEF UnbindAll, Groups
<1>3. IsFiniteSet(Groups)'
  BY <1>1, <1>2, FS_Subset
<1>4. ASSUME NEW n \in Node PROVE bindCount'[n] >= BindRefs(n)'
  <2>1. {t \in Bound : taskNode[t] = n} = attach[n] /\ attach[n] \subseteq Bound
    BY <1>1, TopologyAssumption DEF TypeOK, Bookkeeping, Bound
  <2>2. attach'[n] = {} /\ bindCount'[n] = bindCount[n] - Cardinality(attach[n])
    BY <2>1 DEF UnbindAll
  <2>3. GroupsOn(n)' \subseteq GroupsOn(n)
    BY <1>2 DEF GroupsOn
  <2>4. Cardinality(GroupsOn(n)') \in Nat /\ Cardinality(GroupsOn(n)') <= Cardinality(GroupsOn(n))
    BY <1>1, <2>3, Finite, FS_Subset, FS_CardinalityType
  <2>5. bindCount[n] >= Cardinality(attach[n]) + Cardinality(GroupsOn(n))
    BY DEF CountInv, BindCountCovers, BindRefs, GroupsOn
  <2>6. BindRefs(n)' = Cardinality(attach'[n]) + Cardinality(GroupsOn(n)')
    BY DEF BindRefs, GroupsOn
  <2>7. Cardinality(attach'[n]) = 0
    BY <2>2, FS_EmptySet
  <2> QED
    BY <1>1, <2>2, <2>4, <2>5, <2>6, <2>7, Finite
<1> QED
  BY <1>3, <1>4 DEF BindCountCovers

\* A migrating task takes its bind along
LEMMA MigrateTaskCounts ==
    ASSUME CountInv, NEW t \in Tids, MigrateTask(t)
    PROVE  IsFiniteSet(Groups)' /\ BindCountCovers'
<1>1. Inv /\ TypeOK /\ Bookkeeping /\ IsFiniteSet(Groups)
  BY DEF CountInv, Inv
<1> DEFINE old == taskNode[t]
<1>2. PICK new \in Node :
         /\ attach' = [attach EXCEPT ![old] = @ \ {t}, ![new] = @ \cup {t}]
         /\ bindCount' = Plus(Plus(bindCount, old, -1), new, 1)
         /\ old \in Node
  BY <1>1, MigrateTaskFacts
<1>3. t \in attach[old] /\ \A n \in Node \ {old} : t \notin attach[n]
  BY <1>1, <1>2 DEF Bookkeeping
<1>4. grpNode' = grpNode /\ Groups' = Groups
  BY DEF MigrateTask, Groups
<1> HIDE DEF old
<1>5. ASSUME NEW n \in Node PROVE bindCount'[n] >= BindRefs(n)'
  <2>1. bindCount[n] \in Int /\ bindCount \in [Node -> Int] /\ attach \in [Node -> SUBSET Tids]
    BY <1>1 DEF TypeOK
  <2>2. GroupsOn(n)' = GroupsOn(n)
    BY <1>4 DEF GroupsOn
  <2>6. bindCount[n] >= Cardinality(attach[n]) + Cardinality(GroupsOn(n))
    BY DEF CountInv, BindCountCovers, BindRefs, GroupsOn
  <2>7. BindRefs(n)' = Cardinality(attach'[n]) + Cardinality(GroupsOn(n))
    BY <2>2 DEF BindRefs, GroupsOn
  <2>3. CASE old = new \/ n \notin {old, new}
    <3>1. attach'[n] = attach[n]
      BY <1>2, <1>3, <2>1, <2>3
    <3>2. bindCount'[n] = bindCount[n]
      BY <1>2, <2>1, <2>3 DEF Plus
    <3> QED
      BY <2>1, <2>2, <3>1, <3>2, NothingGained
  <2>4. CASE old # new /\ n = old
    <3>1. attach'[n] = attach[n] \ {t}
      BY <1>2, <2>1, <2>4
    <3>2. bindCount'[n] = bindCount[n] - 1
      BY <1>2, <2>1, <2>4 DEF Plus
    <3>3. Cardinality(attach'[n]) = Cardinality(attach[n]) - 1
      BY <1>1, <1>3, <2>4, <3>1, Finite, FS_RemoveElement
    <3> QED
      BY <1>1, <2>6, <2>7, <3>2, <3>3, Finite
  <2>5. CASE old # new /\ n = new
    <3>1. attach'[n] = attach[n] \cup {t}
      BY <1>2, <2>1, <2>5
    <3>2. bindCount'[n] = bindCount[n] + 1
      BY <1>2, <2>1, <2>5 DEF Plus
    <3>3. IsFiniteSet(attach[n]) /\ t \notin attach[n]
      BY <1>1, <1>3, <2>5, Finite
    <3>4. Cardinality(attach'[n]) = Cardinality(attach[n]) + 1
      BY <3>1, <3>3, FS_AddElement
    <3> QED
      BY <1>1, <2>6, <2>7, <3>2, <3>4, Finite
  <2> QED
    BY <2>3, <2>4, <2>5
<1> QED
  BY <1>1, <1>4, <1>5 DEF BindCountCovers

\* A group's bind goes with it at the end of its migration
LEMMA MigrateEndCounts ==
    ASSUME CountInv, MigrateEnd
    PROVE  IsFiniteSet(Groups)' /\ BindCountCovers'
<1>1. Inv /\ TypeOK /\ IsFiniteSet(Groups) /\ NoNode \notin Node
  BY TopologyAssumption DEF CountInv, Inv
<1> DEFINE g == curGroup
           src == grpNode[g]
           dst == curNode
<1>2. /\ bindCount' = Plus(Plus(bindCount, src, -1), dst, 1)
      /\ grpNode' = [grpNode EXCEPT ![g] = dst] /\ attach' = attach
  BY DEF MigrateEnd
<1>3. g \in Groups /\ g \in Name /\ dst \in Node /\ src \in Node
  BY <1>1 DEF MigrateEnd, Inv, BalanceInv, Groups, TypeOK
<1> HIDE DEF g, src, dst
<1>4. Groups' = Groups
  BY <1>1, <1>2, <1>3 DEF Groups, TypeOK
<1>5. ASSUME NEW h \in Groups PROVE grpNode'[h] = IF h = g THEN dst ELSE grpNode[h]
  BY <1>1, <1>2 DEF Groups, TypeOK
<1>6. ASSUME NEW n \in Node PROVE bindCount'[n] >= BindRefs(n)'
  <2>1. bindCount \in [Node -> Int]
    BY <1>1 DEF TypeOK
  <2>2. g \in GroupsOn(n) <=> n = src
    BY <1>3 DEF GroupsOn, src
  <2>3. CASE src = dst \/ n \notin {src, dst}
    <3>1. GroupsOn(n)' = GroupsOn(n)
      BY <1>4, <1>5, <2>2, <2>3 DEF GroupsOn
    <3>2. bindCount'[n] = bindCount[n]
      BY <1>2, <2>1, <2>3 DEF Plus
    <3> QED
      BY <1>2, <2>1, <3>1, <3>2, NothingGained
  <2>4. CASE src # dst /\ n = src
    <3>1. GroupsOn(n)' = GroupsOn(n) \ {g}
      BY <1>4, <1>5, <2>4 DEF GroupsOn
    <3>2. bindCount'[n] = bindCount[n] - 1
      BY <1>2, <2>1, <2>4 DEF Plus
    <3>3. Cardinality(GroupsOn(n)') = Cardinality(GroupsOn(n)) - 1
      BY <1>1, <2>2, <2>4, <3>1, Finite, FS_RemoveElement
    <3>4. BindRefs(n)' = Cardinality(attach[n]) + Cardinality(GroupsOn(n)')
      BY <1>2 DEF BindRefs, GroupsOn
    <3>5. bindCount[n] >= Cardinality(attach[n]) + Cardinality(GroupsOn(n))
      BY DEF CountInv, BindCountCovers, BindRefs, GroupsOn
    <3> QED
      BY <1>1, <3>2, <3>3, <3>4, <3>5, Finite
  <2>5. CASE src # dst /\ n = dst
    <3>1. GroupsOn(n)' = GroupsOn(n) \cup {g}
      BY <1>3, <1>4, <1>5, <2>5 DEF GroupsOn
    <3>2. bindCount'[n] = bindCount[n] + 1
      BY <1>2, <2>1, <2>5 DEF Plus
    <3>3. Cardinality(GroupsOn(n)') = Cardinality(GroupsOn(n)) + 1
      BY <1>1, <2>2, <2>5, <3>1, Finite, FS_AddElement
    <3>4. BindRefs(n)' = Cardinality(attach[n]) + Cardinality(GroupsOn(n)')
      BY <1>2 DEF BindRefs, GroupsOn
    <3>5. bindCount[n] >= Cardinality(attach[n]) + Cardinality(GroupsOn(n))
      BY DEF CountInv, BindCountCovers, BindRefs, GroupsOn
    <3> QED
      BY <1>1, <3>2, <3>3, <3>4, <3>5, Finite
  <2> QED
    BY <2>3, <2>4, <2>5
<1> QED
  BY <1>1, <1>4, <1>6 DEF BindCountCovers

\* makeBindGroupByNumaID counts a new group, and only a new one
LEMMA GroupCounts ==
    ASSUME CountInv, pc = "bind", NEW gn \in GroupNode(curGroup),
           grpNode' = [grpNode EXCEPT ![curGroup] = gn]
    PROVE  /\ IsFiniteSet(Groups)'
           /\ \A n \in Node :
                /\ Cardinality(GroupsOn(n)') \in Nat
                /\ GroupBinds(curGroup, gn)[n] \in Int
                /\ GroupBinds(curGroup, gn)[n] >=
                      Cardinality(attach[n]) + Cardinality(GroupsOn(n)')
<1>1. Inv /\ TypeOK /\ IsFiniteSet(Groups) /\ NoNode \notin Node
  BY TopologyAssumption DEF CountInv, Inv
<1> DEFINE g == curGroup
           binds == GroupBinds(curGroup, gn)
<1>2. /\ g \in Name /\ gn \in Node /\ (g \in Groups => gn = grpNode[g])
      /\ binds \in [Node -> Int]
  BY <1>1, GroupNodeFacts
<1>3. binds = IF g \in Groups THEN bindCount ELSE Plus(bindCount, gn, 1)
  BY DEF GroupBinds
<1> HIDE DEF g, binds
<1>4. grpNode' = [grpNode EXCEPT ![g] = gn]
  BY DEF g
<1>5. Groups' = Groups \cup {g} /\ \A h \in Groups : h # g => grpNode'[h] = grpNode[h]
  BY <1>1, <1>2, <1>4 DEF Groups, TypeOK
<1>6. grpNode'[g] = gn
  BY <1>1, <1>2, <1>4 DEF TypeOK
<1>7. IsFiniteSet(Groups)'
  BY <1>1, <1>5, FS_AddElement
<1>8. ASSUME NEW n \in Node
      PROVE  /\ Cardinality(GroupsOn(n)') \in Nat
             /\ binds[n] >= Cardinality(attach[n]) + Cardinality(GroupsOn(n)')
  <2>1. bindCount[n] >= Cardinality(attach[n]) + Cardinality(GroupsOn(n))
    BY DEF CountInv, BindCountCovers, BindRefs, GroupsOn
  <2>2. CASE g \in Groups
    <3>1. GroupsOn(n)' = GroupsOn(n)
      BY <1>2, <1>5, <1>6, <2>2 DEF GroupsOn
    <3> QED
      BY <1>1, <1>3, <2>1, <2>2, <3>1, Finite
  <2>3. CASE g \notin Groups /\ n # gn
    <3>1. GroupsOn(n)' = GroupsOn(n)
      BY <1>5, <1>6, <2>3 DEF GroupsOn
    <3>2. binds[n] = bindCount[n]
      BY <1>1, <1>3, <2>3 DEF Plus, TypeOK
    <3> QED
      BY <1>1, <2>1, <3>1, <3>2, Finite
  <2>4. CASE g \notin Groups /\ n = gn
    <3>1. GroupsOn(n)' = GroupsOn(n) \cup {g} /\ g \notin GroupsOn(n)
      BY <1>5, <1>6, <2>4 DEF GroupsOn
    <3>2. Cardinality(GroupsOn(n)') = Cardinality(GroupsOn(n)) + 1
      BY <1>1, <3>1, Finite, FS_AddElement
    <3>3. binds[n] = bindCount[n] + 1
      BY <1>1, <1>3, <2>4 DEF Plus, TypeOK
    <3> QED
      BY <1>1, <2>1, <3>2, <3>3, Finite
  <2> QED
    BY <2>2, <2>3, <2>4
<1> QED
  BY <1>2, <1>7, <1>8 DEF binds

LEMMA BindTaskCounts ==
    ASSUME CountInv, NEW t \in Tids, BindTask(t)
    PROVE  IsFiniteSet(Groups)' /\ BindCountCovers'
<1>1. Inv /\ TypeOK /\ Bookkeeping /\ pc = "bind" /\ t \notin Bound
  BY DEF CountInv, Inv, BindTask
<1>2. PICK gn \in GroupNode(curGroup) : \E m \in TaskNodeIn(gn, GroupBinds(curGroup, gn)) :
         /\ grpNode' = [grpNode EXCEPT ![curGroup] = gn]
         /\ attach' = [attach EXCEPT ![m] = @ \cup {t}]
         /\ bindCount' = Plus(GroupBinds(curGroup, gn), m, 1)
  BY DEF BindTask
<1> DEFINE binds == GroupBinds(curGroup, gn)
<1>3. PICK m \in TaskNodeIn(gn, binds) :
         /\ attach' = [attach EXCEPT ![m] = @ \cup {t}]
         /\ bindCount' = Plus(binds, m, 1)
  BY <1>2
<1>4. gn \in Node /\ binds \in [Node -> Int]
  BY <1>1, GroupNodeFacts
<1>5. m \in Node /\ t \notin attach[m]
  BY <1>1, <1>3, <1>4, TaskNodeFacts, TopologyAssumption DEF Bookkeeping, Bound
<1>6. /\ IsFiniteSet(Groups)'
      /\ \A n \in Node :
           /\ Cardinality(GroupsOn(n)') \in Nat
           /\ binds[n] >= Cardinality(attach[n]) + Cardinality(GroupsOn(n)')
  BY <1>1, <1>2, GroupCounts
<1> HIDE DEF binds
<1>7. ASSUME NEW n \in Node PROVE bindCount'[n] >= BindRefs(n)'
  <2>1. /\ binds[n] \in Int /\ Cardinality(GroupsOn(n)') \in Nat /\ Cardinality(attach[n]) \in Nat
        /\ IsFiniteSet(attach[n])
        /\ binds[n] >= Cardinality(attach[n]) + Cardinality(GroupsOn(n)')
    BY <1>1, <1>4, <1>6, Finite DEF CountInv
  <2>2. BindRefs(n)' = Cardinality(attach'[n]) + Cardinality(GroupsOn(n)')
    BY DEF BindRefs, GroupsOn
  <2>3. CASE n # m
    <3>1. attach'[n] = attach[n] /\ bindCount'[n] = binds[n]
      BY <1>1, <1>3, <1>4, <2>3 DEF Plus, TypeOK
    <3> QED
      BY <2>1, <2>2, <3>1
  <2>4. CASE n = m
    <3>1. attach'[n] = attach[n] \cup {t} /\ bindCount'[n] = binds[n] + 1
      BY <1>1, <1>3, <1>4, <2>4 DEF Plus, TypeOK
    <3>2. IsFiniteSet(attach[n]) /\ t \notin attach[n]
      BY <1>5, <2>1, <2>4
    <3>3. Cardinality(attach'[n]) = Cardinality(attach[n]) + 1
      BY <3>1, <3>2, FS_AddElement
    <3> QED
      BY <2>1, <2>2, <3>1, <3>3
  <2> QED
    BY <2>3, <2>4
<1> QED
  BY <1>6, <1>7 DEF BindCountCovers

LEMMA BindTwiceCounts ==
    ASSUME CountInv, NEW t \in Tids, BindTwice(t)
    PROVE  IsFiniteSet(Groups)' /\ BindCountCovers'
<1>1. PICK gn \in GroupNode(curGroup) :
         /\ grpNode' = [grpNode EXCEPT ![curGroup] = gn]
         /\ bindCount' = GroupBinds(curGroup, gn)
  BY DEF BindTwice
<1>2. pc = "bind" /\ attach' = attach
  BY DEF BindTwice
<1> QED
  BY <1>1, <1>2, GroupCounts DEF BindCountCovers, BindRefs, GroupsOn

LEMMA NextCounts == ASSUME CountInv, [Next]_vars PROVE IsFiniteSet(Groups)' /\ BindCountCovers'
<1>1. CASE Tick \/ Threads \/ UNCHANGED vars
  BY <1>1, KeptCounts DEF Tick, StartPass, Threads, Spawn, Exit, vars, tables
<1>2. ASSUME NEW g \in Name, KeepGroup(g) \/ BeginMigrate(g)
      PROVE  IsFiniteSet(Groups)' /\ BindCountCovers'
  BY <1>2, KeptCounts DEF KeepGroup, BeginMigrate, tables
<1>3. ASSUME NEW t \in Tids, MigrateTask(t)
      PROVE  IsFiniteSet(Groups)' /\ BindCountCovers'
  BY <1>3, MigrateTaskCounts
<1>4. ASSUME NEW t \in Tids, RetryOk(t) \/ MigrateNil(t)
      PROVE  IsFiniteSet(Groups)' /\ BindCountCovers'
  BY <1>4, KeptCounts DEF RetryOk, MigrateNil, Panic, tables
<1>5. ASSUME NEW t \in Tids, RetryErr(t)
      PROVE  IsFiniteSet(Groups)' /\ BindCountCovers'
  <2>1. t \in Bound
    <3>1. retryTasks \in Seq(Tids \cup {Stale}) /\ Stale \notin Tids
      BY BindingAssumption DEF CountInv, Inv, TypeOK
    <3>2. cursor \in DOMAIN retryTasks /\ retryTasks[cursor] = t
      BY <1>5, <3>1 DEF RetryErr, CountInv, Inv, TypeOK
    <3> QED
      BY <3>1, <3>2 DEF CountInv, Inv, RetryNamesBound
  <2> QED
    BY <1>5, <2>1, UnbindCounts DEF RetryErr
<1>6. CASE MigrateEnd
  BY <1>6, MigrateEndCounts
<1>7. CASE BalanceDone \/ RetryStale \/ RetryDone \/ ScanDone \/ DetectDone \/ BindDone \/ ReapDone
  BY <1>7, KeptCounts DEF BalanceDone, RetryStale, RetryDone, ScanDone, DetectDone, BindDone,
                          ReapDone, Panic, tables
<1>8. ASSUME NEW g \in SchedNames, BindMembers(g) \/ NoMembers(g) \/ EmptyNetPanic(g)
      PROVE  IsFiniteSet(Groups)' /\ BindCountCovers'
  BY <1>8, KeptCounts DEF BindMembers, NoMembers, EmptyNetPanic, StartBind, Panic, tables
<1>9. ASSUME NEW P \in Detections, Regroup(P)
      PROVE  IsFiniteSet(Groups)' /\ BindCountCovers'
  BY <1>9, KeptCounts, UnbindAllCounts DEF Regroup, Panic, tables
<1>10. ASSUME NEW ts \in detected, BindDetected(ts)
       PROVE  IsFiniteSet(Groups)' /\ BindCountCovers'
  BY <1>10, KeptCounts DEF BindDetected, StartBind, tables
<1>11. ASSUME NEW t \in Tids, BindTask(t) \/ BindTwice(t) \/ BindNil(t)
       PROVE  IsFiniteSet(Groups)' /\ BindCountCovers'
  BY <1>11, KeptCounts, BindTaskCounts, BindTwiceCounts DEF BindNil, Panic, tables
<1>12. ASSUME NEW t \in Tids, Reap(t)
       PROVE  IsFiniteSet(Groups)' /\ BindCountCovers'
  <2>1. t \in Bound
    BY <1>12 DEF Reap, CountInv, Inv, BindInv
  <2> QED
    BY <1>12, <2>1, KeptCounts, UnbindCounts DEF Reap, tables
<1> QED
  BY <1>1, <1>2, <1>3, <1>4, <1>5, <1>6, <1>7, <1>8, <1>9, <1>10, <1>11, <1>12
     DEF Next, PassStep

\* Across migrations, retries, regroupings and exits, bindCount never forgets a
\* task or a group that sits on a node: what SelectLighterBindNode compares is at
\* least what is bound there (AddBind and SubBind in policy.go).
THEOREM BindCountHolds == Spec => []BindCountCovers
<1>1. Init => CountInv
  <2> SUFFICES ASSUME Init PROVE CountInv
    OBVIOUS
  <2>1. Groups = {} /\ \A n \in Node : attach[n] = {} /\ bindCount[n] = 0
    BY DEF Init, Groups
  <2> QED
    BY <2>1, InitInv, FS_EmptySet DEF CountInv, BindCountCovers, BindRefs
<1>2. CountInv /\ [Next]_vars => CountInv'
  BY NextInv, NextCounts DEF CountInv
<1>3. CountInv => BindCountCovers
  BY DEF CountInv
<1> QED
  BY <1>1, <1>2, <1>3, PTL DEF Spec

-----------------------------------------------------------------------------
(* The affinities *)

\* A non-empty and bounded set of numbers has a greatest one
LEMMA HasMax ==
    ASSUME NEW n \in Nat, NEW T, T \subseteq 1..n, T # {}
    PROVE  \E x \in T : \A y \in T : y <= x
<1> DEFINE D == {n - x : x \in T}
<1>1. D \subseteq Nat /\ D # {}
  <2>1. \A x \in T : n - x \in Nat
    OBVIOUS
  <2> QED
    BY <2>1
<1>2. PICK m \in D : \A d \in D : m <= d
  BY <1>1, NatHasMin
<1>3. PICK x \in T : m = n - x
  OBVIOUS
<1>4. \A y \in T : m <= n - y
  BY <1>2
<1> QED
  BY <1>3, <1>4

\* A thread whose affinity is looked after: it is set, or it will be tried again
Kept(t) == affinity[t] = taskNode[t] \/ Positions(t) # {}

\* Threads that are bound, or about to be, have started
Known ==
    /\ \A t \in Bound : life[t] # "new"
    /\ pc = "bind" => \A t \in todoTids : life[t] # "new"
    /\ \A ts \in detected : \A t \in ts : life[t] # "new"

AffInv == Inv /\ Known /\ AffinityOrRetry

LEMMA LastPositionIn ==
    ASSUME retryTasks \in Seq(Tids \cup {Stale}), NEW t \in Tids, Positions(t) # {}
    PROVE  LastPosition(t) \in Positions(t)
<1>1. Len(retryTasks) \in Nat /\ Positions(t) \subseteq 1..Len(retryTasks)
  BY DEF Positions
<1>2. \E i \in Positions(t) : \A j \in Positions(t) : j <= i
  BY <1>1, HasMax
<1> QED
  BY <1>2 DEF LastPosition

\* Removing a task's element keeps an element of every other task
LEMMA DropRetryOthers ==
    ASSUME retryTasks \in Seq(Tids \cup {Stale}), NEW t \in Tids, NEW u \in Tids, u # t,
           Positions(u) # {}, retryTasks' = DropRetry(t)
    PROVE  Positions(u)' # {}
<1>1. CASE Positions(t) = {}
  BY <1>1 DEF DropRetry, Positions
<1>2. CASE Positions(t) # {}
  <2> DEFINE at(i) == IF i < LastPosition(t) THEN i ELSE i + 1
             len == Len(retryTasks)
  <2>1. retryTasks' = [i \in 1..(len - 1) |->
                          IF retryTasks[at(i)] = t THEN Stale ELSE retryTasks[at(i)]]
    BY <1>2 DEF DropRetry
  <2>2. len \in Nat /\ DOMAIN retryTasks = 1..len
    OBVIOUS
  <2>3. LastPosition(t) \in 1..len /\ retryTasks[LastPosition(t)] = t
    BY <1>2, <2>2, LastPositionIn DEF Positions
  <2>4. PICK j \in 1..len : retryTasks[j] = u
    BY <2>2 DEF Positions
  <2> DEFINE i == IF j < LastPosition(t) THEN j ELSE j - 1
  <2>5. i \in 1..(len - 1) /\ at(i) = j
    BY <2>2, <2>3, <2>4
  <2>6. retryTasks'[i] = u
    BY <2>1, <2>4, <2>5
  <2>7. DOMAIN retryTasks' = 1..(len - 1)
    BY <2>1
  <2> HIDE DEF i
  <2> QED
    BY <2>5, <2>6, <2>7 DEF Positions
<1> QED
  BY <1>1, <1>2

LEMMA AppendKeeps ==
    ASSUME retryTasks \in Seq(Tids \cup {Stale}), NEW t \in Tids, retryTasks' = Append(retryTasks, t)
    PROVE  Positions(t)' # {} /\ \A u \in Tids : Positions(u) # {} => Positions(u)' # {}
<1>1. Len(retryTasks) \in Nat /\ DOMAIN retryTasks = 1..Len(retryTasks)
  OBVIOUS
<1>2. /\ DOMAIN retryTasks' = 1..(Len(retryTasks) + 1)
      /\ retryTasks'[Len(retryTasks) + 1] = t
      /\ \A i \in 1..Len(retryTasks) : retryTasks'[i] = retryTasks[i]
  BY <1>1
<1> QED
  BY <1>1, <1>2 DEF Positions

\* BindToNode sets the affinity of t or puts it on the list, and takes nothing from others
LEMMA BindToNodeKeeps ==
    ASSUME TypeOK, NEW t \in Tids, NEW n \in Node, BindToNode(t, n)
    PROVE  /\ affinity'[t] = n \/ Positions(t)' # {}
           /\ \A u \in Tids \ {t} : affinity'[u] = affinity[u]
                                    /\ (Positions(u) # {} => Positions(u)' # {})
<1>1. CASE Accepted(t, n) /\ UNCHANGED retryTasks
  BY <1>1 DEF Accepted, Positions, TypeOK
<1>2. CASE Refused(t) /\ retryTasks' = Append(retryTasks, t)
  BY <1>2, AppendKeeps DEF Refused, TypeOK
<1> QED
  BY <1>1, <1>2 DEF BindToNode

LEMMA SameAffinity ==
    ASSUME AffInv, UNCHANGED <<taskGroup, taskNode, retryTasks, life, affinity>>
    PROVE  AffinityOrRetry'
BY DEF AffInv, AffinityOrRetry, Bound, Alive, Positions

LEMMA UnbindKeeps ==
    ASSUME AffInv, NEW t \in Bound, UnbindTask(t), UNCHANGED <<life, affinity>>
    PROVE  AffinityOrRetry' /\ Bound' \subseteq Bound
<1>1. TypeOK /\ t \in Tids /\ retryTasks \in Seq(Tids \cup {Stale}) /\ retryTasks' = DropRetry(t)
  BY DEF AffInv, Inv, TypeOK, Bound, UnbindTask
<1>2. /\ \A u \in Tids \ {t} : taskGroup'[u] = taskGroup[u] /\ taskNode'[u] = taskNode[u]
      /\ taskGroup'[t] = NoName
  BY <1>1 DEF UnbindTask, TypeOK
<1>3. ASSUME NEW u \in (Bound' \cap Alive') \ ReuseTids
      PROVE  affinity'[u] = taskNode'[u] \/ Positions(u)' # {}
  <2>1. u \in Tids \ {t} /\ u \in (Bound \cap Alive) \ ReuseTids
    BY <1>2 DEF Bound, Alive
  <2>2. affinity[u] = taskNode[u] \/ Positions(u) # {}
    BY <2>1 DEF AffInv, AffinityOrRetry
  <2> QED
    BY <1>1, <1>2, <2>1, <2>2, DropRetryOthers
<1> QED
  BY <1>2, <1>3 DEF AffinityOrRetry, Bound

-----------------------------------------------------------------------------

LEMMA ThreadsAff == ASSUME AffInv, Threads PROVE Known' /\ AffinityOrRetry'
<1>1. TypeOK
  BY DEF AffInv, Inv
<1>2. UNCHANGED <<taskGroup, taskNode, retryTasks, pc, todoTids, detected>>
  BY DEF Threads, Spawn, Exit, tables, loops
<1>3. PICK t \in Tids : Spawn(t) \/ Exit(t)
  BY DEF Threads
<1>4. \A u \in Tids : life'[u] = "new" => life[u] = "new"
  BY <1>1, <1>3 DEF Spawn, Exit, TypeOK
<1>5. Known'
  <2>1. /\ todoTids \in SUBSET Tids /\ detected \in SUBSET (SUBSET Tids)
    BY <1>1 DEF TypeOK
  <2> QED
    BY <1>2, <1>4, <2>1 DEF AffInv, Known, Bound
<1>6. ASSUME NEW u \in (Bound' \cap Alive') \ ReuseTids
      PROVE  affinity'[u] = taskNode'[u] \/ Positions(u)' # {}
  <2>1. u \in Bound /\ u \in Tids /\ life[u] # "new" /\ life'[u] = "alive"
    BY <1>2 DEF Bound, Alive, AffInv, Known
  <2>2. life[u] = "alive"
    BY <1>1, <1>3, <1>6, <2>1 DEF Spawn, Exit, TypeOK
  <2>3. affinity'[u] = affinity[u]
    BY <1>1, <1>3, <2>1, <2>2 DEF Spawn, Exit, TypeOK
  <2> QED
    BY <1>2, <2>1, <2>2, <2>3 DEF AffInv, AffinityOrRetry, Alive, Positions
<1> QED
  BY <1>5, <1>6 DEF AffinityOrRetry

LEMMA MigrateTaskAff == ASSUME AffInv, NEW t \in Tids, MigrateTask(t)
                        PROVE Bound' = Bound /\ AffinityOrRetry'
<1>1. Inv /\ TypeOK
  BY DEF AffInv, Inv
<1>2. PICK new : BindToNode(t, new) /\ taskNode' = [taskNode EXCEPT ![t] = new] /\ new \in Node
  BY <1>1, MigrateTaskFacts
<1>3. UNCHANGED <<taskGroup, life>>
  BY DEF MigrateTask
<1>4. /\ taskNode'[t] = new /\ \A u \in Tids \ {t} : taskNode'[u] = taskNode[u]
  BY <1>1, <1>2 DEF TypeOK
<1> QED
  BY <1>1, <1>2, <1>3, <1>4, BindToNodeKeeps DEF AffInv, AffinityOrRetry, Bound, Alive

LEMMA BindTaskAff == ASSUME AffInv, NEW t \in Tids, BindTask(t)
                     PROVE Bound' \subseteq Bound \cup {t} /\ AffinityOrRetry'
<1>1. Inv /\ TypeOK /\ pc = "bind" /\ t \notin Bound
  BY DEF AffInv, Inv, BindTask
<1>2. PICK gn \in GroupNode(curGroup) : \E n \in TaskNodeIn(gn, GroupBinds(curGroup, gn)) :
         /\ BindToNode(t, n) /\ taskNode' = [taskNode EXCEPT ![t] = n]
         /\ taskGroup' = [taskGroup EXCEPT ![t] = curGroup]
  BY DEF BindTask
<1>3. gn \in Node /\ GroupBinds(curGroup, gn) \in [Node -> Int]
  BY <1>1, GroupNodeFacts
<1>4. PICK n \in TaskNodeIn(gn, GroupBinds(curGroup, gn)) :
         /\ BindToNode(t, n) /\ taskNode' = [taskNode EXCEPT ![t] = n]
         /\ taskGroup' = [taskGroup EXCEPT ![t] = curGroup]
  BY <1>2
<1>5. n \in Node
  BY <1>1, <1>3, TaskNodeFacts
<1>6. /\ taskNode'[t] = n
      /\ \A u \in Tids \ {t} : taskNode'[u] = taskNode[u] /\ taskGroup'[u] = taskGroup[u]
  BY <1>1, <1>4 DEF TypeOK
<1>7. life' = life
  BY DEF BindTask
<1> QED
  BY <1>1, <1>4, <1>5, <1>6, <1>7, BindToNodeKeeps DEF AffInv, AffinityOrRetry, Bound, Alive

LEMMA RetryOkAff == ASSUME AffInv, NEW t \in Tids, RetryOk(t)
                    PROVE Bound' = Bound /\ AffinityOrRetry'
<1>1. TypeOK /\ UNCHANGED <<taskGroup, taskNode, retryTasks, life>>
  BY DEF AffInv, Inv, RetryOk, tables
<1>2. affinity' = [affinity EXCEPT ![t] = taskNode[t]]
  BY DEF RetryOk, Accepted
<1>3. affinity'[t] = taskNode[t] /\ \A u \in Tids \ {t} : affinity'[u] = affinity[u]
  BY <1>1, <1>2 DEF TypeOK
<1> QED
  BY <1>1, <1>3 DEF AffInv, AffinityOrRetry, Bound, Alive, Positions

\* What a step of a pass may add to the tables and the loops has started
LEMMA KnownKept ==
    ASSUME AffInv, UNCHANGED life,
           \A t \in Bound' : life[t] # "new",
           pc' = "bind" => \A t \in todoTids' : life[t] # "new",
           \A ts \in detected' : \A t \in ts : life[t] # "new"
    PROVE  Known'
BY DEF Known

LEMMA KnownSame ==
    ASSUME AffInv, UNCHANGED <<life, detected>>, Bound' \subseteq Bound,
           pc' = "bind" => pc = "bind" /\ todoTids' \subseteq todoTids
    PROVE  Known'
BY DEF AffInv, Known

LEMMA NextAff == ASSUME AffInv, [Next]_vars PROVE Known' /\ AffinityOrRetry'
<1>0. Inv /\ TypeOK /\ Known
  BY DEF AffInv, Inv
<1>1. CASE UNCHANGED vars
  <2>1. UNCHANGED <<taskGroup, taskNode, retryTasks, life, affinity, pc, todoTids, detected>>
    BY <1>1 DEF vars, tables, loops, env
  <2> QED
    BY <2>1, KnownSame, SameAffinity DEF Bound
<1>2. CASE Threads
  BY <1>2, ThreadsAff
<1>3. CASE Tick \/ BalanceDone \/ RetryStale \/ RetryDone \/ ScanDone \/ DetectDone \/ BindDone
           \/ ReapDone \/ MigrateEnd
  <2>1. /\ UNCHANGED <<taskGroup, taskNode, retryTasks, life, affinity, detected>>
        /\ pc' # "bind"
    BY <1>3 DEF Tick, StartPass, BalanceDone, RetryStale, RetryDone, ScanDone, DetectDone, BindDone,
                ReapDone, MigrateEnd, Panic, tables, loops, env
  <2> QED
    BY <2>1, KnownSame, SameAffinity DEF Bound
<1>4. ASSUME NEW g \in Name, KeepGroup(g) \/ BeginMigrate(g) PROVE Known' /\ AffinityOrRetry'
  <2>1. /\ UNCHANGED <<taskGroup, taskNode, retryTasks, life, affinity, detected>>
        /\ pc' # "bind"
    BY <1>4 DEF KeepGroup, BeginMigrate, tables, loops, env
  <2> QED
    BY <2>1, KnownSame, SameAffinity DEF Bound
<1>5. ASSUME NEW t \in Tids, MigrateTask(t) PROVE Known' /\ AffinityOrRetry'
  <2>1. UNCHANGED <<life, detected>> /\ pc' # "bind" /\ Bound' \subseteq Bound
    BY <1>5, MigrateTaskAff DEF MigrateTask
  <2> QED
    BY <1>5, <2>1, KnownSame, MigrateTaskAff
<1>6. ASSUME NEW t \in Tids, RetryOk(t) PROVE Known' /\ AffinityOrRetry'
  <2>1. UNCHANGED <<life, detected>> /\ pc' # "bind" /\ Bound' \subseteq Bound
    BY <1>6, RetryOkAff DEF RetryOk
  <2> QED
    BY <1>6, <2>1, KnownSame, RetryOkAff
<1>7. ASSUME NEW t \in Tids, RetryErr(t) PROVE Known' /\ AffinityOrRetry'
  <2>1. t \in Bound
    <3>1. retryTasks \in Seq(Tids \cup {Stale}) /\ Stale \notin Tids
      BY <1>0, BindingAssumption DEF TypeOK
    <3>2. cursor \in DOMAIN retryTasks /\ retryTasks[cursor] = t
      BY <1>0, <1>7, <3>1 DEF RetryErr, TypeOK
    <3> QED
      BY <1>0, <3>1, <3>2 DEF Inv, RetryNamesBound
  <2>2. UNCHANGED <<life, affinity, detected>> /\ pc' # "bind"
    BY <1>7 DEF RetryErr, Refused
  <2> QED
    BY <1>7, <2>1, <2>2, KnownSame, UnbindKeeps DEF RetryErr
<1>8. ASSUME NEW t \in Tids, Reap(t) PROVE Known' /\ AffinityOrRetry'
  <2>1. t \in Bound
    BY <1>0, <1>8 DEF Reap, Inv, BindInv
  <2>2. UNCHANGED <<life, affinity, detected>> /\ pc' # "bind"
    BY <1>8 DEF Reap, env
  <2>3. CASE UNCHANGED <<tables, taskLoad, retryTasks>>
    BY <2>2, <2>3, KnownSame, SameAffinity DEF tables, Bound
  <2>4. CASE UnbindTask(t)
    BY <2>1, <2>2, <2>4, KnownSame, UnbindKeeps
  <2> QED
    BY <1>8, <2>3, <2>4 DEF Reap
<1>9. ASSUME NEW g \in SchedNames, BindMembers(g) \/ NoMembers(g) \/ EmptyNetPanic(g)
      PROVE  Known' /\ AffinityOrRetry'
  <2>1. UNCHANGED <<taskGroup, taskNode, retryTasks, life, affinity, detected>>
    BY <1>9 DEF BindMembers, NoMembers, EmptyNetPanic, StartBind, Panic, tables, loops, env
  <2>2. pc' = "bind" => \A t \in todoTids' : life[t] # "new"
    BY <1>9 DEF BindMembers, NoMembers, EmptyNetPanic, StartBind, Panic, Alive
  <2>3. Bound' = Bound
    BY <2>1 DEF Bound
  <2> QED
    BY <1>0, <2>1, <2>2, <2>3, KnownKept, SameAffinity DEF Known
<1>10. ASSUME NEW ts \in detected, BindDetected(ts) PROVE Known' /\ AffinityOrRetry'
  <2>1. UNCHANGED <<taskGroup, taskNode, retryTasks, life, affinity>>
    BY <1>10 DEF BindDetected, StartBind, tables, env
  <2>2. todoTids' = ts /\ detected' \subseteq detected
    BY <1>10 DEF BindDetected, StartBind
  <2>3. Bound' = Bound
    BY <2>1 DEF Bound
  <2> QED
    BY <1>0, <2>1, <2>2, <2>3, KnownKept, SameAffinity DEF Known
<1>11. ASSUME NEW P \in Detections, Regroup(P) PROVE Known' /\ AffinityOrRetry'
  <2>1. CASE Panic
    <3>1. UNCHANGED <<taskGroup, taskNode, retryTasks, life, affinity, detected>> /\ pc' # "bind"
      BY <2>1 DEF Panic, tables, loops, env
    <3> QED
      BY <3>1, KnownSame, SameAffinity DEF Bound
  <2>2. CASE UnbindAll /\ detected' = P /\ UNCHANGED <<pc, life>>
    <3>1. Bound' = {}
      BY <2>2 DEF UnbindAll, Bound
    <3>2. \A ts \in detected' : \A t \in ts : life[t] # "new"
      BY <1>11, <2>2 DEF Regroup
    <3>3. pc' # "bind"
      BY <1>11, <2>2 DEF Regroup
    <3> QED
      BY <2>2, <3>1, <3>2, <3>3, KnownKept DEF AffinityOrRetry
  <2> QED
    BY <1>11, <2>1, <2>2 DEF Regroup
<1>12. ASSUME NEW t \in Tids, BindTask(t) PROVE Known' /\ AffinityOrRetry'
  <2>1. UNCHANGED <<life, detected, pc>> /\ todoTids' \subseteq todoTids /\ t \in todoTids
        /\ pc = "bind"
    BY <1>12 DEF BindTask
  <2>2. Bound' \subseteq Bound \cup {t}
    BY <1>12, BindTaskAff
  <2> QED
    BY <1>0, <1>12, <2>1, <2>2, KnownKept, BindTaskAff DEF Known
<1>13. ASSUME NEW t \in Tids, BindTwice(t) \/ BindNil(t) PROVE Known' /\ AffinityOrRetry'
  <2>1. /\ UNCHANGED <<taskGroup, taskNode, retryTasks, life, affinity, detected>>
        /\ pc = "bind" /\ todoTids' \subseteq todoTids
    BY <1>13 DEF BindTwice, BindNil, Panic, tables, loops, env
  <2> QED
    BY <2>1, KnownSame, SameAffinity DEF Bound
<1>14. ASSUME NEW t \in Tids, MigrateNil(t) PROVE Known' /\ AffinityOrRetry'
  <2>1. /\ UNCHANGED <<taskGroup, taskNode, retryTasks, life, affinity, detected>>
        /\ pc' # "bind"
    BY <1>14 DEF MigrateNil, Panic, tables, loops, env
  <2> QED
    BY <2>1, KnownSame, SameAffinity DEF Bound
<1> QED
  BY <1>1, <1>2, <1>3, <1>4, <1>5, <1>6, <1>7, <1>8, <1>9, <1>10, <1>11, <1>12, <1>13, <1>14
     DEF Next, PassStep

\* No refusal is lost: whatever migrates, is retried, exits or is regrouped, a thread
\* that lives and is bound runs on its node or has an element on the retry list.
THEOREM AffinityOrRetryHolds == Spec => []AffinityOrRetry
<1>1. Init => AffInv
  <2> SUFFICES ASSUME Init PROVE AffInv
    OBVIOUS
  <2>1. Bound = {} /\ pc # "bind" /\ detected = {}
    BY DEF Init, Bound
  <2> QED
    BY <2>1, InitInv DEF AffInv, Known, AffinityOrRetry
<1>2. AffInv /\ [Next]_vars => AffInv'
  BY NextInv, NextAff DEF AffInv
<1>3. AffInv => AffinityOrRetry
  BY DEF AffInv
<1> QED
  BY <1>1, <1>2, <1>3, PTL DEF Spec

(***************************************************************************)
(* TaskBinding implements Placement.                                       *)
(***************************************************************************)

Home == [t \in Tids |-> PlaceOf(taskNode[t])]
Seat == [g \in Name |-> PlaceOf(grpNode[g])]

\* A node at or below a NUMA node has a place, and the nodes below it have the same.
LEMMA PlaceFacts ==
    ASSUME NEW n \in Node, TypeOf[n] <= TypeNUMA
    PROVE  /\ PlaceOf(n) \in Numa /\ PlaceOf(n) # NoNode
           /\ \A m \in Sub[n] : m \in Node /\ PlaceOf(m) = PlaceOf(n)
<1>1. TypeNUMA \in TypeOf[n]..5 /\ n # NoNode
  BY TopologyAssumption, UpFacts DEF TypeNUMA
<1>2. NumaOf(n) \in Node /\ TypeOf[NumaOf(n)] = TypeNUMA
  BY <1>1, ParentOfTypeFacts DEF NumaOf
<1>3. \A m \in Sub[n] : m \in Node /\ NumaOf(m) = NumaOf(n)
  BY <1>1, SameParent DEF NumaOf
<1> QED BY <1>1, <1>2, <1>3, TopologyAssumption DEF PlaceOf, Numa

\* A group has a seat exactly when it exists, a task a home exactly when it is bound.
SeatOk ==
    /\ \A g \in Name : Seat[g] = NoNode <=> g \notin Groups
    /\ \A t \in Tids : t \notin Bound <=> taskGroup[t] = NoName
    /\ \A t \in Tids \ Bound : taskNode[t] = NoNode /\ Home[t] = NoNode
    /\ \A t \in Bound : taskGroup[t] \in Groups /\ taskNode[t] \in Node

LEMMA SeatFacts == Inv => SeatOk
<1> SUFFICES ASSUME Inv PROVE SeatOk
  OBVIOUS
<1>1. TypeOK /\ Bookkeeping /\ GroupLevel
  BY DEF Inv
<1>2. \A g \in Groups : PlaceOf(grpNode[g]) # NoNode
  BY <1>1, PlaceFacts DEF Groups, TypeOK, GroupLevel
<1>3. \A g \in Name : Seat[g] = NoNode <=> g \notin Groups
  BY <1>2 DEF Seat, Groups, PlaceOf
<1>4. \A t \in Tids : t \notin Bound <=> taskGroup[t] = NoName
  BY DEF Bound
<1>5. \A t \in Tids \ Bound : taskNode[t] = NoNode /\ Home[t] = NoNode
  BY <1>1, <1>4 DEF Bookkeeping, Home, PlaceOf
<1>6. \A t \in Bound : taskGroup[t] \in Groups /\ taskNode[t] \in Node
  BY <1>1, <1>4 DEF Bookkeeping, Groups, Bound, TypeOK
<1> QED BY <1>3, <1>4, <1>5, <1>6 DEF SeatOk

LEMMA SeatFactsNext == Inv' => SeatOk'
BY SeatFacts, PTL

\* A task is where its group is.
LEMMA HomeIsSeat == ASSUME Inv, NEW t \in Bound PROVE Home[t] = Seat[taskGroup[t]]
<1> DEFINE g == taskGroup[t]
<1>1. /\ t \in Tids /\ g \in Name /\ g \in Groups /\ grpNode[g] \in Node
      /\ TypeOf[grpNode[g]] <= TypeNUMA
  BY SeatFacts DEF SeatOk, Inv, TypeOK, GroupLevel, Groups, Bound
<1>2. taskNode[t] # NoNode /\ grpNode[g] # NoNode
  BY SeatFacts, TopologyAssumption DEF SeatOk, Groups
<1>3. NumaOf(taskNode[t]) = NumaOf(grpNode[g])
  BY Together
<1> HIDE DEF g
<1>4. PlaceOf(taskNode[t]) = PlaceOf(grpNode[g])
  BY <1>2, <1>3 DEF PlaceOf
<1> QED BY <1>1, <1>4 DEF Home, Seat, g

\* Steps that keep who is in which group, and which groups there are, are not seen:
\* NumaStep says that they keep the places.
LEMMA UnseenStep ==
    ASSUME Inv, Inv', NumaStep, taskGroup' = taskGroup, Groups' = Groups
    PROVE  UNCHANGED Placed!vars
<1>1. \A t \in Tids : Home'[t] = Home[t]
  <2> TAKE t \in Tids
  <2>1. CASE t \in Bound
    <3>1. t \in Bound' /\ taskNode[t] \in Node /\ taskNode'[t] \in Node
      BY <2>1, SeatFacts, SeatFactsNext DEF SeatOk, Bound
    <3>2. NumaOf(taskNode'[t]) = NumaOf(taskNode[t])
      BY <2>1, <3>1, TopologyAssumption DEF NumaStep
    <3> QED BY <3>1, <3>2, TopologyAssumption DEF Home, PlaceOf
  <2>2. CASE t \notin Bound
    <3>1. t \notin Bound'
      BY <2>2 DEF Bound
    <3> QED BY <2>2, <3>1, SeatFacts, SeatFactsNext DEF SeatOk
  <2> QED BY <2>1, <2>2
<1>2. \A g \in Name : Seat'[g] = Seat[g]
  <2> TAKE g \in Name
  <2>1. CASE g \in Groups
    <3>1. grpNode[g] # NoNode /\ grpNode'[g] # NoNode
      BY <2>1 DEF Groups
    <3>2. NumaOf(grpNode'[g]) = NumaOf(grpNode[g])
      BY <2>1, <3>1 DEF NumaStep
    <3> QED BY <3>1, <3>2 DEF Seat, PlaceOf
  <2>2. CASE g \notin Groups
    BY <2>2, SeatFacts, SeatFactsNext DEF SeatOk
  <2> QED BY <2>1, <2>2
<1>3. Home' = Home /\ Seat' = Seat
  BY <1>1, <1>2 DEF Home, Seat
<1> QED BY <1>3 DEF Placed!vars, Home, Seat

\* Binding a thread is joining its group.
LEMMA BindTaskJoins ==
    ASSUME Inv, Inv', NumaStep, NEW t \in Tids, BindTask(t)
    PROVE  Placed!Join(t, curGroup, PlaceOf(grpNode'[curGroup])) /\ curGroup \in Name
           /\ PlaceOf(grpNode'[curGroup]) \in Numa
<1> DEFINE g == curGroup
           p == PlaceOf(grpNode'[g])
<1>1. t \in Tids \ Bound /\ pc = "bind"
  BY DEF BindTask
<1>2. PICK gn \in GroupNode(g) : \E n \in TaskNodeIn(gn, GroupBinds(g, gn)) :
          /\ grpNode' = [grpNode EXCEPT ![g] = gn]
          /\ taskGroup' = [taskGroup EXCEPT ![t] = g]
          /\ taskNode' = [taskNode EXCEPT ![t] = n]
  BY DEF BindTask
<1>3. PICK n \in TaskNodeIn(gn, GroupBinds(g, gn)) :
          /\ grpNode' = [grpNode EXCEPT ![g] = gn]
          /\ taskGroup' = [taskGroup EXCEPT ![t] = g]
          /\ taskNode' = [taskNode EXCEPT ![t] = n]
  BY <1>2
<1>4. /\ g \in Name /\ gn \in Node /\ TypeOf[gn] <= TypeNUMA
      /\ g \in Groups => gn = grpNode[g]
  BY <1>1, <1>2, GroupNodeFacts
<1>5. n \in Sub[gn]
  BY <1>3, <1>4, TaskNodeFacts
<1>6. PlaceOf(gn) \in Numa /\ PlaceOf(n) = PlaceOf(gn)
  BY <1>4, <1>5, PlaceFacts
<1>7. grpNode'[g] = gn /\ p = PlaceOf(gn)
  BY <1>3, <1>4 DEF Inv, TypeOK
<1>8. taskGroup[t] = NoName /\ Seat[g] \in {p, NoNode}
  BY <1>1, <1>4, <1>7, SeatFacts DEF Seat, SeatOk
<1>9. Seat' = [Seat EXCEPT ![g] = p]
  BY <1>3, <1>4, <1>7 DEF Seat, Inv, TypeOK
<1>10. Home' = [Home EXCEPT ![t] = p]
  BY <1>3, <1>6, <1>7 DEF Home, Inv, TypeOK
<1> QED BY <1>3, <1>4, <1>6, <1>7, <1>8, <1>9, <1>10 DEF Placed!Join, Home, Seat

\* A thread bound already may open its group.
LEMMA BindTwiceOpens ==
    ASSUME Inv, Inv', NEW t \in Tids, BindTwice(t)
    PROVE  [Placed!Next]_(Placed!vars)
<1>1. PICK gn \in GroupNode(curGroup) : grpNode' = [grpNode EXCEPT ![curGroup] = gn]
  BY DEF BindTwice
<1>2. /\ curGroup \in Name /\ gn \in Node /\ TypeOf[gn] <= TypeNUMA
      /\ curGroup \in Groups => gn = grpNode[curGroup]
  BY <1>1, GroupNodeFacts DEF BindTwice
<1>3. taskGroup' = taskGroup /\ Home' = Home
  BY DEF BindTwice, Home
<1>4. PlaceOf(gn) \in Numa /\ Seat' = [Seat EXCEPT ![curGroup] = PlaceOf(gn)]
  BY <1>1, <1>2, PlaceFacts DEF Seat, Inv, TypeOK
<1>5. CASE curGroup \in Groups
  <2>1. grpNode' = grpNode
    BY <1>1, <1>2, <1>5 DEF Inv, TypeOK
  <2> QED BY <1>3, <2>1 DEF Placed!vars, Home
<1>6. CASE curGroup \notin Groups
  <2>1. Seat[curGroup] = NoNode
    BY <1>2, <1>6, SeatFacts DEF SeatOk
  <2>2. Placed!Open(curGroup, PlaceOf(gn))
    BY <1>3, <1>4, <2>1 DEF Placed!Open, Home, Seat
  <2> QED BY <1>2, <1>4, <2>2 DEF Placed!Next
<1> QED BY <1>5, <1>6

\* Unbinding a task is leaving, and its group closes with its last task.
LEMMA UnbindLeaves ==
    ASSUME Inv, NEW t \in Bound, UnbindTask(t)
    PROVE  Placed!Leave({t})
<1> DEFINE g == taskGroup[t]
<1>1. TypeOK /\ Bookkeeping /\ t \in Tids /\ g \in Name /\ g # NoName
  BY BindingAssumption DEF Inv, TypeOK, Bound
<1>2. /\ taskGroup' = [taskGroup EXCEPT ![t] = NoName]
      /\ taskNode' = [taskNode EXCEPT ![t] = NoNode]
      /\ grpNode' = IF grpTasks[g] = {t} THEN [grpNode EXCEPT ![g] = NoNode] ELSE grpNode
  BY DEF UnbindTask
<1> DEFINE mem(h) == {u \in Tids : taskGroup[u] = h}
<1>3. \A h \in Name : grpTasks[h] = mem(h)
  BY <1>1 DEF TypeOK, Bookkeeping
<1>4. \A h \in Name : mem(h) # {} /\ mem(h) \subseteq {t} <=> h = g /\ grpTasks[g] = {t}
  BY <1>1, <1>3
<1>5. \A h \in Name : Seat'[h] = IF mem(h) # {} /\ mem(h) \subseteq {t} THEN NoNode ELSE Seat[h]
  <2> HIDE DEF mem, g
  <2>1. \A h \in Name : grpNode'[h] = IF h = g /\ grpTasks[g] = {t} THEN NoNode ELSE grpNode[h]
    BY <1>1, <1>2 DEF TypeOK
  <2> QED BY <1>4, <2>1 DEF Seat, PlaceOf
<1>6. \A u \in Tids : /\ taskGroup'[u] = IF u \in {t} THEN NoName ELSE taskGroup[u]
                      /\ Home'[u] = IF u \in {t} THEN NoNode ELSE Home[u]
  BY <1>1, <1>2 DEF TypeOK, Home, PlaceOf
<1>7. taskGroup' = [u \in Tids |-> IF u \in {t} THEN NoName ELSE taskGroup[u]]
  BY <1>1, <1>2, <1>6 DEF TypeOK
<1>8. Home' = [u \in Tids |-> IF u \in {t} THEN NoNode ELSE Home[u]]
  BY <1>6 DEF Home
<1>9. Seat' = [h \in Name |-> IF mem(h) # {} /\ mem(h) \subseteq {t} THEN NoNode ELSE Seat[h]]
  BY <1>5 DEF Seat
<1>10. taskGroup[t] # NoName
  BY <1>1
<1> QED BY <1>7, <1>8, <1>9, <1>10 DEF Placed!Leave, Placed!Company, Home, Seat

\* unbindAllTasks is everybody leaving; a group without tasks stays.
LEMMA UnbindAllLeaves == ASSUME Inv, UnbindAll PROVE Placed!Leave(Bound)
<1>1. TypeOK /\ Bookkeeping
  BY DEF Inv
<1>2. /\ taskGroup' = [t \in Tids |-> NoName] /\ taskNode' = [t \in Tids |-> NoNode]
      /\ grpNode' = [g \in Name |-> IF grpTasks[g] # {} THEN NoNode ELSE grpNode[g]]
  BY DEF UnbindAll
<1> DEFINE mem(h) == {u \in Tids : taskGroup[u] = h}
<1>3. \A h \in Name : grpTasks[h] = mem(h) /\ mem(h) \subseteq Bound
  BY <1>1, BindingAssumption DEF TypeOK, Bookkeeping, Bound
<1>4. Seat' = [h \in Name |-> IF mem(h) # {} /\ mem(h) \subseteq Bound THEN NoNode ELSE Seat[h]]
  <2> HIDE DEF mem
  <2> QED BY <1>2, <1>3 DEF Seat, PlaceOf
<1>5. taskGroup' = [u \in Tids |-> IF u \in Bound THEN NoName ELSE taskGroup[u]]
  BY <1>2 DEF Bound
<1>6. Home' = [u \in Tids |-> IF u \in Bound THEN NoNode ELSE Home[u]]
  <2>1. \A u \in Tids : Home'[u] = NoNode
    BY <1>2 DEF Home, PlaceOf
  <2>2. \A u \in Tids \ Bound : Home[u] = NoNode
    BY SeatFacts DEF SeatOk
  <2> QED BY <2>1, <2>2 DEF Home
<1>7. \A t \in Bound : taskGroup[t] # NoName
  BY DEF Bound
<1> QED BY <1>4, <1>5, <1>6, <1>7 DEF Placed!Leave, Placed!Company, Home, Seat

\* Every step of the passes is a step of Placement, or not seen.
LEMMA NextImplements ==
    ASSUME Inv, Inv', [Next]_vars
    PROVE  [Placed!Next]_(Placed!vars)
<1>1. NumaStep
  BY NextNuma
<1>2. CASE taskGroup' = taskGroup /\ Groups' = Groups
  BY <1>1, <1>2, UnseenStep
<1>3. CASE UNCHANGED <<taskGroup, grpNode>>
  BY <1>2, <1>3 DEF Groups
<1>4. ASSUME NEW t \in Bound, UnbindTask(t) PROVE Placed!Next
  <2>1. {t} \in SUBSET Tids
    BY DEF Bound
  <2> QED BY <1>4, <2>1, UnbindLeaves DEF Placed!Next
<1>5. ASSUME NEW t \in Tids, RetryErr(t) PROVE Placed!Next
  <2>1. t \in Bound
    BY <1>5, BindingAssumption DEF RetryErr, Inv, RetryNamesBound, TypeOK
  <2> QED BY <1>4, <1>5, <2>1 DEF RetryErr
<1>6. ASSUME NEW t \in Tids, Reap(t) PROVE [Placed!Next]_(Placed!vars)
  <2>1. CASE UNCHANGED tables
    BY <1>3, <2>1 DEF tables
  <2>2. CASE UnbindTask(t)
    BY <1>4, <1>6, <2>2 DEF Reap, Inv, BindInv
  <2> QED BY <1>6, <2>1, <2>2 DEF Reap
<1>7. ASSUME NEW P \in Detections, Regroup(P) PROVE [Placed!Next]_(Placed!vars)
  <2>1. CASE Panic
    BY <1>3, <2>1 DEF Panic, tables
  <2>2. CASE UnbindAll
    <3>1. Bound \in SUBSET Tids
      BY DEF Bound
    <3> QED BY <2>2, <3>1, UnbindAllLeaves DEF Placed!Next
  <2> QED BY <1>7, <2>1, <2>2 DEF Regroup
<1>8. CASE MigrateEnd
  <2>1. taskGroup' = taskGroup /\ grpNode' = [grpNode EXCEPT ![curGroup] = curNode]
    BY <1>8 DEF MigrateEnd
  <2>2. curGroup \in Groups /\ curNode # NoNode
    BY <1>8, TopologyAssumption DEF MigrateEnd, Inv, BalanceInv
  <2>3. Groups' = Groups
    BY <2>1, <2>2 DEF Groups, Inv, TypeOK
  <2> QED BY <1>2, <2>1, <2>3
<1>9. CASE Tick \/ Threads \/ BalanceDone \/ RetryStale \/ RetryDone \/ ScanDone \/ DetectDone
           \/ BindDone \/ ReapDone \/ UNCHANGED vars
  BY <1>3, <1>9 DEF Tick, StartPass, Threads, Spawn, Exit, BalanceDone, RetryStale, RetryDone,
     ScanDone, DetectDone, BindDone, ReapDone, Panic, vars, tables
<1>10. ASSUME NEW g \in Name, KeepGroup(g) \/ BeginMigrate(g)
       PROVE  [Placed!Next]_(Placed!vars)
  BY <1>3, <1>10 DEF KeepGroup, BeginMigrate, tables
<1>11. ASSUME NEW t \in Tids, MigrateTask(t) \/ MigrateNil(t) \/ RetryOk(t)
       PROVE  [Placed!Next]_(Placed!vars)
  BY <1>3, <1>11 DEF MigrateTask, MigrateNil, Panic, RetryOk, tables
<1>12. ASSUME NEW g \in SchedNames, BindMembers(g) \/ NoMembers(g) \/ EmptyNetPanic(g)
       PROVE  [Placed!Next]_(Placed!vars)
  BY <1>3, <1>12 DEF BindMembers, NoMembers, EmptyNetPanic, StartBind, Panic, tables
<1>13. ASSUME NEW ts \in detected, BindDetected(ts) PROVE [Placed!Next]_(Placed!vars)
  BY <1>3, <1>13 DEF BindDetected, StartBind, tables
<1>14. ASSUME NEW t \in Tids, BindTask(t) PROVE Placed!Next
  BY <1>1, <1>14, BindTaskJoins DEF Placed!Next
<1>15. ASSUME NEW t \in Tids, BindTwice(t) \/ BindNil(t) PROVE [Placed!Next]_(Placed!vars)
  BY <1>3, <1>15, BindTwiceOpens DEF BindNil, Panic, tables
<1> QED
  BY <1>5, <1>6, <1>7, <1>8, <1>9, <1>10, <1>11, <1>12, <1>13, <1>14, <1>15 DEF Next, PassStep

\* The passes of policy.go implement Placement: a task joins a group, is where its
\* group is and leaves, whatever is measured, moved, refused or retried in between.
THEOREM PlacementImplemented == Spec => PlacementHolds
<1>1. Init => Placed!Init
  BY DEF Init, Placed!Init, PlaceOf
<1>2. Inv /\ Inv' /\ [Next]_vars => [Placed!Next]_(Placed!vars)
  BY NextImplements
<1> QED BY <1>1, <1>2, Invariance, PTL DEF Spec, PlacementHolds, Placed!Spec

\* No two tasks of a group are in different NUMA nodes, nor is one elsewhere than its
\* group, in any state: bindTasksToNuma and migrateGroup move them together.
THEOREM GroupsTogether == Spec => []Placed!Together
<1>1. Inv => Placed!Together
  BY HomeIsSeat DEF Placed!Together, Bound, Home, Seat, Inv, TypeOK
<1> QED BY <1>1, Invariance, PTL

-----------------------------------------------------------------------------
(* The loads *)

\* An inner node's load is the sum of the loads of its CPUs
Consistent(ld) ==
    /\ ld \in [Node -> Int]
    /\ \A n \in Node : ld[n] = SumOf(ld, CpusOf[n])

LEMMA CpusFacts ==
    ASSUME NEW n \in Node
    PROVE  /\ CpusOf[n] \subseteq Cpu /\ Cpu \subseteq Node /\ IsFiniteSet(CpusOf[n])
           /\ n \in Cpu => CpusOf[n] = {n}
<1>1. CpusOf[n] \subseteq Cpu /\ Cpu \subseteq Node
  BY DEF CpusOf, Cpu
<1>2. IsFiniteSet(CpusOf[n])
  BY <1>1, FS_Subset, TopologyAssumption
<1>3. ASSUME n \in Cpu PROVE CpusOf[n] = {n}
  <2>1. n \in CpusOf[n]
    BY <1>3, SubFacts DEF CpusOf
  <2>2. ASSUME NEW m \in CpusOf[n] PROVE m = n
    <3>1. m \in Cpu /\ n \in Chain[m] /\ m \in Node
      BY <2>2 DEF CpusOf, Sub, Cpu
    <3>2. m \in Chain[m] /\ TypeOf[m] = TypeOf[n]
      BY <1>3, <3>1, Chains DEF ChainFacts, Cpu
    <3> QED
      BY <3>1, <3>2, Chains DEF ChainFacts
  <2> QED
    BY <2>1, <2>2
<1> QED
  BY <1>1, <1>2, <1>3

\* A share is an integer
LEMMA QuotInt == ASSUME NEW a \in Int, NEW b \in Nat, b > 0 PROVE Quot(a, b) \in Int
BY DEF Quot

LEMMA AddLoadConsistent ==
    ASSUME NEW n \in Node, TypeOf[n] # TypeAll, NEW d \in Int, NEW ld, Consistent(ld)
    PROVE  Consistent(AddLoad(n, d, ld))
<1> DEFINE share == IF TypeOf[n] = TypeCPU THEN d ELSE Quot(d, Weight[n])
           K == CpusOf[n]
           new == AddLoad(n, d, ld)
           part == [c \in Cpu |-> IF c \in K THEN share ELSE 0]
<1>1. share \in Int
  BY QuotInt, TopologyAssumption
<1>2. new = [m \in Node |-> ld[m] + share * Cardinality(K \cap CpusOf[m])]
  BY DEF AddLoad
<1> HIDE DEF share, new, K
<1>3. \A m \in Node : Cardinality(K \cap CpusOf[m]) \in Nat
  BY CpusFacts, FS_Subset, FS_CardinalityType
<1>4. new \in [Node -> Int]
  BY <1>1, <1>2, <1>3 DEF Consistent
<1>5. ASSUME NEW c \in Cpu PROVE new[c] = ld[c] + part[c]
  <2>1. c \in Node /\ CpusOf[c] = {c}
    BY CpusFacts DEF Cpu
  <2>2. CASE c \in K
    <3>1. K \cap CpusOf[c] = {c}
      BY <2>1, <2>2
    <3>2. Cardinality(K \cap CpusOf[c]) = 1
      BY <3>1, FS_Singleton
    <3>3. new[c] = ld[c] + share * 1
      BY <1>2, <2>1, <3>2
    <3> QED
      BY <1>1, <2>2, <3>3 DEF Consistent
  <2>3. CASE c \notin K
    <3>1. K \cap CpusOf[c] = {}
      BY <2>1, <2>3
    <3>2. Cardinality(K \cap CpusOf[c]) = 0
      BY <3>1, FS_EmptySet
    <3>3. new[c] = ld[c] + share * 0
      BY <1>2, <2>1, <3>2
    <3> QED
      BY <1>1, <2>1, <2>3, <3>3 DEF Consistent
  <2> QED
    BY <2>2, <2>3
<1>6. ASSUME NEW m \in Node PROVE new[m] = SumOf(new, CpusOf[m])
  <2>1. IsFiniteSet(CpusOf[m]) /\ CpusOf[m] \subseteq Cpu /\ Cpu \subseteq Node
    BY CpusFacts
  <2>2. \A c \in CpusOf[m] : ld[c] \in Int /\ part[c] \in Int /\ new[c] = ld[c] + part[c]
    BY <1>1, <1>5, <2>1 DEF Consistent
  <2>3. \A c \in CpusOf[m] : part[c] = IF c \in K THEN share ELSE 0
    BY <2>1
  <2> HIDE DEF part
  <2>4. SumOf(new, CpusOf[m]) = SumOf(ld, CpusOf[m]) + SumOf(part, CpusOf[m])
    BY <2>1, <2>2, SumAdds
  <2>5. SumOf(part, CpusOf[m]) = share * Cardinality(K \cap CpusOf[m])
    BY <1>1, <2>1, <2>3, SumOn
  <2> QED
    BY <1>2, <2>4, <2>5 DEF Consistent
<1> QED
  BY <1>4, <1>6 DEF Consistent, new

LEMMA SetCpuLoadsConsistent ==
    ASSUME NEW measured \in [Cpu -> Int], NEW ld, Consistent(ld)
    PROVE  Consistent(SetCpuLoads(measured, ld))
<1> DEFINE change == [c \in Cpu |-> measured[c] - ld[c]]
           new == SetCpuLoads(measured, ld)
<1>1. new = [m \in Node |-> ld[m] + SumOf(change, CpusOf[m])]
  BY DEF SetCpuLoads
<1>2. \A c \in Cpu : ld[c] \in Int /\ change[c] \in Int /\ ld[c] + change[c] = measured[c]
  BY DEF Consistent, Cpu
<1> HIDE DEF change, new
<1>3. \A m \in Node : SumOf(change, CpusOf[m]) \in Int
  BY <1>2, CpusFacts, SumInt
<1>4. new \in [Node -> Int]
  BY <1>1, <1>3 DEF Consistent
<1>5. ASSUME NEW c \in Cpu PROVE new[c] = ld[c] + change[c]
  <2>1. c \in Node /\ CpusOf[c] = {c} /\ IsFiniteSet({c})
    BY CpusFacts DEF Cpu
  <2>2. SumOf(change, {c}) = change[c] + SumOf(change, {c} \ {c})
    BY <1>2, <2>1, SumLess
  <2>3. {c} \ {c} = {} /\ IsFiniteSet({})
    BY FS_EmptySet
  <2>4. SumOf(change, {c} \ {c}) = 0
    BY <2>3, SumSteps
  <2>5. SumOf(change, {c}) = change[c]
    BY <1>2, <2>2, <2>4
  <2> QED
    BY <1>1, <2>1, <2>5
<1>6. ASSUME NEW m \in Node PROVE new[m] = SumOf(new, CpusOf[m])
  <2>1. IsFiniteSet(CpusOf[m]) /\ CpusOf[m] \subseteq Cpu
    BY CpusFacts
  <2>2. \A c \in CpusOf[m] : ld[c] \in Int /\ change[c] \in Int /\ new[c] = ld[c] + change[c]
    BY <1>2, <1>5, <2>1
  <2>3. SumOf(new, CpusOf[m]) = SumOf(ld, CpusOf[m]) + SumOf(change, CpusOf[m])
    BY <2>1, <2>2, SumAdds
  <2> QED
    BY <1>1, <2>3 DEF Consistent
<1> QED
  BY <1>4, <1>6 DEF Consistent, new

\* What is known of the loads: those of the tree add up, those of tasks are not negative
LoadInv == Consistent(load) /\ taskLoad \in [Tids -> Nat]

\* A bound task is on a node that has a mask to divide its load by
LEMMA MigrationNodes ==
    ASSUME Inv, NEW t \in Tids, MigrateTask(t)
    PROVE  \E new \in Node :
             /\ new \in Sub[curNode] /\ TypeOf[new] # TypeAll
             /\ taskNode[t] \in Node /\ taskNode[t] \in Sub[grpNode[curGroup]]
             /\ TypeOf[taskNode[t]] # TypeAll /\ TypeOf[new] = TypeOf[taskNode[t]]
             /\ load' = AddLoad(new, taskLoad[t], AddLoad(taskNode[t], -taskLoad[t], load))
<1>1. PICK new \in SelectLighterBindNode(curNode, TypeOf[taskNode[t]], bindCount) :
         load' = AddLoad(new, taskLoad[t], AddLoad(taskNode[t], -taskLoad[t], load))
  BY DEF MigrateTask
<1>2. /\ taskNode[t] \in Node /\ taskNode[t] \in Sub[grpNode[curGroup]]
  BY MigrateTaskFacts
<1>3. /\ pc = "migrate" /\ curNode \in Node /\ grpNode[curGroup] \in Node
      /\ TypeOf[curNode] < TypeNUMA
  BY DEF MigrateTask, Inv, BalanceInv, Groups, TypeOK
<1>4. new \in Sub[curNode] /\ TypeOf[new] = TypeOf[taskNode[t]] /\ new \in Node
  BY <1>1, <1>3, BindSearchFacts, SubFacts
<1>5. TypeOf[new] # TypeAll
  <2>1. curNode \in Chain[new]
    BY <1>3, <1>4 DEF Sub
  <2>2. TypeOf[new] <= TypeOf[curNode]
    BY <1>4, <2>1, Chains DEF ChainFacts
  <2> QED
    BY <1>3, <1>4, <2>2, UpFacts DEF TypeNUMA, TypeAll
<1> QED
  BY <1>1, <1>2, <1>4, <1>5

LEMMA NextLoads == ASSUME Inv, LoadInv, [Next]_vars PROVE LoadInv'
<1>1. CASE UNCHANGED loads
  BY <1>1 DEF LoadInv, Consistent, loads
<1>2. ASSUME NEW c \in Confs, NEW m \in Measurements, StartPass(c, m) PROVE LoadInv'
  <2>1. m.cpus \in [Cpu -> Int] /\ m.tasks \in [Tids -> Nat]
    BY BindingAssumption
  <2>2. Consistent(SetCpuLoads(m.cpus, load))
    BY <2>1, SetCpuLoadsConsistent DEF LoadInv
  <2>3. taskLoad' \in [Tids -> Nat] /\ load' = SetCpuLoads(m.cpus, load)
    BY <1>2, <2>1 DEF StartPass, LoadInv
  <2> QED
    BY <2>2, <2>3 DEF LoadInv, Consistent
<1>3. ASSUME NEW t \in Tids, MigrateTask(t) PROVE LoadInv'
  <2>1. PICK new \in Node :
             /\ TypeOf[new] # TypeAll /\ taskNode[t] \in Node /\ TypeOf[taskNode[t]] # TypeAll
             /\ load' = AddLoad(new, taskLoad[t], AddLoad(taskNode[t], -taskLoad[t], load))
    BY <1>3, MigrationNodes
  <2> DEFINE less == AddLoad(taskNode[t], -taskLoad[t], load)
  <2>2. taskLoad[t] \in Int /\ -taskLoad[t] \in Int
    BY DEF LoadInv
  <2>3. Consistent(less)
    BY <2>1, <2>2, AddLoadConsistent DEF LoadInv
  <2> HIDE DEF less
  <2>4. Consistent(AddLoad(new, taskLoad[t], less))
    BY <2>1, <2>2, <2>3, AddLoadConsistent
  <2>5. load' = AddLoad(new, taskLoad[t], less) /\ taskLoad' = taskLoad
    BY <1>3, <2>1 DEF less, MigrateTask
  <2> QED
    BY <2>4, <2>5 DEF LoadInv, Consistent
<1>4. ASSUME load' = load, taskLoad' \in [Tids -> Nat] PROVE LoadInv'
  BY <1>4 DEF LoadInv, Consistent
<1>5. ASSUME NEW t \in Tids, load' = load, UnbindTask(t) PROVE LoadInv'
  BY <1>4, <1>5 DEF UnbindTask, LoadInv
<1>6. ASSUME NEW t \in Tids, RetryErr(t) \/ Reap(t) PROVE LoadInv'
  BY <1>1, <1>5, <1>6 DEF RetryErr, Reap, loads
<1>7. ASSUME NEW P \in Detections, Regroup(P) PROVE LoadInv'
  BY <1>1, <1>4, <1>7 DEF Regroup, Panic, UnbindAll, loads
<1>8. ASSUME NEW g \in Name, KeepGroup(g) \/ BeginMigrate(g) PROVE LoadInv'
  BY <1>1, <1>8 DEF KeepGroup, BeginMigrate
<1>9. ASSUME NEW t \in Tids, MigrateNil(t) \/ RetryOk(t) \/ BindTask(t) \/ BindTwice(t) \/ BindNil(t)
      PROVE  LoadInv'
  BY <1>1, <1>9 DEF MigrateNil, RetryOk, BindTask, BindTwice, BindNil, Panic
<1>10. CASE MigrateEnd \/ BalanceDone \/ RetryStale \/ RetryDone \/ ScanDone \/ DetectDone
            \/ BindDone \/ ReapDone \/ UNCHANGED vars
  BY <1>1, <1>10 DEF MigrateEnd, BalanceDone, RetryStale, RetryDone, ScanDone, DetectDone, BindDone,
                     ReapDone, Panic, vars
<1>11. ASSUME NEW g \in SchedNames, BindMembers(g) \/ NoMembers(g) \/ EmptyNetPanic(g) PROVE LoadInv'
  BY <1>1, <1>11 DEF BindMembers, NoMembers, EmptyNetPanic, StartBind, Panic
<1>12. ASSUME NEW ts \in detected, BindDetected(ts) PROVE LoadInv'
  BY <1>1, <1>12 DEF BindDetected, StartBind
<1>13. CASE Threads
  BY <1>1, <1>13 DEF Threads, Spawn, Exit
<1> QED
  BY <1>2, <1>3, <1>6, <1>7, <1>8, <1>9, <1>10, <1>11, <1>12, <1>13 DEF Next, PassStep, Tick

LEMMA InitLoads == ASSUME Init PROVE LoadInv
<1>1. load = [n \in Node |-> 0]
  BY DEF Init
<1>2. ASSUME NEW n \in Node PROVE SumOf(load, CpusOf[n]) = 0
  <2>1. PICK z \in Int : z = 0
    OBVIOUS
  <2>2. /\ IsFiniteSet(CpusOf[n])
        /\ \A c \in CpusOf[n] : load[c] = IF c \in Node THEN z ELSE 0
    BY <1>1, <2>1, CpusFacts
  <2>3. SumOf(load, CpusOf[n]) = z * Cardinality(Node \cap CpusOf[n])
    BY <2>2, SumOn
  <2>4. Cardinality(Node \cap CpusOf[n]) \in Nat
    BY <2>2, FS_Subset, FS_CardinalityType
  <2> QED
    BY <2>1, <2>3, <2>4
<1> QED
  BY <1>1, <1>2 DEF Consistent, LoadInv, Init

\* However truncated the shares that migrations move are, and whatever is measured, an
\* inner node's load stays the sum of its CPUs' loads (SetLoad, SubLoad and AddLoad).
THEOREM LoadTreeHolds == Spec => []LoadTreeConsistent
<1>1. Init => Inv /\ LoadInv
  BY InitInv, InitLoads
<1>2. (Inv /\ LoadInv) /\ [Next]_vars => (Inv /\ LoadInv)'
  BY NextInv, NextLoads
<1>3. Inv /\ LoadInv => LoadTreeConsistent
  BY DEF LoadInv, Consistent, LoadTreeConsistent
<1> QED
  BY <1>1, <1>2, <1>3, PTL DEF Spec

-----------------------------------------------------------------------------
(* Migrations *)

\* What a node's CPUs are given of d is no more than d
LEMMA ShareBounds ==
    ASSUME MasksCover, NEW n \in Node, TypeOf[n] < TypeNUMA, NEW d \in Nat
    PROVE  \E s \in Nat :
             /\ s * Cardinality(CpusOf[n]) \in 0..d
             /\ s = IF TypeOf[n] = TypeCPU THEN d ELSE Quot(d, Weight[n])
             /\ -s = IF TypeOf[n] = TypeCPU THEN -d ELSE Quot(-d, Weight[n])
<1>1. IsFiniteSet(CpusOf[n])
  BY CpusFacts
<1>2. Cardinality(CpusOf[n]) \in Nat /\ Cardinality(CpusOf[n]) <= Weight[n]
  BY <1>1, FS_CardinalityType DEF MasksCover
<1>3. Weight[n] \in Nat /\ Weight[n] > 0
  BY TopologyAssumption, UpFacts DEF TypeNUMA, TypeAll
<1>4. CASE TypeOf[n] = TypeCPU
  <2>1. CpusOf[n] = {n}
    BY <1>4, CpusFacts DEF Cpu
  <2>2. Cardinality(CpusOf[n]) = 1
    BY <2>1, FS_Singleton
  <2>3. d * Cardinality(CpusOf[n]) = d
    BY <2>2
  <2> QED
    BY <1>4, <2>3
<1>5. CASE TypeOf[n] # TypeCPU
  <2> DEFINE w == Weight[n]
             k == Cardinality(CpusOf[n])
             s == d \div w
  <2>1. s \in Nat /\ s * w <= d
    BY <1>3
  <2>2. Quot(d, w) = s /\ Quot(-d, w) = -s
    BY <1>3 DEF Quot
  <2>3. w \in Nat /\ k \in Nat /\ k <= w
    BY <1>2, <1>3
  <2> HIDE DEF w, k, s
  <2>4. s * k \in Nat /\ s * k <= s * w
    BY <2>1, <2>3
  <2>5. s * k \in 0..d
    BY <2>1, <2>3, <2>4
  <2> QED
    BY <1>5, <2>1, <2>2, <2>5 DEF w, k, s
<1> QED
  BY <1>4, <1>5

\* The nodes below a node's nodes are below it; those of one level share none
LEMMA SubsApart ==
    ASSUME NEW a \in Node, NEW b \in Node, TypeOf[a] = TypeOf[b], a # b, NEW n \in Sub[a]
    PROVE  /\ CpusOf[n] \cap CpusOf[a] = CpusOf[n]
           /\ CpusOf[n] \cap CpusOf[b] = {}
<1>1. n \in Node /\ a \in Chain[n]
  BY DEF Sub
<1>2. ASSUME NEW c \in CpusOf[n] PROVE c \in CpusOf[a] /\ c \notin CpusOf[b]
  <2>1. c \in Node /\ c \in Cpu /\ n \in Chain[c]
    BY <1>1 DEF CpusOf, Sub
  <2>2. Chain[n] \subseteq Chain[c]
    BY <2>1, Chains DEF ChainFacts
  <2>3. a \in Chain[c] /\ b \notin Chain[c]
    BY <1>1, <2>1, <2>2, Chains DEF ChainFacts
  <2> QED
    BY <2>1, <2>3 DEF CpusOf, Sub
<1> QED
  BY <1>2

\* A migration has taken no more from the old node's load, and given no more to the new
\* one's, than the loads of the tasks that were moved, which is less than the gap.
GapInv ==
    pc = "migrate" =>
      LET weight == SumOf(taskLoad, grpTasks[curGroup])
          left == SumOf(taskLoad, todoTids)
          diff == load[grpNode[curGroup]] - load[curNode]
      IN /\ gap \in Int /\ 0 < gap /\ weight < gap
         /\ gap - 2 * (weight - left) <= diff /\ diff <= gap
         /\ TypeOf[curNode] = TypeOf[grpNode[curGroup]] /\ curNode # grpNode[curGroup]

LEMMA TaskLoads ==
    ASSUME Inv, LoadInv, NEW S \in SUBSET Tids
    PROVE  IsFiniteSet(S) /\ SumOf(taskLoad, S) \in Int /\ \A t \in S : taskLoad[t] \in Int
<1>1. IsFiniteSet(S) /\ \A t \in S : taskLoad[t] \in Int
  BY BindingAssumption, FS_Subset DEF LoadInv
<1> QED
  BY <1>1, SumInt

LEMMA BeginMigrateGap == ASSUME Inv, LoadInv, NEW g \in Name, BeginMigrate(g) PROVE GapInv'
<1>1. PICK dst \in GroupTarget(g) :
         ShouldMigrate(g, grpNode[g], dst) /\ curNode' = dst /\ gap' = load[grpNode[g]] - load[dst]
  BY DEF BeginMigrate
<1>2. todoTids' = grpTasks[g] /\ curGroup' = g /\ UNCHANGED <<grpTasks, grpNode, load, taskLoad>>
  BY DEF BeginMigrate, tables, loads
<1>3. g \in Groups /\ grpNode[g] \in Node
  BY DEF BeginMigrate, Inv, BalanceInv, Groups, TypeOK
<1>4. dst \in Node /\ TypeOf[dst] = TypeOf[grpNode[g]]
  BY <1>1, <1>3, GroupTargetFacts
<1> DEFINE src == grpNode[g]
           diff == load[src] - load[dst]
           weight == SumOf(taskLoad, grpTasks[g])
<1>5. load[src] \in Int /\ load[dst] \in Int /\ Weight[src] \in Nat
  BY <1>3, <1>4, TopologyAssumption DEF LoadInv, Consistent
<1>6. diff > Weight[src] * CpuGap /\ diff > weight
  BY <1>1 DEF ShouldMigrate
<1>7. weight \in Int
  BY TaskLoads DEF Inv, TypeOK
<1> HIDE DEF weight
<1>8. diff \in Int /\ diff > 0
  BY <1>5, <1>6 DEF CpuGap
<1>9. src # dst
  BY <1>5, <1>8
<1>10. gap' = diff /\ SumOf(taskLoad, grpTasks[g]) = weight
  BY <1>1 DEF weight
<1>11. /\ gap' \in Int /\ 0 < gap' /\ weight < gap'
       /\ gap' - 2 * (weight - weight) <= diff /\ diff <= gap'
  BY <1>6, <1>7, <1>8, <1>10
<1> QED
  BY <1>1, <1>2, <1>4, <1>9, <1>11 DEF GapInv, weight

LEMMA MigrateTaskGap ==
    ASSUME MasksCover, Inv, LoadInv, GapInv, NEW t \in Tids, MigrateTask(t)
    PROVE  GapInv'
<1> DEFINE src == grpNode[curGroup]
           old == taskNode[t]
           d == taskLoad[t]
           less == AddLoad(old, -d, load)
<1>1. /\ pc = "migrate" /\ pc' = "migrate" /\ t \in todoTids /\ todoTids' = todoTids \ {t}
      /\ UNCHANGED <<grpTasks, grpNode, taskLoad, curGroup, curNode, gap>>
  BY DEF MigrateTask
<1>2. PICK new \in Node :
         /\ new \in Sub[curNode] /\ TypeOf[new] = TypeOf[old] /\ old \in Node /\ old \in Sub[src]
         /\ load' = AddLoad(new, d, less)
  BY MigrationNodes
<1>3. /\ src \in Node /\ curNode \in Node /\ src # curNode /\ TypeOf[src] = TypeOf[curNode]
      /\ TypeOf[src] < TypeNUMA /\ curGroup \in Name
  BY <1>1 DEF Inv, BalanceInv, GapInv, Groups, TypeOK
<1>4. TypeOf[old] < TypeNUMA /\ TypeOf[new] < TypeNUMA
  <2>1. src \in Chain[old]
    BY <1>2, <1>3 DEF Sub
  <2>2. TypeOf[old] <= TypeOf[src]
    BY <1>2, <2>1, Chains DEF ChainFacts
  <2> QED
    BY <1>2, <1>3, <2>2, UpFacts DEF TypeNUMA
<1>5. d \in Nat
  BY DEF LoadInv
<1>6. PICK s \in Nat :
         /\ s * Cardinality(CpusOf[old]) \in 0..d
         /\ -s = IF TypeOf[old] = TypeCPU THEN -d ELSE Quot(-d, Weight[old])
  BY <1>2, <1>4, <1>5, ShareBounds
<1>7. PICK r \in Nat :
         /\ r * Cardinality(CpusOf[new]) \in 0..d
         /\ r = IF TypeOf[new] = TypeCPU THEN d ELSE Quot(d, Weight[new])
  BY <1>4, <1>5, ShareBounds
<1>8. less = [m \in Node |-> load[m] + (-s) * Cardinality(CpusOf[old] \cap CpusOf[m])]
  BY <1>6 DEF AddLoad
<1> HIDE DEF less, d, old, src
<1>9. load' = [m \in Node |-> less[m] + r * Cardinality(CpusOf[new] \cap CpusOf[m])]
  BY <1>2, <1>7 DEF AddLoad
<1> DEFINE a == s * Cardinality(CpusOf[old])
           b == r * Cardinality(CpusOf[new])
<1>10. load[src] \in Int /\ load[curNode] \in Int
  BY <1>3 DEF LoadInv, Consistent
<1>11. Cardinality(CpusOf[old]) \in Nat /\ Cardinality(CpusOf[new]) \in Nat /\ Cardinality({}) = 0
  BY <1>2, CpusFacts, FS_CardinalityType, FS_EmptySet
<1>12. load'[src] = load[src] - a
  <2>1. CpusOf[old] \cap CpusOf[src] = CpusOf[old] /\ CpusOf[new] \cap CpusOf[src] = {}
    BY <1>2, <1>3, SubsApart
  <2>2. less[src] = load[src] + (-s) * Cardinality(CpusOf[old])
    BY <1>3, <1>8, <2>1
  <2>3. load'[src] = less[src] + r * 0
    BY <1>3, <1>9, <1>11, <2>1
  <2> QED
    BY <1>10, <1>11, <2>2, <2>3
<1>13. load'[curNode] = load[curNode] + b
  <2>1. CpusOf[new] \cap CpusOf[curNode] = CpusOf[new] /\ CpusOf[old] \cap CpusOf[curNode] = {}
    BY <1>2, <1>3, SubsApart
  <2>2. less[curNode] = load[curNode] + (-s) * 0
    BY <1>3, <1>8, <1>11, <2>1
  <2>3. load'[curNode] = less[curNode] + r * Cardinality(CpusOf[new])
    BY <1>3, <1>9, <2>1
  <2> QED
    BY <1>10, <1>11, <2>2, <2>3
<1>14. a \in 0..d /\ b \in 0..d
  BY <1>6, <1>7
<1> DEFINE weight == SumOf(taskLoad, grpTasks[curGroup])
           left == SumOf(taskLoad, todoTids)
           rest == SumOf(taskLoad, todoTids \ {t})
<1>15. weight \in Int /\ left \in Int /\ rest \in Int /\ left = d + rest
  <2>1. todoTids \in SUBSET Tids /\ todoTids \ {t} \in SUBSET Tids /\ grpTasks[curGroup] \in SUBSET Tids
    BY <1>3 DEF Inv, TypeOK
  <2>2. left = d + rest
    BY <1>1, <2>1, TaskLoads, SumLess DEF d
  <2> QED
    BY <2>1, <2>2, TaskLoads
<1>16. /\ gap \in Int /\ 0 < gap /\ weight < gap
       /\ gap - 2 * (weight - left) <= load[src] - load[curNode]
       /\ load[src] - load[curNode] <= gap
  BY <1>1 DEF GapInv, src
<1> HIDE DEF a, b, weight, left, rest
<1>17. /\ gap - 2 * (weight - rest) <= load'[src] - load'[curNode]
       /\ load'[src] - load'[curNode] <= gap
  BY <1>5, <1>10, <1>12, <1>13, <1>14, <1>15, <1>16 DEF d
<1> QED
  BY <1>1, <1>3, <1>16, <1>17 DEF GapInv, src, weight, rest

LEMMA NextGap == ASSUME MasksCover, Inv, LoadInv, GapInv, [Next]_vars PROVE GapInv'
<1>1. ASSUME pc' # "migrate" PROVE GapInv'
  BY <1>1 DEF GapInv
<1>2. ASSUME UNCHANGED <<tables, loads, pc, loops, gap>> PROVE GapInv'
  BY <1>2 DEF GapInv, tables, loads, loops
<1>3. CASE UNCHANGED vars \/ Threads
  BY <1>2, <1>3 DEF vars, Threads, Spawn, Exit
<1>4. CASE Tick
  BY <1>1, <1>4 DEF Tick, StartPass
<1>5. ASSUME NEW g \in Name, KeepGroup(g) PROVE GapInv'
  BY <1>1, <1>5 DEF KeepGroup
<1>6. ASSUME NEW g \in Name, BeginMigrate(g) PROVE GapInv'
  BY <1>6, BeginMigrateGap
<1>7. ASSUME NEW t \in Tids, MigrateTask(t) PROVE GapInv'
  BY <1>7, MigrateTaskGap
<1>8. CASE MigrateEnd \/ BalanceDone \/ RetryStale \/ RetryDone \/ ScanDone \/ DetectDone
             \/ BindDone \/ ReapDone
  BY <1>1, <1>8 DEF MigrateEnd, BalanceDone, RetryStale, RetryDone, ScanDone, DetectDone, BindDone,
                    ReapDone, Panic
<1>9. ASSUME NEW t \in Tids, MigrateNil(t) \/ RetryOk(t) \/ RetryErr(t) \/ BindTask(t) \/ BindTwice(t)
                                \/ BindNil(t) \/ Reap(t)
      PROVE  GapInv'
  BY <1>1, <1>9 DEF MigrateNil, RetryOk, RetryErr, BindTask, BindTwice, BindNil, Reap, Panic
<1>10. ASSUME NEW g \in SchedNames, BindMembers(g) \/ NoMembers(g) \/ EmptyNetPanic(g) PROVE GapInv'
  BY <1>1, <1>10 DEF BindMembers, NoMembers, EmptyNetPanic, StartBind, Panic
<1>11. ASSUME NEW P \in Detections, Regroup(P) PROVE GapInv'
  BY <1>1, <1>11 DEF Regroup, Panic
<1>12. ASSUME NEW ts \in detected, BindDetected(ts) PROVE GapInv'
  BY <1>1, <1>12 DEF BindDetected, StartBind
<1> QED
  BY <1>3, <1>4, <1>5, <1>6, <1>7, <1>8, <1>9, <1>10, <1>11, <1>12 DEF Next, PassStep

\* What NoOvershoot says of a step
OvershootStep ==
    pc = "migrate" /\ pc' = "balance" => Abs(load'[grpNode[curGroup]] - load'[curNode]) <= gap

LEMMA NextOvershoot == ASSUME Inv, LoadInv, GapInv, [Next]_vars PROVE OvershootStep
<1>1. SUFFICES ASSUME pc = "migrate", pc' = "balance" PROVE OvershootStep
  BY DEF OvershootStep
<1>2. MigrateEnd
  BY <1>1 DEF Next, PassStep, Tick, Threads, StartPass, KeepGroup, BeginMigrate, MigrateTask,
     MigrateNil, RetryOk, RetryErr, BalanceDone, RetryStale, RetryDone, BindMembers, NoMembers,
     EmptyNetPanic, StartBind, Regroup, BindDetected, ScanDone, DetectDone, BindTask, BindTwice,
     BindNil, Reap, BindDone, ReapDone, Spawn, Exit, Panic, vars
<1>3. load' = load /\ todoTids = {}
  BY <1>2 DEF MigrateEnd, loads
<1> DEFINE weight == SumOf(taskLoad, grpTasks[curGroup])
           src == grpNode[curGroup]
<1>4. SumOf(taskLoad, {}) = 0
  BY SumSteps, FS_EmptySet
<1>5. curGroup \in Name /\ src \in Node /\ curNode \in Node
  BY <1>1 DEF Inv, BalanceInv, Groups, TypeOK
<1>6. weight \in Int /\ load[src] \in Int /\ load[curNode] \in Int
  BY <1>5, TaskLoads DEF Inv, TypeOK, LoadInv, Consistent
<1>7. /\ gap \in Int /\ 0 < gap /\ weight < gap
      /\ gap - 2 * (weight - 0) <= load[src] - load[curNode]
      /\ load[src] - load[curNode] <= gap
  BY <1>1, <1>3, <1>4 DEF GapInv
<1> HIDE DEF weight
<1>8. Abs(load[src] - load[curNode]) <= gap
  BY <1>6, <1>7 DEF Abs
<1> QED
  BY <1>3, <1>8 DEF OvershootStep

\* On a machine where no cluster has more CPUs than its mask has bits, a migration never
\* leaves the group's old and new node further apart than it found them: migrateGroup
\* with the two conditions of shouldMigrateGroup.
THEOREM NoOvershootHolds == ASSUME MasksCover PROVE Spec => NoOvershoot
<1>1. Init => Inv /\ LoadInv /\ GapInv
  BY InitInv, InitLoads DEF Init, GapInv
<1>2. (Inv /\ LoadInv /\ GapInv) /\ [Next]_vars => (Inv /\ LoadInv /\ GapInv)'
  BY NextInv, NextLoads, NextGap
<1>3. (Inv /\ LoadInv /\ GapInv) /\ [Next]_vars => [OvershootStep]_vars
  BY NextOvershoot
<1> QED
  BY <1>1, <1>2, <1>3, PTL DEF Spec, NoOvershoot, OvershootStep

-----------------------------------------------------------------------------
(* What the daemon dies of *)

\* A search among some nodes answers one: their ranks break every tie
LEMMA LightestExists ==
    ASSUME NEW C, C \subseteq Node, C # {}, NEW weights, NEW binds,
           weights \in [Node -> Int], binds \in [Node -> Int]
    PROVE  Lightest(C, weights, binds) # {}
<1>1. IsFiniteSet(C)
  BY TopologyAssumption, FS_Subset
<1>2. PICK a \in C : \A k \in C : weights[a] <= weights[k]
  BY <1>1, HasLeast
<1> DEFINE C2 == {k \in C : weights[k] = weights[a]}
<1>3. IsFiniteSet(C2) /\ C2 # {} /\ \A k \in C2 : binds[k] \in Int
  BY <1>1, <1>2, FS_Subset
<1>4. PICK b \in C2 : \A k \in C2 : binds[b] <= binds[k]
  BY <1>3, HasLeast
<1> DEFINE C3 == {k \in C2 : binds[k] = binds[b]}
<1>5. IsFiniteSet(C3) /\ C3 # {} /\ \A k \in C3 : Rank[k] \in Int
  BY <1>3, <1>4, FS_Subset, TopologyAssumption
<1>6. PICK m \in C3 : \A k \in C3 : Rank[m] <= Rank[k]
  BY <1>5, HasLeast
<1>7. ASSUME NEW k \in C \ {m} PROVE Lighter(m, k, weights, binds)
  <2>1. weights[m] \in Int /\ weights[k] \in Int /\ binds[m] \in Int /\ binds[k] \in Int
        /\ Rank[m] \in Nat /\ Rank[k] \in Nat /\ Rank[m] # Rank[k]
    BY <1>7, TopologyAssumption
  <2>2. weights[m] <= weights[k]
    BY <1>2
  <2>3. weights[m] = weights[k] => binds[m] <= binds[k]
    BY <1>4
  <2>4. weights[m] = weights[k] /\ binds[m] = binds[k] => Rank[m] <= Rank[k]
    BY <1>6
  <2> QED
    BY <2>1, <2>2, <2>3, <2>4 DEF Lighter, FewerBinds
<1> QED
  BY <1>7 DEF Lightest

LEMMA FewestExists ==
    ASSUME NEW n \in Node, NEW t, OfType(n, t) # {}, NEW binds \in [Node -> Int]
    PROVE  SelectLighterBindNode(n, t, binds) # {}
<1> DEFINE same == [m \in Node |-> 0]
<1>1. OfType(n, t) \subseteq Node
  BY DEF OfType, Sub
<1>2. Lightest(OfType(n, t), same, binds) # {}
  <2>1. same \in [Node -> Int]
    OBVIOUS
  <2> HIDE DEF same
  <2> QED
    BY <1>1, <2>1, LightestExists
<1>3. \A m, k \in Node : Lighter(m, k, same, binds) => FewerBinds(m, k, binds)
  BY DEF Lighter
<1> HIDE DEF same
<1> QED
  BY <1>1, <1>2, <1>3 DEF Lightest, SelectLighterBindNode

\* With a CPU below it, a node has nodes of every level between
LEMMA LevelsBelow ==
    ASSUME NEW n \in Node, CpusOf[n] # {}, NEW t \in TypeCPU..TypeOf[n]
    PROVE  OfType(n, t) # {}
<1>1. PICK c \in CpusOf[n] : TRUE
  OBVIOUS
<1>2. c \in Node /\ TypeOf[c] = 0 /\ n \in Chain[c]
  BY <1>1 DEF CpusOf, Cpu, Sub, TypeCPU
<1>3. t \in TypeOf[c]..5 /\ TypeOf[n] \in t..5
  BY <1>2, UpFacts DEF TypeCPU
<1>4. PICK m \in Chain[c] : TypeOf[m] = t
  BY <1>2, <1>3, Chains DEF ChainFacts
<1>5. m \in Node /\ \E q \in Chain[m] : TypeOf[q] = TypeOf[n]
  BY <1>2, <1>3, <1>4, Chains DEF ChainFacts
<1>6. n \in Chain[m]
  BY <1>2, <1>4, <1>5, Chains DEF ChainFacts
<1> QED
  BY <1>4, <1>5, <1>6 DEF OfType, Sub

\* A task still to move is under its group's node
LEMMA TodoTasks ==
    ASSUME Inv, pc = "migrate", NEW t \in todoTids
    PROVE  /\ taskNode[t] \in Node /\ grpNode[curGroup] \in Node
           /\ taskNode[t] \in Sub[grpNode[curGroup]]
<1>1. t \in Tids /\ curGroup \in Name /\ grpNode[curGroup] \in Node
  BY DEF Inv, TypeOK, BalanceInv, Groups
<1>2. taskGroup[t] = curGroup
  BY <1>1 DEF Inv, BalanceInv, Bookkeeping
<1>3. t \in Bound
  BY <1>1, <1>2, BindingAssumption DEF Bound
<1>4. taskNode[t] \in Node
  BY <1>1, <1>3 DEF Inv, TypeOK, Bookkeeping, Bound
<1> QED
  BY <1>1, <1>2, <1>3, <1>4 DEF Inv, TaskUnderGroup, HomeOf

\* The migration's target has nodes of the type of every task's
LEMMA TargetsBelow ==
    ASSUME Inv, pc = "migrate", TypeOf[curNode] = TypeOf[grpNode[curGroup]],
           CpusOf[curNode] # {}, NEW t \in todoTids
    PROVE  SelectLighterBindNode(curNode, TypeOf[taskNode[t]], bindCount) # {}
<1>1. /\ taskNode[t] \in Node /\ grpNode[curGroup] \in Node
      /\ grpNode[curGroup] \in Chain[taskNode[t]]
  BY TodoTasks DEF Sub
<1>2. TypeOf[taskNode[t]] <= TypeOf[curNode]
  BY <1>1, Chains DEF ChainFacts
<1>3. curNode \in Node /\ bindCount \in [Node -> Int]
  BY DEF Inv, BalanceInv, TypeOK
<1>4. TypeOf[taskNode[t]] \in TypeCPU..TypeOf[curNode]
  BY <1>1, <1>2, <1>3, UpFacts DEF TypeCPU
<1> QED
  BY <1>3, <1>4, LevelsBelow, FewestExists

\* A pass balances with ccl affinity only, reads environments in user mode only, has no
\* group in hand outside the loops over its threads, and no target but for the network
CauseInv ==
    /\ pc = "balance" /\ todoGroups # {} => conf.ccl
    /\ pc = "migrate" => conf.ccl /\ TypeOf[curNode] = TypeOf[grpNode[curGroup]]
    /\ pc = "scan" => ~conf.auto
    /\ pc \notin {"migrate", "bind", "panic"} => curGroup = NoName
    /\ pc = "bind" /\ curNode = NoNode => conf.net
    /\ PanicCauses

LEMMA MigrateNilCause ==
    ASSUME Inv, CauseInv, NEW t \in Tids, MigrateNil(t)
    PROVE  PanicCauses'
<1>1. /\ pc = "migrate" /\ t \in todoTids /\ conf' = conf
      /\ SelectLighterBindNode(curNode, TypeOf[taskNode[t]], bindCount) = {}
  BY DEF MigrateNil, Panic
<1>2. conf.ccl /\ TypeOf[curNode] = TypeOf[grpNode[curGroup]]
  BY <1>1 DEF CauseInv
<1>3. CpusOf[curNode] = {}
  BY <1>1, <1>2, TargetsBelow
<1>4. curNode \in Node /\ TypeOf[curNode] <= TypeNUMA
  BY <1>1, UpFacts DEF Inv, BalanceInv, TypeNUMA
<1> QED
  BY <1>1, <1>2, <1>3, <1>4 DEF PanicCauses, CpusEverywhere

LEMMA BindNilCause ==
    ASSUME Inv, LoadInv, CauseInv, NEW t \in Tids, BindNil(t)
    PROVE  PanicCauses'
<1>1. pc = "bind" /\ UNCHANGED <<conf, curGroup, curNode>>
  BY DEF BindNil, Panic, loops
<1>2. bindCount \in [Node -> Int] /\ load \in [Node -> Int]
  BY DEF Inv, TypeOK, LoadInv, Consistent
<1>3. CASE GroupNode(curGroup) = {}
  <2>1. CASE curNode = NoNode
    <3>1. conf.net /\ curGroup # NoName
      BY <1>1, <2>1, BindingAssumption DEF CauseInv, Inv, BindInv
    <3> QED
      BY <1>1, <2>1, <3>1 DEF PanicCauses
  <2>2. CASE curNode # NoNode
    <3>1. conf.ccl /\ SelectLighterLoadNode(curNode, TypeCluster, load, bindCount) = {}
      BY <1>3, <2>2 DEF GroupNode
    <3>2. curNode \in Node /\ TypeOf[curNode] = TypeNUMA
      BY <1>1, <2>2 DEF Inv, BindInv, Numa
    <3>3. OfType(curNode, TypeCluster) \subseteq Node
      BY <3>2 DEF OfType, Sub
    <3>4. OfType(curNode, TypeCluster) = {}
      BY <1>2, <3>1, <3>3, LightestExists DEF SelectLighterLoadNode
    <3>5. TypeCluster \in TypeCPU..TypeOf[curNode]
      BY <3>2 DEF TypeCluster, TypeCPU, TypeNUMA
    <3>6. CpusOf[curNode] = {}
      BY <3>2, <3>4, <3>5, LevelsBelow
    <3> QED
      BY <1>1, <3>1, <3>2, <3>6 DEF PanicCauses, CpusEverywhere, TypeNUMA
  <2> QED
    BY <2>1, <2>2
<1>4. ASSUME NEW gn \in GroupNode(curGroup), TaskNodeIn(gn, GroupBinds(curGroup, gn)) = {}
      PROVE  PanicCauses'
  <2>1. gn \in Node /\ TypeOf[gn] <= TypeNUMA /\ GroupBinds(curGroup, gn) \in [Node -> Int]
    BY <1>1, GroupNodeFacts
  <2>2. conf.perCore /\ SelectLighterBindNode(gn, TypeCPU, GroupBinds(curGroup, gn)) = {}
    BY <1>4 DEF TaskNodeIn
  <2>3. OfType(gn, TypeCPU) = {}
    BY <2>1, <2>2, FewestExists
  <2>4. TypeCPU \in TypeCPU..TypeOf[gn]
    BY <2>1, UpFacts DEF TypeCPU
  <2>5. CpusOf[gn] = {}
    BY <2>1, <2>3, <2>4, LevelsBelow
  <2> QED
    BY <1>1, <2>1, <2>2, <2>5 DEF PanicCauses, CpusEverywhere
<1> QED
  BY <1>3, <1>4 DEF BindNil

LEMMA StartBindCause ==
    ASSUME CauseInv, NEW g \in Name, NEW ts, StartBind(g, ts)
    PROVE  CauseInv'
<1>1. pc' = "bind" /\ conf' = conf /\ curNode' \in TargetNuma
  BY DEF StartBind
<1>2. curNode' = NoNode => conf.net
  BY <1>1, NumaSearchFacts, TopologyAssumption DEF TargetNuma, Numa
<1> QED
  BY <1>1, <1>2 DEF CauseInv, PanicCauses

LEMMA NextCause == ASSUME Inv, LoadInv, CauseInv, [Next]_vars PROVE CauseInv'
<1>1. ASSUME pc' \notin {"balance", "migrate", "scan", "bind", "panic"}, curGroup' = NoName
      PROVE  CauseInv'
  BY <1>1 DEF CauseInv, PanicCauses
<1>2. ASSUME pc' = "panic", PanicCauses' PROVE CauseInv'
  BY <1>2 DEF CauseInv
<1>3. ASSUME UNCHANGED <<grpNode, retryTasks, conf, pc, loops>> PROVE CauseInv'
  BY <1>3 DEF CauseInv, PanicCauses, loops
<1>4. CASE UNCHANGED vars \/ Threads
  BY <1>3, <1>4 DEF vars, tables, Threads, Spawn, Exit
<1>5. ASSUME NEW c \in Confs, NEW m \in Measurements, StartPass(c, m) PROVE CauseInv'
  BY <1>5 DEF StartPass, CauseInv, PanicCauses
<1>6. ASSUME NEW g \in Name, KeepGroup(g) PROVE CauseInv'
  BY <1>6 DEF KeepGroup, CauseInv, PanicCauses
<1>7. ASSUME NEW g \in Name, BeginMigrate(g) PROVE CauseInv'
  <2>1. pc = "balance" /\ todoGroups # {} /\ pc' = "migrate" /\ conf' = conf
    BY <1>7 DEF BeginMigrate
  <2>2. g \in Groups /\ grpNode[g] \in Node
    BY <1>7 DEF BeginMigrate, Inv, BalanceInv, Groups, TypeOK
  <2>3. TypeOf[curNode'] = TypeOf[grpNode[g]] /\ curGroup' = g /\ grpNode' = grpNode
    BY <1>7, <2>2, GroupTargetFacts DEF BeginMigrate, tables
  <2> QED
    BY <2>1, <2>3 DEF CauseInv, PanicCauses
<1>8. ASSUME NEW t \in Tids, MigrateTask(t) PROVE CauseInv'
  BY <1>8 DEF MigrateTask, CauseInv, PanicCauses
<1>9. ASSUME NEW t \in Tids, MigrateNil(t) PROVE CauseInv'
  BY <1>2, <1>9, MigrateNilCause DEF MigrateNil, Panic
<1>10. CASE MigrateEnd
  BY <1>10 DEF MigrateEnd, CauseInv, PanicCauses
<1>11. CASE BalanceDone \/ ScanDone \/ DetectDone \/ ReapDone
  BY <1>1, <1>11 DEF BalanceDone, ScanDone, DetectDone, ReapDone, CauseInv, loops
<1>12. CASE RetryStale
  <2>1. cursor \in DOMAIN retryTasks /\ retryTasks[cursor] = Stale
    BY <1>12 DEF RetryStale, Inv, TypeOK
  <2> QED
    BY <1>2, <1>12, <2>1 DEF RetryStale, Panic, PanicCauses
<1>13. CASE RetryDone
  BY <1>13 DEF RetryDone, CauseInv, PanicCauses
<1>14. CASE BindDone
  BY <1>14 DEF BindDone, CauseInv, PanicCauses
<1>15. ASSUME NEW t \in Tids, RetryOk(t) \/ RetryErr(t) \/ BindTask(t) \/ BindTwice(t) \/ Reap(t)
       PROVE  CauseInv'
  <2>1. CASE RetryOk(t) \/ RetryErr(t) \/ Reap(t)
    BY <1>1, <2>1 DEF RetryOk, RetryErr, Reap, CauseInv
  <2>2. CASE BindTask(t) \/ BindTwice(t)
    BY <2>2 DEF BindTask, BindTwice, CauseInv, PanicCauses
  <2> QED
    BY <1>15, <2>1, <2>2
<1>16. ASSUME NEW t \in Tids, BindNil(t) PROVE CauseInv'
  BY <1>2, <1>16, BindNilCause DEF BindNil, Panic
<1>17. ASSUME NEW g \in SchedNames, BindMembers(g) PROVE CauseInv'
  BY <1>17, StartBindCause DEF BindMembers, Name
<1>18. ASSUME NEW g \in SchedNames, NoMembers(g) PROVE CauseInv'
  BY <1>18 DEF NoMembers, CauseInv, PanicCauses
<1>19. ASSUME NEW g \in SchedNames, EmptyNetPanic(g) PROVE CauseInv'
  BY <1>2, <1>19 DEF EmptyNetPanic, Panic, CauseInv, PanicCauses, loops
<1>20. ASSUME NEW P \in Detections, Regroup(P) PROVE CauseInv'
  BY <1>1, <1>2, <1>20 DEF Regroup, UnbindAllPanics, Panic, PanicCauses, CauseInv
<1>21. ASSUME NEW ts \in detected, BindDetected(ts) PROVE CauseInv'
  BY <1>21, StartBindCause DEF BindDetected, Name
<1> QED
  BY <1>4, <1>5, <1>6, <1>7, <1>8, <1>9, <1>10, <1>11, <1>12, <1>13, <1>14, <1>15, <1>16, <1>17,
     <1>18, <1>19, <1>20, <1>21 DEF Next, PassStep, Tick

LEMMA Causes == Spec => [](Inv /\ CauseInv)
<1>1. Init => Inv /\ LoadInv /\ CauseInv
  BY InitInv, InitLoads DEF Init, CauseInv, PanicCauses
<1>2. (Inv /\ LoadInv /\ CauseInv) /\ [Next]_vars => (Inv /\ LoadInv /\ CauseInv)'
  BY NextInv, NextLoads, NextCause
<1> QED
  BY <1>1, <1>2, PTL DEF Spec

\* The daemon dies of the four listed causes only, whatever the machine, the threads, the
\* NUMA nodes of the network's devices and the requests: every nil that
\* migrateTaskToTopoNode, makeBindGroupByNumaID and bindTasksToNuma may dereference, the
\* first thread that BindGroupAuto reads, and every element of the retry list.
THEOREM PanicCausesHolds == Spec => []PanicCauses
<1>1. Inv /\ CauseInv => PanicCauses
  BY DEF CauseInv
<1> QED
  BY <1>1, Causes, PTL

\* Where every node has a CPU below it, the search of migrateTaskToTopoNode answers a
\* node for every task of the group.
THEOREM MigrationTargetHolds == ASSUME CpusEverywhere PROVE Spec => []MigrationTargetExists
<1>1. ASSUME Inv, CauseInv, pc = "migrate", NEW t \in todoTids
      PROVE  SelectLighterBindNode(curNode, TypeOf[taskNode[t]], bindCount) # {}
  <2>1. TypeOf[curNode] = TypeOf[grpNode[curGroup]]
    BY <1>1 DEF CauseInv
  <2>2. curNode \in Node /\ TypeOf[curNode] <= TypeNUMA
    BY <1>1, UpFacts DEF Inv, BalanceInv, TypeNUMA
  <2>3. CpusOf[curNode] # {}
    BY <2>2 DEF CpusEverywhere
  <2> QED
    BY <1>1, <2>1, <2>3, TargetsBelow
<1>2. Inv /\ CauseInv => MigrationTargetExists
  BY <1>1 DEF MigrationTargetExists
<1> QED
  BY <1>2, Causes, PTL

=============================================================================
