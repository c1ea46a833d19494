---------------------------- MODULE TaskBinding ----------------------------
(***************************************************************************)
(* The daemon's task binding, common/policy/policy.go with the /proc scan  *)
(* of common/procscan.  A pass is BalanceTaskPolicy then BindTasksPolicy:  *)
(*   balance, migrate   groups move to a lighter node inside their NUMA    *)
(*   retry              refused sched_setaffinity calls are tried again    *)
(*   scan, bind         groups found in /proc/<pid>/environ are bound      *)
(*   detect, bind       in affinity mode, groups found by tracing are      *)
(*   reap               tasks that exited are unbound                      *)
(* Threads start and exit at any step of a pass, and the kernel may refuse *)
(* an affinity.  Passes are serial here.                                   *)
(***************************************************************************)
EXTENDS Topology, Sequences

CONSTANTS
    Tids,          \* thread ids
    SchedNames,    \* bind group names, "<pid>_<name>", from the environment
    AutoName,      \* the name every detected group is bound under
    NoName,        \* no group
    Members,       \* the tids whose comm a group's variable lists
    Detections,    \* the groupings tracing may report: sets of sets of tids
    Measurements,  \* what sysLoad may measure: [cpus |-> loads, tasks |-> loads]
    Confs,         \* the switches a request may set
    NetNumas,      \* the NUMA nodes GetProcessNetNuma may answer; NoNode if it answers
                   \* one that has no CPU online, and so none in the tree
    Refusals,      \* whether the kernel may refuse a live thread's affinity
    ReuseTids,     \* tids the kernel may give to a new thread
    Stale,         \* a retry element whose task was unbound
    MaxEvents      \* bound on refusals, thread starts and regroupings

Name == SchedNames \cup {AutoName}

ASSUME BindingAssumption ==
    /\ IsFiniteSet(Tids) /\ Stale \notin Tids /\ ReuseTids \subseteq Tids
    /\ AutoName \notin SchedNames /\ NoName \notin Name
    /\ Members \in [SchedNames -> SUBSET Tids]
    /\ Detections \subseteq SUBSET (SUBSET Tids)
    /\ Measurements \subseteq [cpus : [Cpu -> Nat], tasks : [Tids -> Nat]]
    /\ Confs \subseteq [ccl : BOOLEAN, perCore : BOOLEAN, net : BOOLEAN, auto : BOOLEAN]
    /\ Numa # {} /\ NetNumas \subseteq Numa \cup {NoNode}
    /\ Refusals \in BOOLEAN /\ MaxEvents \in Nat

VARIABLES
    taskGroup,   \* bindTaskMap[tid].group, NoName when the tid is not bound
    taskNode,    \* bindTaskMap[tid].newBindNode
    grpNode,     \* bindGroupMap[name].bindNode, NoNode when there is no group
    grpTasks,    \* bindGroupMap[name].tasks
    attach,      \* node.AttachTask
    bindCount,   \* node.loadInfo.bindCount
    load,        \* node.loadInfo.load
    monitored,   \* the tids in sysLoad.tasksLoad
    taskLoad,    \* their load
    retryTasks,  \* the retry list
    conf,        \* the switches
    pc, todoGroups, todoTids, detected,  \* where the pass is, what its loop still visits
    curGroup, curNode, cursor,           \* the loop's current group, node, list place
    gap,         \* history: the load gap that justified the migration
    life, affinity, events  \* each thread, its kernel affinity, the event budget

tables == <<taskGroup, taskNode, grpNode, grpTasks, attach, bindCount, monitored>>
loads  == <<load, taskLoad>>
loops  == <<todoGroups, todoTids, detected, curGroup, curNode, cursor>>
env    == <<life, affinity, events>>
vars   == <<tables, loads, retryTasks, conf, pc, loops, gap, env>>

Bound  == {t \in Tids : taskGroup[t] # NoName}
Groups == {g \in Name : grpNode[g] # NoNode}

Init ==
    /\ taskGroup = [t \in Tids |-> NoName]
    /\ taskNode  = [t \in Tids |-> NoNode]
    /\ grpNode   = [g \in Name |-> NoNode]
    /\ grpTasks  = [g \in Name |-> {}]
    /\ attach    = [n \in Node |-> {}]
    /\ bindCount = [n \in Node |-> 0]
    /\ load      = [n \in Node |-> 0]
    /\ monitored = {}
    /\ taskLoad  = [t \in Tids |-> 0]
    /\ retryTasks = <<>>
    /\ conf \in Confs
    /\ pc = "idle"
    /\ todoGroups = {} /\ todoTids = {} /\ detected = {}
    /\ curGroup = NoName /\ curNode = NoNode /\ cursor = 1 /\ gap = 0
    /\ life = [t \in Tids |-> "new"]
    /\ affinity = [t \in Tids |-> NoNode]
    /\ events = 0

-----------------------------------------------------------------------------
(* Threads and the kernel *)

Alive == {t \in Tids : life[t] = "alive"}

Spend == events < MaxEvents /\ events' = events + 1

Spawn(t) ==
    /\ \/ life[t] = "new" /\ UNCHANGED events
       \/ life[t] = "dead" /\ t \in ReuseTids /\ Spend
    /\ life' = [life EXCEPT ![t] = "alive"]
    /\ UNCHANGED <<tables, loads, retryTasks, conf, pc, loops, gap, affinity>>

Exit(t) ==
    /\ life[t] = "alive"
    /\ life' = [life EXCEPT ![t] = "dead"]
    /\ affinity' = [affinity EXCEPT ![t] = NoNode]
    /\ UNCHANGED <<tables, loads, retryTasks, conf, pc, loops, gap, events>>

\* sched.SetAffinity succeeds; it fails for a thread that exited, or is refused
Accepted(t, n) ==
    /\ t \in Alive
    /\ affinity' = [affinity EXCEPT ![t] = n]
    /\ UNCHANGED events

Refused(t) ==
    /\ \/ t \notin Alive /\ UNCHANGED events
       \/ t \in Alive /\ Refusals /\ Spend
    /\ UNCHANGED affinity

-----------------------------------------------------------------------------
(* The retry list.  taskInfo.retryEle is the element pushed last, so an     *)
(* element pushed before it for the same task outlives the task.            *)

Positions(t) == {i \in DOMAIN retryTasks : retryTasks[i] = t}
LastPosition(t) == CHOOSE i \in Positions(t) : \A j \in Positions(t) : j <= i

\* mutant: the element stays on the list
DropRetryKeepsElement(t) == retryTasks

\* retryTasks.Remove(taskInfo.retryEle) for a task that is being unbound
DropRetry(t) ==
    IF Positions(t) = {} THEN retryTasks
    ELSE [i \in 1..(Len(retryTasks) - 1) |->
            LET e == retryTasks[IF i < LastPosition(t) THEN i ELSE i + 1]
            IN IF e = t THEN Stale ELSE e]

\* unbindAllTasks drops the last element of each task; the others go stale
DropAllRetries ==
    [i \in 1..Cardinality({j \in DOMAIN retryTasks : retryTasks[j] = Stale
              \/ j # LastPosition(retryTasks[j])}) |-> Stale]

\* Its loop ends at the first element that is its own task's only one; a stale
\* element met before that has no retryEle, and Remove(nil) panics
UnbindAllPanics ==
    \E i \in DOMAIN retryTasks :
        /\ retryTasks[i] = Stale
        /\ \A j \in 1..(i-1) : Positions(retryTasks[j]) # {j}

-----------------------------------------------------------------------------
(* Steps shared by the handlers *)

Plus(f, x, d) == [f EXCEPT ![x] = @ + d]

\* mutant: a refusal is only logged
BindToNodeForgets(t, n) == (Accepted(t, n) \/ Refused(t)) /\ UNCHANGED retryTasks

\* mutant: the group is pushed in place of the task
BindToNodePushesGroup(t, n) ==
    \/ Accepted(t, n) /\ UNCHANGED retryTasks
    \/ Refused(t) /\ retryTasks' = Append(retryTasks, taskGroup[t])

\* bindTaskToTopoNode's affinity call: a refusal puts the task on the retry list
BindToNode(t, n) ==
    \/ Accepted(t, n) /\ UNCHANGED retryTasks
    \/ Refused(t) /\ retryTasks' = Append(retryTasks, t)

\* mutant: RemoveTask is forgotten
UnbindTaskStillMonitored(t) ==
    LET g == taskGroup[t]
        n == taskNode[t]
    IN  /\ taskGroup' = [taskGroup EXCEPT ![t] = NoName]
        /\ taskNode'  = [taskNode EXCEPT ![t] = NoNode]
        /\ grpTasks'  = [grpTasks EXCEPT ![g] = @ \ {t}]
        /\ grpNode'   = IF grpTasks[g] = {t} THEN [grpNode EXCEPT ![g] = NoNode] ELSE grpNode
        /\ attach'    = [attach EXCEPT ![n] = @ \ {t}]
        /\ bindCount' = Plus(bindCount, n, -1)
        /\ retryTasks' = DropRetry(t)
        /\ monitored' = monitored
        /\ taskLoad'  = [taskLoad EXCEPT ![t] = 0]

\* UnbindTaskPolicy of a bound task
UnbindTask(t) ==
    LET g == taskGroup[t]
        n == taskNode[t]
    IN  /\ taskGroup' = [taskGroup EXCEPT ![t] = NoName]
        /\ taskNode'  = [taskNode EXCEPT ![t] = NoNode]
        /\ grpTasks'  = [grpTasks EXCEPT ![g] = @ \ {t}]
        /\ grpNode'   = IF grpTasks[g] = {t} THEN [grpNode EXCEPT ![g] = NoNode] ELSE grpNode
        /\ attach'    = [attach EXCEPT ![n] = @ \ {t}]
        /\ bindCount' = Plus(bindCount, n, -1)
        /\ retryTasks' = DropRetry(t)
        /\ monitored' = monitored \ {t}
        /\ taskLoad'  = [taskLoad EXCEPT ![t] = 0]

\* unbindAllTasks, when it does not panic: every bound task is unbound
UnbindAll ==
    /\ taskGroup' = [t \in Tids |-> NoName]
    /\ taskNode'  = [t \in Tids |-> NoNode]
    /\ grpTasks'  = [g \in Name |-> {}]
    /\ grpNode'   = [g \in Name |-> IF grpTasks[g] # {} THEN NoNode ELSE grpNode[g]]
    /\ attach'    = [n \in Node |-> attach[n] \ Bound]
    /\ bindCount' = [n \in Node |->
                       bindCount[n] - Cardinality({t \in Bound : taskNode[t] = n})]
    /\ retryTasks' = DropAllRetries
    /\ monitored' = monitored \ Bound
    /\ taskLoad'  = [t \in Tids |-> 0]

Panic ==
    /\ pc' = "panic"
    /\ UNCHANGED <<tables, loads, retryTasks, loops, gap, env, conf>>

-----------------------------------------------------------------------------
(* BalanceTaskPolicy *)

\* A request or a tick: the switches are set and updateNodeLoad measures
StartPass(c, m) ==
    /\ pc = "idle"
    /\ conf' = c
    /\ load' = SetCpuLoads(m.cpus, load)
    /\ taskLoad' = [t \in Tids |-> IF t \in monitored \cap Alive THEN m.tasks[t] ELSE taskLoad[t]]
    /\ pc' = "balance"
    /\ todoGroups' = IF c.ccl THEN Groups ELSE {}
    /\ UNCHANGED <<tables, retryTasks, todoTids, detected, curGroup, curNode, cursor, gap, env>>

\* mutant: the lightest CPU, whatever the group is bound to
GroupTargetCpu(g) ==
    IF TypeOf[grpNode[g]] >= TypeNUMA THEN {}
    ELSE SelectLighterLoadNode(ParentOfType(grpNode[g], TypeNUMA), TypeCPU, load, bindCount)

\* mutant: the lightest node of the chip
GroupTargetInChip(g) ==
    IF TypeOf[grpNode[g]] >= TypeNUMA THEN {}
    ELSE SelectLighterLoadNode(ParentOfType(grpNode[g], TypeChip), TypeOf[grpNode[g]],
                               load, bindCount)

\* groupTargetNode: none for a group bound to a whole NUMA node or more
GroupTarget(g) ==
    LET src == grpNode[g]
    IN  IF TypeOf[src] >= TypeNUMA THEN {}
        ELSE SelectLighterLoadNode(ParentOfType(src, TypeNUMA), TypeOf[src], load, bindCount)

CpuGap == (30 * 1024) \div 100

\* mutant: the group's weight is not compared
ShouldMigrateByGap(g, src, dst) == load[src] - load[dst] > Weight[src] * CpuGap

ShouldMigrate(g, src, dst) ==
    LET diff == load[src] - load[dst]
    IN  /\ diff > Weight[src] * CpuGap
        /\ diff > SumOf(taskLoad, grpTasks[g])

KeepGroup(g) ==
    /\ pc = "balance" /\ g \in todoGroups
    /\ \A dst \in GroupTarget(g) : ~ShouldMigrate(g, grpNode[g], dst)
    /\ todoGroups' = todoGroups \ {g}
    /\ UNCHANGED <<tables, loads, retryTasks, conf, pc, todoTids, detected, curGroup,
                   curNode, cursor, gap, env>>

BeginMigrate(g) ==
    /\ pc = "balance" /\ g \in todoGroups
    /\ \E dst \in GroupTarget(g) :
          /\ ShouldMigrate(g, grpNode[g], dst)
          /\ curNode' = dst
          /\ gap' = load[grpNode[g]] - load[dst]
    /\ pc' = "migrate"
    /\ todoGroups' = todoGroups \ {g}
    /\ todoTids' = grpTasks[g]
    /\ curGroup' = g
    /\ UNCHANGED <<tables, loads, retryTasks, conf, detected, cursor, env>>

\* migrateTaskToTopoNode: to the node of the same type with the fewest binds
MigrateTask(t) ==
    /\ pc = "migrate" /\ t \in todoTids
    /\ LET old == taskNode[t] IN
       \E new \in SelectLighterBindNode(curNode, TypeOf[old], bindCount) :
          /\ BindToNode(t, new)
          /\ taskNode' = [taskNode EXCEPT ![t] = new]
          /\ attach' = [attach EXCEPT ![old] = @ \ {t}, ![new] = @ \cup {t}]
          /\ bindCount' = Plus(Plus(bindCount, old, -1), new, 1)
          /\ load' = AddLoad(new, taskLoad[t], AddLoad(old, -taskLoad[t], load))
    /\ todoTids' = todoTids \ {t}
    /\ UNCHANGED <<taskGroup, grpNode, grpTasks, monitored, taskLoad, conf, pc,
                   todoGroups, detected, curGroup, curNode, cursor, gap, life>>

\* Nothing below the target of the type of the task's node: the search answers nil
MigrateNil(t) ==
    /\ pc = "migrate" /\ t \in todoTids
    /\ SelectLighterBindNode(curNode, TypeOf[taskNode[t]], bindCount) = {}
    /\ Panic

\* mutant: group.bindNode is not set
MigrateEndKeepsNode ==
    /\ pc = "migrate" /\ todoTids = {}
    /\ bindCount' = Plus(Plus(bindCount, grpNode[curGroup], -1), curNode, 1)
    /\ grpNode' = grpNode
    /\ pc' = "balance"
    /\ curGroup' = NoName /\ curNode' = NoNode /\ gap' = 0
    /\ UNCHANGED <<taskGroup, taskNode, grpTasks, attach, monitored, loads, retryTasks,
                   conf, todoGroups, todoTids, detected, cursor, env>>

\* mutant: dstNode.AddBind is missing
MigrateEndNoAddBind ==
    /\ pc = "migrate" /\ todoTids = {}
    /\ bindCount' = Plus(bindCount, grpNode[curGroup], -1)
    /\ grpNode' = [grpNode EXCEPT ![curGroup] = curNode]
    /\ pc' = "balance"
    /\ curGroup' = NoName /\ curNode' = NoNode /\ gap' = 0
    /\ UNCHANGED <<taskGroup, taskNode, grpTasks, attach, monitored, loads, retryTasks,
                   conf, todoGroups, todoTids, detected, cursor, env>>

MigrateEnd ==
    /\ pc = "migrate" /\ todoTids = {}
    /\ bindCount' = Plus(Plus(bindCount, grpNode[curGroup], -1), curNode, 1)
    /\ grpNode' = [grpNode EXCEPT ![curGroup] = curNode]
    /\ pc' = "balance"
    /\ curGroup' = NoName /\ curNode' = NoNode /\ gap' = 0
    /\ UNCHANGED <<taskGroup, taskNode, grpTasks, attach, monitored, loads, retryTasks,
                   conf, todoGroups, todoTids, detected, cursor, env>>

BalanceDone ==
    /\ pc = "balance" /\ todoGroups = {}
    /\ pc' = "retry"
    /\ UNCHANGED <<tables, loads, retryTasks, conf, loops, gap, env>>

-----------------------------------------------------------------------------
(* BindTasksPolicy: retryBindTasks *)

\* mutant: the first success ends the loop
RetryOkEnds(t) ==
    /\ pc = "retry" /\ cursor <= Len(retryTasks) /\ retryTasks[cursor] = t
    /\ Accepted(t, taskNode[t])
    /\ cursor' = Len(retryTasks) + 1
    /\ UNCHANGED <<tables, loads, retryTasks, conf, pc, todoGroups, todoTids, detected,
                   curGroup, curNode, gap, life>>

\* The affinity is accepted; the element stays on the list
RetryOk(t) ==
    /\ pc = "retry" /\ cursor <= Len(retryTasks) /\ retryTasks[cursor] = t
    /\ Accepted(t, taskNode[t])
    /\ cursor' = cursor + 1
    /\ UNCHANGED <<tables, loads, retryTasks, conf, pc, todoGroups, todoTids, detected,
                   curGroup, curNode, gap, life>>

\* The task is given up.  When the element removed is the one the loop stands
\* on, its Next is nil and the loop ends; the elements after it wait a pass
RetryErr(t) ==
    /\ pc = "retry" /\ cursor <= Len(retryTasks) /\ retryTasks[cursor] = t
    /\ Refused(t)
    /\ UnbindTask(t)
    /\ cursor' = IF LastPosition(t) = cursor THEN Len(retryTasks) ELSE cursor + 1
    /\ UNCHANGED <<load, conf, pc, todoGroups, todoTids, detected, curGroup, curNode,
                   gap, life>>

\* The element of an unbound task has no node: node.Mask() panics
RetryStale ==
    /\ pc = "retry" /\ cursor <= Len(retryTasks) /\ retryTasks[cursor] = Stale
    /\ Panic

RetryDone ==
    /\ pc = "retry" /\ cursor > Len(retryTasks)
    /\ pc' = IF conf.auto THEN "detect" ELSE "scan"
    /\ todoGroups' = IF conf.auto THEN {} ELSE SchedNames
    /\ cursor' = 1
    /\ UNCHANGED <<tables, loads, retryTasks, conf, todoTids, detected, curGroup, curNode,
                   gap, env>>

-----------------------------------------------------------------------------
(* BindTasksPolicy: finding groups and binding them *)

\* The NUMA node BindGroupAuto picks: the network's if it is known, else the lightest.
\* Of an id that the tree does not have GetNumaNodeByID makes a nil
TargetNuma == SelectNumaNode(load, bindCount) \cup (IF conf.net THEN NetNumas ELSE {})

\* BindGroupAuto(ts, g) with a task in ts
StartBind(g, ts) ==
    /\ curNode' \in TargetNuma
    /\ pc' = "bind"
    /\ curGroup' = g /\ todoTids' = ts
    /\ UNCHANGED <<tables, loads, retryTasks, conf, cursor, gap, env>>

\* bindMembers: the threads of the process that the variable lists
BindMembers(g) ==
    /\ pc = "scan" /\ g \in todoGroups /\ Members[g] \cap Alive # {}
    /\ StartBind(g, Members[g] \cap Alive)
    /\ todoGroups' = todoGroups \ {g}
    /\ UNCHANGED detected

\* The process is gone, or has no thread so named: nothing is bound
NoMembers(g) ==
    /\ pc = "scan" /\ g \in todoGroups /\ Members[g] \cap Alive = {}
    /\ todoGroups' = todoGroups \ {g}
    /\ UNCHANGED <<tables, loads, retryTasks, conf, pc, todoTids, detected, curGroup,
                   curNode, cursor, gap, env>>

\* The process is there with no thread so named, and net affinity reads tids[0]
EmptyNetPanic(g) ==
    /\ pc = "scan" /\ g \in todoGroups /\ Members[g] \cap Alive = {}
    /\ conf.net
    /\ Panic

ScanDone ==
    /\ pc = "scan" /\ todoGroups = {}
    /\ pc' = "reap"
    /\ todoTids' = Bound
    /\ UNCHANGED <<tables, loads, retryTasks, conf, todoGroups, detected, curGroup,
                   curNode, cursor, gap, env>>

\* Tracing reports new groups: everything is unbound, then bound anew
Regroup(P) ==
    /\ pc = "detect" /\ detected = {}
    /\ \A t \in UNION P : life[t] # "new"
    /\ \/ UnbindAllPanics /\ Panic
       \/ ~UnbindAllPanics /\ UnbindAll /\ detected' = P /\ Spend
          /\ UNCHANGED <<load, conf, pc, todoGroups, todoTids, curGroup, curNode, cursor,
                         gap, life, affinity>>

BindDetected(ts) ==
    /\ pc = "detect" /\ ts \in detected
    /\ StartBind(AutoName, ts)
    /\ detected' = detected \ {ts}
    /\ UNCHANGED todoGroups

DetectDone ==
    /\ pc = "detect" /\ detected = {}
    /\ pc' = "reap"
    /\ todoTids' = Bound
    /\ UNCHANGED <<tables, loads, retryTasks, conf, todoGroups, detected, curGroup,
                   curNode, cursor, gap, env>>

\* makeBindGroupByNumaID's node for a new group; an existing group keeps its own
GroupNode(g) ==
    IF g \in Groups THEN {grpNode[g]}
    ELSE IF curNode = NoNode THEN {}
    ELSE IF conf.ccl THEN SelectLighterLoadNode(curNode, TypeCluster, load, bindCount)
    ELSE {curNode}

\* The counters once the group exists
GroupBinds(g, gn) == IF g \in Groups THEN bindCount ELSE Plus(bindCount, gn, 1)

\* mutant: a CPU is chosen whatever the switch says
TaskNodeAlwaysCpu(gn, binds) == SelectLighterBindNode(gn, TypeCPU, binds)

TaskNodeIn(gn, binds) ==
    IF conf.perCore THEN SelectLighterBindNode(gn, TypeCPU, binds) ELSE {gn}

\* bindTasksToNuma for a thread not bound yet
BindTask(t) ==
    /\ pc = "bind" /\ t \in todoTids \ Bound
    /\ LET g == curGroup IN
       \E gn \in GroupNode(g) : \E n \in TaskNodeIn(gn, GroupBinds(g, gn)) :
          /\ BindToNode(t, n)
          /\ grpNode' = [grpNode EXCEPT ![g] = gn]
          /\ grpTasks' = [grpTasks EXCEPT ![g] = @ \cup {t}]
          /\ taskGroup' = [taskGroup EXCEPT ![t] = g]
          /\ taskNode' = [taskNode EXCEPT ![t] = n]
          /\ attach' = [attach EXCEPT ![n] = @ \cup {t}]
          /\ bindCount' = Plus(GroupBinds(g, gn), n, 1)
    /\ monitored' = monitored \cup {t}
    /\ todoTids' = todoTids \ {t}
    /\ UNCHANGED <<loads, conf, pc, todoGroups, detected, curGroup, curNode, cursor, gap,
                   life>>

\* For a thread already bound: the group may be made all the same
BindTwice(t) ==
    /\ pc = "bind" /\ t \in todoTids \cap Bound
    /\ \E gn \in GroupNode(curGroup) :
          /\ grpNode' = [grpNode EXCEPT ![curGroup] = gn]
          /\ bindCount' = GroupBinds(curGroup, gn)
    /\ todoTids' = todoTids \ {t}
    /\ UNCHANGED <<taskGroup, taskNode, grpTasks, attach, monitored, loads, retryTasks, conf,
                   pc, todoGroups, detected, curGroup, curNode, cursor, gap, env>>

\* A NUMA node that is nil, or it or the group's node with nothing under it: the group
\* or the task has no node
BindNil(t) ==
    /\ pc = "bind" /\ t \in todoTids
    /\ \/ GroupNode(curGroup) = {}
       \/ t \notin Bound /\ \E gn \in GroupNode(curGroup) :
                               TaskNodeIn(gn, GroupBinds(curGroup, gn)) = {}
    /\ Panic

BindDone ==
    /\ pc = "bind" /\ todoTids = {}
    /\ pc' = IF conf.auto THEN "detect" ELSE "scan"
    /\ curGroup' = NoName /\ curNode' = NoNode
    /\ UNCHANGED <<tables, loads, retryTasks, conf, todoGroups, todoTids, detected, cursor,
                   gap, env>>

-----------------------------------------------------------------------------
(* ScanBoundTask *)

\* mutant: only threads that still exist are looked at
ReapSkipsExited(t) ==
    /\ pc = "reap" /\ t \in todoTids
    /\ todoTids' = todoTids \ {t}
    /\ UNCHANGED <<tables, loads, retryTasks, conf, pc, todoGroups, detected, curGroup,
                   curNode, cursor, gap, env>>

Reap(t) ==
    /\ pc = "reap" /\ t \in todoTids
    /\ todoTids' = todoTids \ {t}
    /\ \/ t \in Alive /\ UNCHANGED <<tables, taskLoad, retryTasks>>
       \/ t \notin Alive /\ UnbindTask(t)
    /\ UNCHANGED <<load, conf, pc, todoGroups, detected, curGroup, curNode, cursor, gap, env>>

ReapDone ==
    /\ pc = "reap" /\ todoTids = {}
    /\ pc' = "idle"
    /\ UNCHANGED <<tables, loads, retryTasks, conf, loops, gap, env>>

-----------------------------------------------------------------------------

PassStep ==
    \/ \E g \in Name : KeepGroup(g) \/ BeginMigrate(g)
    \/ \E t \in Tids : MigrateTask(t) \/ MigrateNil(t) \/ RetryOk(t) \/ RetryErr(t)
    \/ MigrateEnd \/ BalanceDone \/ RetryStale \/ RetryDone
    \/ \E g \in SchedNames : BindMembers(g) \/ NoMembers(g) \/ EmptyNetPanic(g)
    \/ \E P \in Detections : Regroup(P)
    \/ \E ts \in detected : BindDetected(ts)
    \/ ScanDone \/ DetectDone
    \/ \E t \in Tids : BindTask(t) \/ BindTwice(t) \/ BindNil(t)
    \/ \E t \in Tids : Reap(t)
    \/ BindDone \/ ReapDone

Tick == \E c \in Confs, m \in Measurements : StartPass(c, m)

Threads == \E t \in Tids : Spawn(t) \/ Exit(t)

Next == Tick \/ PassStep \/ Threads

Spec == Init /\ [][Next]_vars

\* The pass is in a call that may not come back: DoCollect waits for its threads without
\* a limit, and a probe follows the links of devices for as long as there are any
InCall ==
    \/ pc = "detect" /\ (detected = {} \/ conf.net)
    \/ pc = "scan" /\ conf.net /\ todoGroups # {}

\* Go runs the pass while it is its own, and the ticker or the clients keep starting
\* passes
FairSpec == Spec /\ WF_vars(~InCall /\ PassStep) /\ WF_vars(Tick)

=============================================================================
