-------------------------- MODULE TaskBindingProps --------------------------
(***************************************************************************)
(* What TaskBinding promises.  Each property names the code it is about.   *)
(***************************************************************************)
EXTENDS TaskBinding

PassPoints == {"idle", "balance", "migrate", "retry", "scan", "bind", "detect", "reap",
               "panic"}

\* The type invariant: the tables, the retry list, the loop variables, the threads.
\* The loads are in LoadTreeConsistent.
TypeOK ==
    /\ taskGroup \in [Tids -> Name \cup {NoName}]
    /\ taskNode \in [Tids -> Node \cup {NoNode}]
    /\ grpNode \in [Name -> Node \cup {NoNode}]
    /\ grpTasks \in [Name -> SUBSET Tids]
    /\ attach \in [Node -> SUBSET Tids]
    /\ bindCount \in [Node -> Int]
    /\ monitored \in SUBSET Tids
    /\ retryTasks \in Seq(Tids \cup {Stale})
    /\ conf \in Confs
    /\ pc \in PassPoints
    /\ todoGroups \in SUBSET Name /\ todoTids \in SUBSET Tids
    /\ detected \in SUBSET (SUBSET Tids)
    /\ curGroup \in Name \cup {NoName} /\ curNode \in Node \cup {NoNode}
    /\ cursor \in Nat \ {0}
    /\ life \in [Tids -> {"new", "alive", "dead"}]
    /\ affinity \in [Tids -> Node \cup {NoNode}]
    /\ events \in 0..MaxEvents

\* A bound task is in the tables of exactly its own group and its own node, its
\* load is monitored, and an unbound one is in none of them: the five structures
\* bindTasksToNuma, migrateTaskToTopoNode and UnbindTaskPolicy update one by one
\* agree between any two steps of a pass.
Bookkeeping ==
    /\ \A t \in Tids : taskGroup[t] = NoName <=> taskNode[t] = NoNode
    /\ \A t \in Tids, g \in Name : t \in grpTasks[g] <=> taskGroup[t] = g
    /\ \A t \in Tids, n \in Node : t \in attach[n] <=> taskNode[t] = n
    /\ \A t \in Bound : grpNode[taskGroup[t]] # NoNode
    /\ monitored = Bound

\* The node a task must be under: its group's, or the migration's target once
\* migrateGroup has moved the task.
HomeOf(t) ==
    IF pc = "migrate" /\ taskGroup[t] = curGroup /\ t \notin todoTids
    THEN curNode ELSE grpNode[taskGroup[t]]

\* As long as the daemon lives every task is on its group's node or on a CPU below it,
\* in every state of a migration too, whatever switches changed since the group was
\* made: what SelectLighterBindNode(task.newBindNode.Type()) keeps when a group moves.
TaskUnderGroup == pc # "panic" => \A t \in Bound : taskNode[t] \in Sub[HomeOf(t)]

NumaOf(n) == ParentOfType(n, TypeNUMA)

\* No step takes a task or a group that stays bound to another NUMA node.
NumaStep ==
    /\ \A t \in Bound : taskNode'[t] # NoNode => NumaOf(taskNode'[t]) = NumaOf(taskNode[t])
    /\ \A g \in Groups : grpNode'[g] # NoNode => NumaOf(grpNode'[g]) = NumaOf(grpNode[g])

\* "BalanceTaskPolicy balance CCLs inside NUMA" (policy.go): a bound task and its
\* group keep their NUMA node until they are unbound, whatever moves between.
NumaConfinement == [][NumaStep]_vars

\* The place of a node: its NUMA node.
PlaceOf(n) == IF n = NoNode THEN NoNode ELSE NumaOf(n)

Placed == INSTANCE Placement WITH
    Tasks <- Tids, Groups <- Name, Places <- Numa, NoGroup <- NoName, NoPlace <- NoNode,
    member <- taskGroup,
    home <- [t \in Tids |-> PlaceOf(taskNode[t])],
    seat <- [g \in Name |-> PlaceOf(grpNode[g])]

\* The passes of policy.go implement Placement: seen from its NUMA node a task joins
\* its group, stays with it and leaves, and balancing, retries and the order in which
\* the tables are updated are not seen at all.
PlacementHolds == Placed!Spec

\* The references a node's bindCount must include: its tasks and its groups.
BindRefs(n) == Cardinality(attach[n]) + Cardinality({g \in Groups : grpNode[g] = n})

\* bindCount, which SelectLighterBindNode orders the nodes by, never forgets a
\* task or a group that sits on the node, across migrations, retries, regroupings.
BindCountCovers == \A n \in Node : bindCount[n] >= BindRefs(n)

\* A live bound thread runs where the tables say, or its refused affinity is still
\* on the retry list: no refusal is lost (bindTaskToTopoNode, retryBindTasks).  A tid
\* that the kernel gives to a new thread between two scans stays in the tables, and
\* nobody sets the new thread's affinity.
AffinityOrRetry ==
    \A t \in (Bound \cap Alive) \ ReuseTids : affinity[t] = taskNode[t] \/ Positions(t) # {}

\* Every element of the retry list whose task is still bound is one that
\* retryBindTasks can act on, and a task unbound leaves none that names it.
RetryNamesBound == \A i \in DOMAIN retryTasks : retryTasks[i] \in Bound \cup {Stale}

\* An inner node's load is the sum of its CPUs' loads after every SetLoad, SubLoad
\* and AddLoad of a pass, although shares are divided with truncation.
LoadTreeConsistent ==
    /\ load \in [Node -> Int]
    /\ \A n \in Node : load[n] = SumOf(load, CpusOf[n])

Abs(x) == IF x < 0 THEN -x ELSE x

\* Moving a group never leaves its old and its new node further apart than they
\* were: shouldMigrateGroup's comparison with the group's weight rules it out.
NoOvershoot ==
    [][ pc = "migrate" /\ pc' = "balance" =>
          Abs(load'[grpNode[curGroup]] - load'[curNode]) <= gap ]_vars

\* migrateGroup never dereferences nil: below the target there is a node of the
\* type of every task still to move.
MigrationTargetExists ==
    pc = "migrate" => \A t \in todoTids :
        SelectLighterBindNode(curNode, TypeOf[taskNode[t]], bindCount) # {}

\* The daemon never panics.
NoPanic == pc # "panic"

\* The daemon dies of four things only: a switch that looks below NUMA nodes, on a
\* machine where a NUMA node or a cluster has no CPU below it (CPU numbers that do not
\* follow the levels); a user pass with net affinity, whose reader of tids[0] may find
\* none; a group under way to the network's NUMA node when the tree has none of that id;
\* and an element of the retry list that outlived its task.
PanicCauses ==
    pc = "panic" =>
        \/ (conf.ccl \/ conf.perCore) /\ ~CpusEverywhere
        \/ conf.net /\ ~conf.auto /\ curGroup = NoName
        \/ conf.net /\ curGroup # NoName /\ curNode = NoNode
        \/ \E i \in DOMAIN retryTasks : retryTasks[i] = Stale

\* What the two properties below assume: no trace and no probe keeps a pass for ever.
CallsReturn == []<>~InCall

\* A refusal is settled: as long as traces and probes return, the thread of a retry element
\* is on its node in the end, or it is given up, has exited, or the daemon has died.
\* A failed retry removes the element that retryBindTasks stands on, which ends the loop:
\* the elements behind it must get their turn in a later pass.
RefusalSettled ==
    CallsReturn =>
        \A t \in Tids :
            (t \in Bound \cap Alive /\ Positions(t) # {} /\ affinity[t] # taskNode[t])
                ~> (affinity[t] = taskNode[t] \/ t \notin Bound \/ t \notin Alive \/ pc = "panic")

\* As long as traces and probes return, a bound task that exits is unbound, whatever
\* the pass was doing when it did, unless the daemon dies or the tid is given to a new
\* thread.
ExitedUnbound ==
    CallsReturn =>
        \A t \in Tids : (t \in Bound /\ life[t] = "dead")
            ~> (t \notin Bound \/ life[t] = "alive" \/ pc = "panic")

=============================================================================
