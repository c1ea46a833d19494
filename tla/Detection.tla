----------------------------- MODULE Detection -----------------------------
(***************************************************************************)
(* Which threads of a task belong together, common/threadaffinity, and the *)
(* pass of the affinity scan that asks (bindTasksDelayAwareGroup).         *)
(* Threads that wait on a common futex are connected; a group is what is   *)
(* connected, found by union and find over all pairs.  Each pass leaves a  *)
(* goroutine behind (taskExist) that looks the task up, puts its pid in a  *)
(* channel for a later pass and, when the pid is new, replaces the map of  *)
(* futexes, whatever the pass is doing then.                               *)
(***************************************************************************)
EXTENDS Integers, FiniteSets, Sequences, SequencesExt

CONSTANTS
    Pids, NoPid,   \* processes that may bear the task's name; none does
    Tids,          \* their threads
    Futexes,
    Traces,        \* what DoCollect may return: from threads to futexes
    NoTid,         \* stands in the nil slice, which differs from the empty one
    MaxPending     \* bound on goroutines and pids that wait for a pass

ASSUME DetectionAssumption ==
    /\ IsFiniteSet(Tids) /\ NoTid \notin Tids /\ NoPid \notin Pids
    /\ \A tr \in Traces : DOMAIN tr \subseteq Tids /\ \A t \in DOMAIN tr : tr[t] \subseteq Futexes
    /\ MaxPending \in Nat \ {0}

VARIABLES
    task,         \* the process that bears the name, in /proc
    scanOn,       \* block.ptraceScanSwitch
    step,         \* where the pass is
    count,        \* pids of the channel that this pass still takes
    ch,           \* delayTaskCh, by its length: the pids taken are not used
    lookups,      \* taskExist goroutines that have not called GetPid
    sends,        \* the pids of those that have not sent or are past sending
    currentPid,
    resultTidMap, \* futexes by thread, {} for threads that are not in it
    pid,          \* the process this pass traces, while it does
    infos, left,  \* what DoCollect returned and what is not yet copied of it
    resultTidArray, resultTidsSlice, resultGroupNum, resultTidsGroupAll,
    oldGroupNum, oldTidsGroupAll,
    bound,        \* the groups that the last change bound
    panicked,
    wiped         \* history: the map was replaced within this pass

Nil == {NoTid}

goroutines == <<lookups, sends>>
result == <<resultTidsSlice, resultGroupNum, resultTidsGroupAll>>
old    == <<oldGroupNum, oldTidsGroupAll>>
vars   == <<task, scanOn, pid, step, count, ch, goroutines, currentPid, resultTidMap,
            resultTidArray, infos, left, result, old, bound, panicked, wiped>>

Init ==
    /\ task \in Pids \cup {NoPid} /\ scanOn = TRUE
    /\ step = "idle" /\ count = 0 /\ ch = 0
    /\ lookups = 0 /\ sends = <<>>
    /\ currentPid = NoPid /\ pid = NoPid
    /\ resultTidMap = [t \in Tids |-> {}]
    /\ infos = <<>> /\ left = <<>> /\ resultTidArray = <<>>
    /\ resultTidsSlice = {} /\ resultGroupNum = 0 /\ resultTidsGroupAll = Nil
    /\ oldGroupNum = 0 /\ oldTidsGroupAll = Nil
    /\ bound = {} /\ panicked = FALSE /\ wiped = FALSE

-----------------------------------------------------------------------------
(* Union and find over the indices of resultTidArray *)

FindRoot(son, array) ==
    LET root[i \in DOMAIN array] == IF array[i] = i THEN i ELSE root[array[i]]
    IN root[son]

\* mutant: a itself is hung up, not its root
UnionNoRoot(a, b, array) == [array EXCEPT ![a] = FindRoot(b, array)]

Union(a, b, array) == [array EXCEPT ![FindRoot(a, array)] = FindRoot(b, array)]

MapConnect(a, b) == a \cap b # {}

\* The inner loop of groupTids: i and each index that follows
JoinRow(i, start, tidMap, tidArray) ==
    LET array[j \in i..Len(tidArray)] ==
          IF j = i THEN start
          ELSE IF MapConnect(tidMap[tidArray[i]], tidMap[tidArray[j]])
          THEN Union(i, j, array[j - 1]) ELSE array[j - 1]
    IN array[Len(tidArray)]

\* The outer loop, which begins with every index for itself
JoinAll(tidMap, tidArray) ==
    LET array[i \in 0..Len(tidArray)] ==
          IF i = 0 THEN [k \in 1..Len(tidArray) |-> k]
          ELSE JoinRow(i, array[i - 1], tidMap, tidArray)
    IN array[Len(tidArray)]

\* groupTids and getGroups: the threads by their roots
GroupTids(tidMap, tidArray) ==
    LET array == JoinAll(tidMap, tidArray)
        groupOf(i) == {tidArray[j] : j \in {k \in DOMAIN tidArray : FindRoot(k, array) = FindRoot(i, array)}}
    IN {groupOf(i) : i \in DOMAIN tidArray}

\* The order in which ReadDir lists threads
Order == [ts \in SUBSET Tids |-> SetToSeq(ts)]

Several(groups) == {g \in groups : Cardinality(g) > 1}

-----------------------------------------------------------------------------
(* A pass of the scan loop *)

\* mutant: one pid more than there are
TickOneMore ==
    /\ step = "idle" /\ scanOn /\ ~panicked
    /\ count' = ch + 1 /\ step' = "take"
    /\ UNCHANGED <<task, scanOn, pid, ch, goroutines, currentPid, resultTidMap, resultTidArray,
                   infos, left, result, old, bound, panicked, wiped>>

\* A tick: the pass takes the pids that are in the channel now
Tick ==
    /\ step = "idle" /\ scanOn /\ ~panicked
    /\ count' = ch /\ step' = "take"
    /\ UNCHANGED <<task, scanOn, pid, ch, goroutines, currentPid, resultTidMap, resultTidArray,
                   infos, left, result, old, bound, panicked, wiped>>

Take ==
    /\ step = "take" /\ count > 0
    /\ count' = count - 1 /\ ch' = ch - 1
    /\ step' = IF scanOn THEN "start" ELSE "take"
    /\ UNCHANGED <<task, scanOn, pid, goroutines, currentPid, resultTidMap, resultTidArray,
                   infos, left, result, old, bound, panicked, wiped>>

\* mutant: no look-up while nothing is bound
PassEndIfBound ==
    /\ step = "take" /\ count = 0
    /\ lookups' = IF bound # {} /\ lookups + Len(sends) + ch < MaxPending THEN lookups + 1 ELSE lookups
    /\ step' = "idle"
    /\ UNCHANGED <<task, scanOn, pid, count, ch, sends, currentPid, resultTidMap, resultTidArray,
                   infos, left, result, old, bound, panicked, wiped>>

\* The end of the pass starts a taskExist; ScanBoundTask is in TaskBinding
PassEnd ==
    /\ step = "take" /\ count = 0
    /\ lookups' = IF lookups + Len(sends) + ch < MaxPending THEN lookups + 1 ELSE lookups
    /\ step' = "idle"
    /\ UNCHANGED <<task, scanOn, pid, count, ch, sends, currentPid, resultTidMap, resultTidArray,
                   infos, left, result, old, bound, panicked, wiped>>

\* StartGroups drops the groups before it looks for the task (GetPid)
StartGroups ==
    /\ step = "start"
    /\ resultTidsSlice' = {} /\ resultTidArray' = <<>> /\ wiped' = FALSE
    /\ pid' = task
    /\ step' = IF task = NoPid THEN "changed" ELSE "collect"
    /\ UNCHANGED <<task, scanOn, count, ch, goroutines, currentPid, resultTidMap, infos, left,
                   resultGroupNum, resultTidsGroupAll, old, bound, panicked>>

\* DoCollect fails when the process is gone before its threads are listed; one that exits
\* later leaves the trace of what it did
Collect ==
    /\ step = "collect" /\ pid' = NoPid
    /\ \/ task # pid /\ step' = "changed" /\ UNCHANGED <<infos, left>>
       \/ \E tr \in Traces :
             /\ infos' = tr /\ left' = Order[DOMAIN tr]
             /\ step' = "insert"
    /\ UNCHANGED <<task, scanOn, count, ch, goroutines, currentPid, resultTidMap, resultTidArray,
                   result, old, bound, panicked, wiped>>

Insert ==
    /\ step = "insert" /\ left # <<>>
    /\ resultTidMap' = [resultTidMap EXCEPT ![Head(left)] = infos[Head(left)]]
    /\ resultTidArray' = Append(resultTidArray, Head(left))
    /\ left' = Tail(left)
    /\ UNCHANGED <<task, scanOn, pid, step, count, ch, goroutines, currentPid,
                   infos, result, old, bound, panicked, wiped>>

\* groupTids, mapToList and collectAllGroupTids
Group ==
    /\ step = "insert" /\ left = <<>> /\ step' = "changed"
    /\ resultTidsSlice' = GroupTids(resultTidMap, resultTidArray)
    /\ resultGroupNum' = Cardinality(Several(resultTidsSlice'))
    /\ resultTidsGroupAll' = UNION Several(resultTidsSlice')
    /\ UNCHANGED <<task, scanOn, pid, count, ch, goroutines, currentPid, resultTidMap, resultTidArray,
                   infos, left, old, bound, panicked, wiped>>

GroupChanged == resultGroupNum # oldGroupNum \/ resultTidsGroupAll # oldTidsGroupAll

\* mutant: backupTidsGroup forgets the number
RebindNoBackup ==
    /\ step = "changed" /\ GroupChanged
    /\ UNCHANGED oldGroupNum /\ oldTidsGroupAll' = resultTidsGroupAll
    /\ IF Cardinality(resultTidsSlice) < resultGroupNum
       THEN panicked' = TRUE /\ step' = "idle" /\ UNCHANGED bound
       ELSE bound' = Several(resultTidsSlice) /\ step' = "take" /\ UNCHANGED panicked
    /\ UNCHANGED <<task, scanOn, pid, count, ch, goroutines, currentPid, resultTidMap, resultTidArray, infos, left, result, wiped>>

\* The first resultGroupNum elements are bound, by index
Rebind ==
    /\ step = "changed" /\ GroupChanged
    /\ oldGroupNum' = resultGroupNum /\ oldTidsGroupAll' = resultTidsGroupAll
    /\ IF Cardinality(resultTidsSlice) < resultGroupNum
       THEN panicked' = TRUE /\ step' = "idle" /\ UNCHANGED bound
       ELSE bound' = Several(resultTidsSlice) /\ step' = "take" /\ UNCHANGED panicked
    /\ UNCHANGED <<task, scanOn, pid, count, ch, goroutines, currentPid, resultTidMap, resultTidArray, infos, left, result, wiped>>

Same ==
    /\ step = "changed" /\ ~GroupChanged /\ step' = "take"
    /\ UNCHANGED <<task, scanOn, pid, count, ch, goroutines, currentPid, resultTidMap, resultTidArray,
                   infos, left, result, old, bound, panicked, wiped>>

-----------------------------------------------------------------------------
(* The goroutines: taskExist *)

\* GetPid; without a process the goroutine ends
Lookup ==
    /\ lookups > 0 /\ lookups' = lookups - 1
    /\ sends' = IF task = NoPid THEN sends ELSE Append(sends, [pid |-> task, sent |-> FALSE])
    /\ UNCHANGED <<task, scanOn, pid, step, count, ch, currentPid, resultTidMap, resultTidArray,
                   infos, left, result, old, bound, panicked, wiped>>

Send(i) ==
    /\ ~sends[i].sent
    /\ ch' = ch + 1 /\ sends' = [sends EXCEPT ![i].sent = TRUE]
    /\ UNCHANGED <<task, scanOn, pid, step, count, lookups, currentPid, resultTidMap, resultTidArray,
                   infos, left, result, old, bound, panicked, wiped>>

\* mutant: the new pid is not kept
PidChangedForgets(i) ==
    /\ sends[i].sent /\ sends' = RemoveAt(sends, i)
    /\ IF currentPid = sends[i].pid
       THEN UNCHANGED <<currentPid, resultTidMap, wiped>>
       ELSE /\ UNCHANGED currentPid
            /\ resultTidMap' = [t \in Tids |-> {}]
            /\ wiped' = (wiped \/ step = "insert")
    /\ UNCHANGED <<task, scanOn, pid, step, count, ch, lookups,
                   resultTidArray, infos, left, result, old, bound, panicked>>

PidChanged(i) ==
    /\ sends[i].sent /\ sends' = RemoveAt(sends, i)
    /\ IF currentPid = sends[i].pid
       THEN UNCHANGED <<currentPid, resultTidMap, wiped>>
       ELSE /\ currentPid' = sends[i].pid
            /\ resultTidMap' = [t \in Tids |-> {}]
            /\ wiped' = (wiped \/ step = "insert")
    /\ UNCHANGED <<task, scanOn, pid, step, count, ch, lookups,
                   resultTidArray, infos, left, result, old, bound, panicked>>

-----------------------------------------------------------------------------
(* The task and the daemon's switch *)

TaskExit  == task # NoPid /\ task' = NoPid
TaskStart == task = NoPid /\ task' \in Pids

Environment ==
    /\ TaskExit \/ TaskStart
    /\ UNCHANGED <<scanOn, pid, step, count, ch, goroutines, currentPid, resultTidMap, resultTidArray,
                   infos, left, result, old, bound, panicked, wiped>>

StopScan ==
    /\ scanOn /\ scanOn' = FALSE
    /\ UNCHANGED <<task, pid, step, count, ch, goroutines, currentPid, resultTidMap, resultTidArray,
                   infos, left, result, old, bound, panicked, wiped>>

Scan == Tick \/ Take \/ PassEnd \/ StartGroups \/ Collect \/ Insert \/ Group \/ Rebind \/ Same

Goroutine == Lookup \/ \E i \in DOMAIN sends : Send(i) \/ PidChanged(i)

Next == Scan \/ Goroutine \/ Environment \/ StopScan

Spec == Init /\ [][Next]_vars

\* The pass is in a call that may not come back: DoCollect waits for its threads without
\* a limit, and to bind a group may take a probe of circular links
InCall == step = "collect" \/ (step = "changed" /\ GroupChanged)

\* The pass runs on by itself
ScanReady == ~InCall /\ (step # "idle" \/ (scanOn /\ ~panicked))

\* The ticker ticks, and Go runs every goroutine, and the loop while it is in no such
\* call.  The second conjunct is WF_vars(~InCall /\ Scan) with ENABLED written out, which
\* TLC evaluates faster
FairSpec ==
    /\ Spec
    /\ []<>~ScanReady \/ []<><<~InCall /\ Scan>>_vars
    /\ WF_vars(Lookup)
    /\ \A i \in 1..MaxPending : WF_vars(i \in DOMAIN sends /\ (Send(i) \/ PidChanged(i)))

-----------------------------------------------------------------------------
(* Properties *)

TypeOK ==
    /\ {task, currentPid, pid} \subseteq Pids \cup {NoPid}
    /\ {scanOn, panicked, wiped} \subseteq BOOLEAN
    /\ step \in {"idle", "take", "start", "collect", "insert", "changed"}
    /\ count \in 0..ch /\ lookups + Cardinality({i \in DOMAIN sends : ~sends[i].sent}) + ch <= MaxPending
    /\ sends \in Seq([pid : Pids, sent : BOOLEAN])
    /\ resultTidMap \in [Tids -> SUBSET Futexes]
    /\ left \in Seq(DOMAIN infos)
    /\ resultTidsSlice \subseteq SUBSET Tids /\ bound \subseteq SUBSET Tids
    /\ {resultTidsGroupAll, oldTidsGroupAll} \subseteq (SUBSET Tids) \cup {Nil}
    /\ {resultGroupNum, oldGroupNum} \subseteq 0..Cardinality(Tids)

\* The threads that t is connected to: the smallest set with t that is closed
\* under having a futex in common
Component(t) ==
    LET closed(S) == t \in S /\ \A a \in S, b \in DOMAIN infos : infos[a] \cap infos[b] # {} => b \in S
    IN CHOOSE S \in SUBSET DOMAIN infos : closed(S) /\ \A T \in SUBSET S : closed(T) => T = S

\* Threads are put into a group only when they are connected in the trace,
\* even if the map is replaced while it is filled; and union and find yields
\* exactly the connected sets unless it was
GroupsExact ==
    step = "changed" =>
        /\ \A g \in resultTidsSlice : \A t \in g : g \subseteq Component(t)
        /\ resultTidsSlice # {} /\ ~wiped =>
               resultTidsSlice = {Component(t) : t \in DOMAIN infos}

\* Between passes the bound groups are those that the saved number and
\* threads describe, and no thread is in two of them.  A failed look-up or
\* trace leaves no groups but the old number of them: no pass takes that for
\* a change, to index a slice that is empty
BoundAsSaved ==
    /\ ~panicked
    /\ step \in {"idle", "start"} =>
           /\ oldGroupNum = Cardinality(bound)
           /\ oldTidsGroupAll = IF oldTidsGroupAll = Nil THEN Nil ELSE UNION bound
           /\ \A g, h \in bound : g # h => g \cap h = {}

\* The task stays and no trace or probe keeps the scan for ever
Steady == <>[](scanOn /\ task # NoPid) /\ []<>~InCall

\* Then its futexes are grouped again and again, and in the end the detection knows the
\* task by its pid, whatever late goroutines still carry
TaskTraced == Steady => []<>(step = "insert")
PidFollows == Steady => <>[](currentPid = task)

\* After a pass the groups that are bound are the groups it found
RegroupNoticed ==
    step = "idle" /\ ~panicked /\ resultTidsSlice # {} => bound = Several(resultTidsSlice)

=============================================================================
