# wisdom-advisor: models, checks and proofs

wisdomd is a daemon that binds the threads of other processes to parts of the machine. This
directory holds TLA+ models of its own logic, TLC runs over small instances of them, and proofs
that TLAPS checks for every instance. Source paths are relative to the repository.

- `X.tla` models a component; `XProps.tla` or the end of `X.tla` states what it promises.
- `MCX.tla` and `MCX_run.cfg` are the small instances; `X_proofs.tla` holds the proofs about X.
- `PROJECT.json` lists components, runs, the code each definition stands for, hazards, theorems,
  and for each property a mutant: a plausible bug that breaks it. Mutants are the definitions
  whose comment begins with `mutant:`; no action uses them.

## 1. The system

### Components

| Component | State | Operations | Hard parts | What makes it correct |
|---|---|---|---|---|
| daemon (`cmd/wisdomd`) | the socket file, one `ControlBlock` switch, one goroutine per request and per scan | the RPCs, scan loops, start, quit | requests and loops share the switch and the mode with no lock; a panic leaves the socket file | few loops, honest answers, a stop that stops, a daemon that can be started again |
| policy (`common/policy/policy.go`) | `bindTaskMap`, `bindGroupMap`, `retryTasks`, the switches | balance, bind, retry, unbind, regroup | several structures per operation, lists changed by the loops that walk them, nil nodes | the structures agree, tasks stay under their group and in their NUMA node, nothing is lost |
| topology (`common/topology`) | the tree, a load and a bind count per node | `InitTopo`, searches, `AddLoad`, `AddBind` | truncated shares, masks with offline CPUs, nodes without children | loads add up, counts cover what is bound, a search answers the lightest |
| load (`common/sysload`) | CPU loads, monitored tasks | `Update`, `AddTask`, `RemoveTask` | stale entries | exactly the bound tasks are monitored |
| scan (`common/procscan`) | none | `Run`: groups from `/proc/<pid>/environ`, exited tasks | threads exit between listing and binding | exited tasks are unbound |
| detection (`common/threadaffinity`) | futex maps, groups, the last groups | `StartGroups`, `GroupChanged`, `PidChanged` | a goroutine replaces the map; changes that go unnoticed | groups are the connected threads, and the bound ones |
| tracing (`common/ptrace`) | one goroutine per traced thread, the kernel's stops | `DoCollect`, `ParseLoop` | waiting for threads that are gone, signals taken for calls | tracing ends, every thread is released |
| net affinity (`common/netaffinity`) | `/wisysfs`, mounts, the thread's namespace | `GetProcessNetNuma` | clean-up on errors, concurrent probes, moving goroutines | one probe at a time, no thread left in a container, exact devices |
| partition (`common/policy/partition.go`) | the CPU groups | parsing, distribution of threads over CPU groups | integer division, boundaries | every thread gets a fair part |
| masks (`common/cpumask`, `common/sched`) | none | bit operations, `sched_setaffinity` | limits of 640 and 1024 bits | no index beyond the mask |

`cmd/wisdom` (a client that turns flags into one request), `common/api` (generated), `common/utils`,
`common/testutils` and the Rust stubs keep no state of interest; vendored code is not considered.

### How they interact

A request either runs one pass in its own goroutine (usersetaffinity) or leaves a loop behind
that runs a pass at every tick (threadsaffinity, threadsgrouping). A pass of the first two is
`BalanceTaskPolicy` then `BindTasksPolicy`:

1. balance: `sysload` measures, loads go into the topology tree, groups move within a NUMA node;
2. retry: refused `sched_setaffinity` calls are repeated;
3. find groups: `procscan` reads the environment, or, in affinity mode, `threadaffinity` asks
   `ptrace` which futexes threads share;
4. bind: `netaffinity` may name a NUMA node, the topology answers the lightest one otherwise;
5. reap: tasks that exited are unbound.

A pass of threadsgrouping traces a process and deals its threads out to the CPU groups of the
request. Everything shared is package-level and without locks.

## 2. The models

| Module | Models | EXTENDS |
|---|---|---|
| `Sums` | the sums that loops of the code build up, as a fold | |
| `Topology` | searches and arithmetic of `common/topology` | `Sums` |
| `TopologyBuild` | `InitTopo`, which builds the tree from sysfs | (instance of `Topology`) |
| `TaskBinding` | `policy.go` with `procscan`, and what it asks of `sysload`, `topology`, the kernel | `Topology` |
| `TaskBindingProps` | what `TaskBinding` promises | `TaskBinding` |
| `Placement` | the abstract specification of binding, which `TaskBinding` implements | |
| `ScanControl` | `cmd/wisdomd`, and which of the policies a pass runs | |
| `Detection` | `threadaffinity` and the affinity pass that calls it | |
| `Tracing` | `ptrace`: `DoCollect`, `ParseLoop`, and the kernel's side | |
| `NetProbe` | `netaffinity` | |
| `Partition` | `partition.go` and `sched.setAffinity` | `Sums` |

### Topology

The tree is a constant: `TypeOf`, `ParentOf`, `Weight` (bits of the mask) and `Rank` (the order
in which a search meets the nodes). `TopologyAssumption` is the shape of the tree (`TreeShape`):
six levels, each under the next, and no mask empty but the root's, which `InitTopo` never fills. Load and bind counts are functions handed to the operators.
`SelectLighterLoadNode`, `SelectLighterBindNode` and `SelectNumaNode` answer a set of at most one
node: an empty set is the code's nil, and a caller that does not look is a `Panic` action.
`AddLoad` of an inner node divides a load by the bits of its mask, with truncation, and each CPU
below adds that share to itself and to all its ancestors: the node need not end up with the sum
that was asked for, but inner nodes remain the sums of their CPUs (`LoadTreeConsistent`).

### TopologyBuild

`InitTopo` takes one CPU after the other (`TakeCpu`, `SkipCpu`) down the levels: at each it reads a
mask and finds the node that has it (`OldNode`) or makes one under the CPU's node of the level above
(`NewNode`). Between any two reads a CPU may go on- or offline (`Plug`), so that a mask changes or
is gone (`ReadFails`). Packages, NUMA nodes and cores are sets of CPUs that sysfs shows; clusters
are blocks of consecutive CPU numbers whatever the machine is. The module instantiates `Topology`
with the tree it has built, and `MeetsAssumption` states the assumption of the binding models.

### TaskBinding

| Variable | Code |
|---|---|
| `taskGroup`, `taskNode` | `bindTaskMap[tid].group`, `.newBindNode` |
| `grpNode`, `grpTasks` | `bindGroupMap[name].bindNode`, `.tasks` |
| `attach`, `bindCount`, `load` | the tree's `AttachTask`, `loadInfo.bindCount`, `loadInfo.load` |
| `monitored`, `taskLoad` | `sysLoad.tasksLoad` |
| `retryTasks` | the retry list; `Stale` is an element whose task was unbound |
| `conf` | `cclAwareOn`, `PerCore`, `netAwareOn`, `affinityAware` |
| `pc`, `todo...`, `cur...`, `cursor`, `detected` | where the pass is and what its loop still visits |
| `life`, `affinity` | the kernel's threads and their masks |

One action per loop body: `StartPass` (`updateNodeLoad`), `KeepGroup`/`BeginMigrate`/
`MigrateTask`/`MigrateNil`/`MigrateEnd` (`balanceGroup`, `migrateGroup`), `RetryOk`/`RetryErr`/`RetryStale`
(`retryBindTasks`), `BindMembers`/`NoMembers`/`EmptyNetPanic` (`procscan`), `Regroup`/
`BindDetected` (`bindTasksAwareGroup`), `BindTask`/`BindTwice`/`BindNil` (`bindTasksToNuma`),
`Reap` (`ScanBoundTask`). Threads start and exit between any two of these. A map is walked in
any order, a list in its own. Every nil dereference of the code is a step to `"panic"`.
`NetNumas` are the answers of `netaffinity`; one that the tree has no node for is `NoNode`, the nil
of `GetNumaNodeByID`.

### Placement

The abstract specification knows tasks, groups and places, and four things that may happen: a group
gets a place before it has tasks, a task joins a group and goes to its place, tasks leave and the
groups they empty are given up, or nothing. `TaskBindingProps` instantiates it with a place being the
NUMA node over a node (`PlaceOf`): balancing, migrations, retries and refusals map to stutters, which
is the claim of `PlacementHolds`. Loads and bind counts, which decide *which* place, are not in it.

### ScanControl

A step makes at most one access to `block.ptraceScanSwitch` or `affinityAware`, so requests and
loops interleave as goroutines do. `call[c]` is where a handler is, `loop[c]` the loop it left.
`Quit` is a signal; `ProcessGone` is what any end of the process takes away: handlers, and loops,
which are then `"killed"`. What a pass binds is left to the other modules; here only the policy it
chooses counts.

### Detection

The pass is `Tick`, `Take` (pids waiting in `delayTaskCh`), `StartGroups`, `Collect` (the trace of the process `pid` that `StartGroups` looked up, an input; it fails if
another process bears the name by then), `Insert` (one thread's futexes at a time), `Group` (union and find over all pairs: the
two loops of `groupTids` are the recursive functions of `JoinRow` and `JoinAll`), `Rebind` or `Same`. The goroutine `taskExist` is `Lookup`, `Send`, `PidChanged`, and
may replace the map of futexes between any two `Insert`s. Slices of tids are sets; `Nil` stands
for the nil slice, from which the empty one differs. `bound` is what the pass hands to
`BindGroupAuto`, group by group. They all come there under one name, the empty one, as `mapToList`
names a copy (threadaffinity.go:183-186), so that `bindGroupMap` holds a single group of them: this
is `AutoName` in `TaskBinding`.

### Tracing

One `DoCollect`: `main` goes from `ReadDir` over `Spawn` and `Sleep` to `CloseStop` and `WaitAll`, and
`pc[t]` follows the `ParseLoop` of thread `t`, one action per system call that it makes. The other
half is the kernel: a thread is in user mode or in a call, stops at entries and exits if it was
resumed by `CatchSyscall`, for signals, and for an `Interrupt` some time after it; it may exit
at any point, alone or with its process, and is a zombie until its tracer has waited for it. The
leader's zombie is held back as long as there are other threads. `misread` and `signalled` are
history: the records made elsewhere than at the entry of a call, and the threads that a signal
stopped.

### NetProbe

Each caller is a goroutine whose `pc` follows `GetProcessNetNuma`: `Mkdir`, `Mount` (`preDetect`);
`NSEnter`, `RemountNs`, `GetDevCache`, `GetDevRelated`, `SplitLinks`, `Leave` or `LeaveErr`,
`RemountRoot`, `Follow`, `Resolved` (`GetRealDevRelated`); `Umount`, `Rmdir` (`postDetect`);
`GetProcessNetNuma` (the answer). `dir` and `mounts` belong to the machine and outlive the daemon,
`nsOf` to the OS threads; `Migrate` is the Go scheduler, which may take a goroutine that is not
locked to its thread to another one. Only a scan loop that has traced is locked (`DoCollect` calls
`LockOSThread` and never undoes it); a usersetaffinity handler is not.

### Partition

A list of a request is a sequence of items that are a range, a CPU, or nothing that parses. A
pass counts what threads do (`Collect`, an input), then deals those with I/O and those with net
access (`Deal`, one `BindGroup` per CPU group, `Dealt`). CPU groups are known by their places in the
list, `First` is the next one to serve, and what it takes (`Taken`) are the first of the threads
left, as many as the code's quotient (`Round`) says.

## 3. What the runs check

| Run | Distinct states | Shows |
|---|---|---|
| `binding_safety` | 119,634 | tables agree, tasks stay under their group, loads and counts are consistent, no refusal is lost, a migration never overshoots, and seen from the NUMA nodes it all is `Placement` |
| `binding_live` | 177,529 | with a NUMA node that has no CPUs, an empty cluster, a network device on a NUMA node outside the tree, refusals, and a tid that is given to a new thread: the daemon dies of the four listed causes only; as long as traces and probes return, refusals are settled and exited tasks are unbound |
| `binding_retry` | violation | **finding**: a task refused twice leaves a retry element that outlives it; the daemon dies on it |
| `build_all` | 20,648 | the tree `InitTopo` hands out is what `Topology` assumes, and its nodes have the CPUs of their masks below them exactly if the CPUs are numbered regularly |
| `scan_all` | 258,364 | how many loops there can be, that exactly the starts answered OK left one, that a stop ends every loop whose passes return |
| `scan_restart` | violation | **finding**: a scan that is stopped and started again may never run again |
| `net_all` | 128,252 | one probe at a time, what is left behind and why, exact devices |
| `detection_all` | 762,012 | groups are the connected threads, the bound ones are those saved, a task that stays is traced again and again as long as traces and probes return |
| `detection_regroup` | violation | **finding**: the same threads in as many but other groups go unnoticed |
| `tracing_all` | 120,624 | tracers wait only for what comes, release every thread, and end; without signals every record is of an entry |
| `tracing_leader` | violation | **finding**: a leader that exits before its threads keeps `DoCollect`, and the scan with it, until the process ends |
| `partition_all` | 984,459 | every thread is dealt, no group is short, threads are on their kind's CPUs |

The findings quote, in `PROJECT.json`, the line of code, document or test that says otherwise.

Behaviour that the models show and that no line of the repository denies, so that no run counts it
as a violation:

- `/wisysfs` outlives a probe that fails or a daemon that is killed inside one, and then every
  later probe fails in `Mkdir`, for good; `LeakNeedsMishap` permits it, and says that nothing else
  leaves it.
- A probe that runs unlocked may be moved to another thread and leave the first in a container's
  namespace (`strays`; `NoStrayThread` permits this move and no other way); a probe of a container finds its sockets only when its thread is the
  leader, whose namespace `/proc/net` shows.
- Devices linked in a circle, as a host's veth pair, keep a probe busy for ever (`Circular`), and with
  it the pass. That pass, like one whose trace hangs (`tracing_leader`), never reaches its retries and
  `ScanBoundTask` again: exited tasks stay bound, refused ones unretried, a stop is not seen and
  nothing is traced. `ExitedUnbound`, `RefusalSettled`, `StopEndsLoops`, `TaskTraced` and `PidFollows`
  therefore name the return of traces and probes in their premise.
- With net affinity, a network device on a NUMA node that has no CPU online ends the daemon:
  `GetProcessNetNuma` answers what sysfs says, the tree has no such node, and
  `makeBindGroupByNumaID` dereferences the nil (`BindNil`; a cause of its own in `PanicCauses`).
- Detected groups are all bound under one name, hence as one group that keeps the first one's node
  (`AutoName`, and `Detection` above): threads that share no futex end up together.
- A traced thread that stops for a signal never gets it (`CatchSyscall` resumes with signal 0), and
  the stop shifts the phase: from then on exits are recorded as entries (`misread`; `PhaseKept` says
  that nothing but a signal does this).
- A period of zero passes the check of the upper bound, `NewTicker` panics, and the socket file that
  stays behind keeps the daemon from being started again (`TickerPanic`, `Boot`), although
  the answer to a bad period says that it should be greater than zero.
- A usersetaffinity request takes affinity mode away under a running threadsaffinity scan, whose
  next passes bind by the environment (`userbind`).
- A group that loses its last task is deleted and does not give the bind of its node back
  (`UnbindTask`), so later searches shun that node; `BindCountCovers` is the lower bound that holds,
  and permits the surplus.
- A task's first retry element outlives it when there is a second (`Stale`); `RetryNamesBound` permits
  it, and `binding_retry` shows what it does.
- A tid that the kernel gives to a new thread before the next scan stays in the tables as the old
  one's; nobody sets the new thread's affinity. A tid refused because its thread was gone, then
  reused and refused again, has two retry elements: the daemon dies as in `binding_retry`
  although no living thread was refused (`PanicCauses`).
- A thread that is named by two groups leaves the second one empty for ever (`BindTwice`);
  `Placement` has such a group as a step of its own, so `PlacementHolds` permits it.
- With CPU numbers that alternate between NUMA nodes, clusters hang below the NUMA node of the
  first CPU seen, and a NUMA node may have nothing below it: CCL and per-core binding die there
  (`RegularExact`, `PanicCauses`).
- Where the threads of a core are numbered far apart, the second threads hang under the cluster of
  the first: their own clusters are empty, and binding into one (`BindNil`) or moving a group's
  task there (`MigrateNil`) ends the daemon; and a cluster may have more CPUs than its mask has
  bits, so that a migration moves more load than it weighs (`MasksCover`, `NoOvershootHolds`).
- A CPU numbered 640 or higher has an empty mask, by whose weight `AddLoad` divides (`InRange`).
- `InitTopo` counts CPUs up to the number of processors listed, so that an offline CPU hides the
  highest one; CPU 0 is left out where it has no file `online` (`cpuNum`, `fixed`).
- A threadsgrouping request whose CPU lists do not parse leaves the switch on: later requests are
  told that a scan runs though none does (`BadList`). `AckMatchesLoop` says only that the refused
  request leaves no loop.
- A CPU plugged while `InitTopo` runs may give a NUMA id two nodes (`Plug`); `MeetsAssumption` asks for
  one only while nothing is plugged.
- A CPU number from 1024 on parses when it stands alone or in a range up to 2048, and ends the
  daemon in `sched.setAffinity` (`MaskPanic`).
- Dealing threads out to three or more CPU groups of different sizes may give the last ones an
  excess that adds up: only the lower bound, and evenness among equals, hold (`Proportional`).
- With net affinity, a group variable that names no thread of a process ends the daemon
  (`EmptyNetPanic`).

### Bounds, and why they are enough

- *TaskBinding.* Two tids (interchangeable, so `binding_safety` uses symmetry) and one environment
  group: the structures relate one task to one group, and the retry defect needs one task. A
  machine of thirteen nodes has two NUMA nodes, one with two clusters, so that a group has a
  target inside its NUMA node and another NUMA node to stay out of. The measurements (1700, 1300
  and 1800 of 1024 units, tasks of 800) lie on both sides of the gap of 307 per bit of the mask
  and of the group's weight. `MaxEvents` bounds refusals, restarts of threads and regroupings
  together; two refuse a task both when bound and when moved, three also reach the panic.
  `bindCount`, which the leak lets grow, stays finite because a tid exits once where `ReuseTids` is
  empty, and reuses and regroupings are in the budget.
  The bare machine of `binding_live` has a NUMA node with nothing below it and, in the other, an
  empty cluster beside two whose CPUs share its cores. Its automatic passes bind below NUMA nodes
  and may meet a nil node when they bind and when they migrate; its user passes bind to whole NUMA
  nodes. Both ask for the network's NUMA node, which is one without CPUs (`MCOffNet`) or is not known,
  and both may be refused. One of the two tids may be reused, which spends an event like a refusal.
- *TopologyBuild.* Five CPUs in clusters of two, four bits to a mask: the last CPU is beyond it. One
  or two packages, NUMA nodes in halves or by parity, cores of one CPU, of neighbours or of
  CPUs far apart; one CPU goes on- or offline at any point.
- *Tracing.* Two threads, as what they share is only the process's end and the leader's zombie, which
  need a leader and one more. Nothing is bounded: threads call, stop and are signalled for ever.
- *ScanControl.* Three requests make the longest race of the code: a running scan, a stop and a start,
  or three starts. Two boots show what an end of the process leaves. A period is 0, 1 or more
  than `MaxPeriod`.
- *NetProbe.* A locked scan loop and an unlocked handler, three threads so that a move is possible
  while both are busy, two probes, one move and one mishap (refusal, exit, kill) at any step. The
  three processes cover a VLAN on a bond, a container's link to the host, and a circle. `MCNetProbe`
  assumes `DevicesSeen` of them, which `FoundExactHolds` needs.
- *Detection.* Four threads and two futexes are the fewest with two ways to pair threads; six
  traces add a chain, a loner, a smaller and a complete one. Two goroutines or pids at a time
  (`MaxPending`) race with each other and with the pass; two processes take turns at the name.
- *Partition.* Three threads, up to three CPU groups for I/O and one for net access, sizes 1 to 3,
  one refusal a pass; the mask (6) and the parser's limit (7) are scaled with the gap kept.

### Fairness, and why the code justifies it

Only the daemon's own steps are fair; threads, processes, the kernel's refusals, requests and
signals are not.

- `TaskBinding!FairSpec`: `PassStep` outside of calls that may not return, and `Tick`, as the ticker
  fires again. Between two such calls a pass is sequential code that waits for nothing. The calls
  (`InCall`) are `DoCollect`, which waits for its threads without a limit (`tracing_leader` shows it
  hanging), and a probe, which circular links keep (`ProbeEnds` excludes them). Nothing makes them
  return here; `RefusalSettled` and `ExitedUnbound` have `CallsReturn` as their premise. Without it
  TLC refutes both, by a trace that never ends.
- `ScanControl!FairSpec`: each handler and each loop, as goroutines that the Go scheduler runs, but
  not the end of a pass, for the same reason (`InPass`, and the handler's `"pass"`). `StopEndsLoops`
  has the return of every loop's passes in its premise. That a handler reaches its first step, or that
  the daemon boots, is not assumed.
- `Tracing!FairSpec`: `DoCollect` and each `ParseLoop`, as goroutines. `PollNothing` is strongly fair:
  a poll of a busy thread is now and then ahead of its next stop, or the channel would never be
  looked at. Of the kernel, only that an interrupted thread comes back from its call and stops.
  The leader's zombie is not assumed to be reported: `TracingEnds` says so in its premise.
- `NetProbe!FairSpec`: each probe. `Migrate` is not fair.
- `Detection!FairSpec`: the pass with its ticker outside of traces and probes (`InCall`), the look-up
  and each goroutine. `Steady`, the premise of `TaskTraced` and `PidFollows`, adds that these calls
  return. WF of `Scan` is written with its ENABLED spelled out (`ScanReady`) to be evaluated faster.

## 4. What is proved

| Theorem | States |
|---|---|
| `TaskBinding_proofs!Invariance` | the inductive invariant |
| `TypeCorrect`, `BookkeepingHolds` | types; the five structures of a bound task always agree |
| `TaskUnderGroupHolds` | a task is on its group's node or below, in every state of a migration |
| `RetryNamesBoundHolds` | the retry list names bound tasks or forgotten ones |
| `NumaConfinementHolds` | no step takes a bound task or group to another NUMA node (an action property) |
| `BindCountHolds` | a node's count of binds covers the tasks and groups on it |
| `AffinityOrRetryHolds` | a living bound thread runs on its node or has a retry element |
| `PlacementImplemented` | `TaskBinding` implements `Placement` |
| `GroupsTogether` | a bound task is on its group's NUMA node, between any two steps |
| `LoadTreeHolds` | an inner node's load is the sum of its CPUs' loads, however shares are truncated |
| `NoOvershootHolds` | with `MasksCover`: no migration leaves its two nodes further apart than it found them (an action property) |
| `PanicCausesHolds` | the daemon dies of a node without CPUs, an empty net group, a network NUMA node outside the tree or a stale retry element only |
| `MigrationTargetHolds` | with `CpusEverywhere`: each task of a migrating group finds a node below the target |
| `TopologyBuild_proofs!MeetsAssumptionHolds` | a tree that `InitTopo` hands out is what `Topology` assumes, if its CPUs fit into a mask |
| `RegularExactHolds` | its nodes have exactly the CPUs of their masks below them if and only if CPUs are numbered regularly |
| `RegularTreeCovers` | a tree of a regular numbering satisfies `MasksCover` and `CpusEverywhere` |
| `TypeCorrect`, `BuildInvariance`, `PlacedInvariance` | types; the inductive invariants of the shape and of what hangs where |
| `Detection_proofs!GroupsExactHolds` | union and find over all pairs of threads yields exactly the connected sets |
| `BoundAsSavedHolds` | the bound groups are those that the saved number and threads describe |
| `TypeCorrect`, `InvHolds` | types; the inductive invariant |
| `Partition_proofs!AllDealtHolds` | every thread of a kind is dealt, to one CPU group |
| `ProportionalHolds` | no group is short of its part by a whole thread; equal groups differ by one thread at most |
| `OnOwnKindHolds` | after a pass each thread that was not refused is on CPUs of its kind |
| `TypeCorrect`, `InvHolds` | types; the inductive invariant |
| `Tracing_proofs!ReleasedHolds` | once `DoCollect` has returned, no living thread is attached or stopped |
| `WaitsForEventHolds` | a tracer that waits without limit waits for what has come or will come |
| `PhaseKeptHolds` | without a signal, every record is of the entry of a call |
| `TracingTypeCorrect`, `TracingInvariance` | types; the inductive invariant |
| `ScanControl_proofs!LoopsBoundedHolds` | beyond the first loop, each takes a stop or an overlapping start |
| `AckMatchesLoopHolds` | the requests that left a loop are exactly the starts answered OK |
| `ScanTypeCorrect`, `ScanInvariance` | types; the inductive invariant |
| `NetProbe_proofs!ProbesExcludeHolds` | at most one probe is inside `/wisysfs`, whatever fails, moves or dies |
| `LeakNeedsMishapHolds` | without a refusal, an exit or a kill, nothing of `/wisysfs` is left behind |
| `NoStrayThreadHolds` | without a move or a refused way back, no thread is left in a container's namespace |
| `FoundExactHolds` | with `DevicesSeen`: a probe that nothing led astray finds all and only the host devices of its process, or none |
| `TypeCorrect`, `PathInvariance` | types; the inductive invariant of the others |

So every invariant that a passing run checks is a theorem, and so are `PlacementHolds` and `NoOvershoot`.

They hold for every machine, workload, set of threads, requests or callers and every bound that meets
`TopologyAssumption` and `BindingAssumption`, `BuildAssumption`, `TracingAssumption`,
`ScanAssumption`, `ProbeAssumption`, `DetectionAssumption` or `PartitionAssumption`, each of which
TLC evaluates on the runs of its module. What the first one assumes of the tree is proved of
`InitTopo` (`MeetsAssumptionHolds`), for machines whose CPUs fit into a mask. Three theorems assume
more, as a hypothesis of their own:

- `MasksCover` (`NoOvershootHolds`) and `CpusEverywhere` (`MigrationTargetHolds`) are false on
  machines that number the threads of a core far apart, and there the code does what they exclude
  (section 3). `RegularTreeCovers` proves both for the trees that `InitTopo` builds where CPU numbers
  follow the levels. `PanicCausesHolds` needs neither: it names its absence as a cause.
- `DevicesSeen` (`FoundExactHolds`): a process's devices are in its own namespace, and what their links
  lead to is in the host's. Elsewhere `/sys` does not show them, and the code cannot find them.

*TaskBinding.* `Bookkeeping` is not inductive alone: unbinding needs to know what the loops hold.
`Inv` adds `BalanceInv` (groups still to balance exist; a migrating group's source and
target are under one NUMA node; its tasks still to move are its own), `BindInv` (the loop's group
is known, its target is a NUMA node or nil; tasks to reap are bound) and `GroupLevel` (no group is above a NUMA
node, so its NUMA node exists). There is one lemma per action (`BindTaskInv`, `MigrateTaskInv`,
`ReapInv`, ...), resting on `UnbindFacts`, `MigrateTaskFacts` and `BindToNodeFacts` for what
the shared steps do and on `DropRetryFacts` for the list. The first part proves what the tree
needs: every node has one ancestor per level (`Chains`), and nodes below a node share its ancestors
(`SameParent`), from which `NumaConfinement` follows action by action (`NextNuma`).

*Counts and affinities.* `CountInv` adds to `Inv` that `Groups` is finite. Each action that changes `attach`, `grpNode`
or `bindCount` has a lemma that counts what a node gains and loses (`UnbindCounts`,
`MigrateTaskCounts`, `MigrateEndCounts`, `BindTaskCounts`); `Bookkeeping` says that a task leaves the
node whose count goes down, and `NothingGained` is for the nodes a step leaves alone. `AffInv` adds
to `Inv` that what is bound, or about to be, has started (`Known`), so that no thread comes to life in
the tables; the list is the rest: `BindToNode` accepts or appends (`BindToNodeKeeps`), and
removing the last element of one task takes none of another's (`DropRetryOthers`).

*Placement.* Each action of `TaskBinding` maps to one of `Placement` or to a stutter, by the same
invariant: a task's NUMA node is its group's since it is under its group's node and no group is
above a NUMA node (`TaskUnderGroup`, `GroupLevel`); migrations keep both since source and target
are under one NUMA node (`BalanceInv`); and unbinding a task empties its group in the tables
exactly when it was the only member (`Bookkeeping`).

*Loads.* `Sums_proofs` unrolls the fold of `SumOf` once (`SumSteps`), from which it follows that the
order does not matter (`SumLess`) and that sums add up (`SumAdds`, `SumOn`). `AddLoad` adds the same
share to each CPU below a node and, to every other node, as many shares as it has of those CPUs
(`AddLoadConsistent`); a measurement sets all CPUs (`SetCpuLoadsConsistent`).

*Migrations.* `GapInv` says, for each state of a migration, that the difference of the two loads has gone
down by no more than twice the loads of the tasks moved so far. It rests on `ShareBounds`: what a
node gives away is at most the task's load, since truncated shares times the CPUs below it
exceed no load where masks cover the CPUs; on `SubsApart`: source and target have no CPU in
common; and on the weight of the group being less than the gap when it began.

*What the daemon dies of.* A search among some nodes answers one (`LightestExists`: ranks break every
tie), and where a node has a CPU below it, it has nodes of every type in between (`LevelsBelow`). A nil
is therefore a node with no CPU, or the target itself (`MigrateNilCause`, `BindNilCause`); `CauseInv`
adds what the switches were when the pass chose its way, and that only the network's answer makes
a target nil (`StartBindCause`).

*TopologyBuild.* `Hanging` says that each node made hangs under an older one of the next level, and that
the next will; `Masked` that no mask is empty, and `NumasFound` that a NUMA id has one node, both
under `Fits`: what a CPU beyond the mask leaves behind must not be excused before the CPU itself is
in the tree, so `Fits` counts the CPU under way (`FitsBefore`). A NUMA node found again by its mask
has the CPU in it, hence its id (`OldNodeInv`); a new one has an id that none had (`NewNodeInv`).

`Placed` is the invariant of what hangs where, as long as nothing is plugged: each node was made by a
CPU (`MadeBy`) that has its mask and its parent's, the masks of a level are distinct, and each CPU taken
has a node at each level. So a mask stands for a class of CPUs (`MaskClass`), and the node above a
node is the one of its maker's class (`Ancestors`). The numbering is regular when each
class lies within one of the level above (`RegularIs`): then whoever made a node, its
CPUs are those of its mask (`RegularTree`), and if one class does not, the node that two CPUs of it share
hangs under one of their nodes and is missing below the other (`TreeRegular`).

*Detection.* `SavedInv` relates the groups bound, the saved number and the saved threads at each step of a
pass, `Pending` counts the pids under way. For `GroupsExact`, `Tree` states that the array is a forest:
there are a function `r` to roots and a function `h` of heights that falls along each link, so that
`FindRoot` answers `r` (`RootFound`), and a union joins two trees and leaves the others (`UnionJoins`).
After each pair the roots are equal exactly for what the pairs so far connect
(`StepGood`, `RowGood`, `AllGood`); `Reach` is the least closed set around a thread, and an
equivalence (`GroupsAreReach`). `MapInv` says that the map which is grouped holds the trace, or, if a
goroutine replaced it meanwhile, no more than the trace.

*Partition.* `DealInv`: the threads of the kind are in hand or with one group that was served, and the last
group takes all that are left (`LastTakesAll`). `KindInv`: on whose CPUs the threads of each
kind are between the steps of a pass, where net access overrules I/O. `PartInv`: for each
CPU of the groups left there are no fewer threads left than there were of all threads for each of all
CPUs (`PartTaken`, `PartLeft`), by which no group is short. `EvenInv`: among groups of one size the quotients
are `q`, up to where the rest is a multiple of the groups left, and `q + 1` after it.

*Tracing.* `Released` depends on what every step before it left: `Good(t)` says, for each place of a
tracer, what its thread may be like. `Quiet`: a thread that is not attached, or gone, shows no trace of
tracing; `Outside`: a tracer that has not seized or is done has no thread; `Waits`: the stop that a
blocking wait waits for has come or is on its way; `Phase`: while no signal has come, `isEntry`
tells on which side of a call the thread is. A tracer and its thread change nothing of another
(`OthersUntouched`, `UntouchedGood`), so that each action is proved for one thread; `ThreadStep` does
the types of the two records the same way. `MainInv` adds that nothing is traced before the
threads are listed and that `WaitAll` has seen every tracer done.

*ScanControl.* `LoopsBounded` alone is not inductive: a handler that passed the check will add a loop
whatever happens to the switch. `LoopInv` therefore counts `Loops`, the loops and those handlers
together, and says what a check relies on: with the switch off and no other start under way, one
fewer than the bound. Only `Check` adds to `Loops` (`CheckLoopInv`); `SwitchOn` and `SetScan` change
the switch (`SwitchLoopInv`); every other step `Shrinks`. `HandlerOps` and `Unanswered` tell what a
handler was asked and that it has not answered yet.

*NetProbe.* `Inv` is the program counters' type and `ProbesExclude`. `StepShape` shows that a step
either keeps the program counters and the directory, resets all callers, or moves one: inside, in
over a missing directory, or out. `PathInv` follows the path of a probe. `MountsInv`: what is mounted at each point of it, at most
once; `SmoothInv`: without a mishap nothing has failed, so that the directory exists only while
somebody is inside; `Threading`: the thread, namespace and process of each caller. `NoStrayThread` is
inductive with them. `LocalTypes` and `OwnThread` (no two probes on one thread) complete the types.
`OnPath` says what a probe has found: in which namespace `/sys` and `/proc/net` are read at each point,
and that the devices found, with those that the links still to follow lead to, are all
of the process's (`Progress`), which each step of the search keeps (`ProgressStep`).

Inductions over numbers and finite sets are done by a least counterexample (`NatHasMin`, `SmallestSet`),
as the library's induction theorems cannot be instantiated here; for the same reason loops are
recursive functions and folds, whose tables are proved to exist first (`TableExists`, `RowExists`).

### Only model-checked

Liveness (`RefusalSettled`, `ExitedUnbound`, `StopEndsLoops`, `ProbeEnds`, `TaskTraced`, `PidFollows`,
`TracingEnds`): out of the prover's reach, as is ENABLED.

## 5. What is not modelled

- NUMA-fault mode (`SwitchNumaAware` with `bindTasksDelay` and `getTasksNumaAuto`): the daemon never
  switches it on.
- Passes of two goroutines at once: `TaskBinding` runs one after another. Racing accesses to Go maps
  abort the process or do not, and no property of the tables holds across them; `ScanControl`
  shows which passes may overlap (`LoopsBounded`; `userbind` beside `trace`).
- The registers that `ptrace` reads and what the handlers count of them: `Tracing` has only whether a
  record is made at an entry. The bit operations of `cpumask` and the parsing of `/proc` are
  abstracted to the sets they stand for. Groups, network answers and measurements are inputs of
  `TaskBinding`; Detection and NetProbe model where the first two come from.
- The deltas of `sysload` (a counter now less the counter before): the measurements are inputs.
- The client, generated code, utilities and test stubs: no state.
- `src/crates` holds third-party Rust libraries (an argument parser and its dependencies) that
  nothing in the daemon calls, and the Rust front ends are stubs. The program is written in Go.
- Calls that nothing makes: `RemountSysfs`, `GetInode`, `GetOldTidSlice`.

## 6. Plan

Models, the most important first:

1. `SysLoad`: the deltas of the counters that the measurements come from.
2. `ScanControl` composed with passes, for requests that arrive within one.
3. `CpuMask`: its bit operations against sets of CPUs.

Proofs:

1. Action properties of the components that have invariants only: a retry element is removed once
   (`TaskBinding`), a tracer seizes a thread once (`Tracing`), an answer is given once (`ScanControl`).
2. An abstract specification of tracing (threads are attached and released) that `Tracing` implements.
3. A migration without the hypothesis `MasksCover`: the bound on how far it overshoots.

A new run displaces one whose question a proof has answered for every instance.
