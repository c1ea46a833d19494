----------------------------- MODULE Partition -----------------------------
(***************************************************************************)
(* Thread grouping: the lists of CPUs of a request (ParsePartition), and   *)
(* the passes that trace a process and deal its threads out to the CPU     *)
(* groups of their kind (IONetBindPolicy) in proportion to the groups'     *)
(* sizes.  An item of a list is a range, one CPU, or nothing that parses.  *)
(***************************************************************************)
EXTENDS Sums, Sequences

CONSTANTS
    N,           \* threads of the process are 1..N, in the order of ReadDir
    Items,       \* [kind |-> "range" | "cpu" | "bad", lo |-> , hi |-> ]
    MaxIO, MaxNet, \* bounds on the lengths of the two lists
    MaxRefusals, \* bound on the threads refused in one pass
    MaxCpuNum,   \* maxCPUNum of partition.go
    MaskBits,    \* cpuSetSize of sched.go
    NumaCpus     \* the CPUs of the NUMA nodes, for the default partition

Threads == 1..N
Kinds   == {"io", "net"}

ASSUME PartitionAssumption ==
    /\ {N, MaxRefusals} \subseteq Nat /\ {MaxIO, MaxNet, MaxCpuNum, MaskBits} \subseteq Nat \ {0}
    /\ Items \subseteq [kind : {"range", "cpu", "bad"}, lo : Nat, hi : Nat]
    /\ IsFiniteSet(NumaCpus) /\ NumaCpus \subseteq SUBSET Nat
    /\ \A cpus \in NumaCpus : IsFiniteSet(cpus) /\ cpus # {}

VARIABLES
    step,       \* "none", "waiting", "io", "net", "dealing" or "panic"
    party,      \* the groups: [flag, cpus]
    infos,      \* what the last trace counted of each thread, {} if nothing
    kind,       \* the kind that is dealt
    sets, hand, \* groups, by their places in party, and threads still to be dealt
    share,      \* history: the threads that each group of the kind was dealt
    affinity,   \* the mask of each thread, {} as long as none was set
    refusals    \* history: threads whose last mask was refused

vars == <<step, party, infos, kind, sets, hand, share, affinity, refusals>>

Init ==
    /\ step = "none" /\ party = <<>> /\ infos = [t \in Threads |-> {}]
    /\ kind = "io" /\ sets = {} /\ hand = {} /\ share = <<>>
    /\ affinity = [t \in Threads |-> {}] /\ refusals = {}

-----------------------------------------------------------------------------
(* The request *)

\* stringToInts: only a range is checked against maxCPUNum
Valid(item) ==
    \/ item.kind = "cpu"
    \/ item.kind = "range" /\ item.lo <= item.hi /\ item.hi <= MaxCpuNum
\* mutant: a range begins one too low
CPUsFromBelow(item) == IF item.kind = "cpu" THEN {item.lo} ELSE (item.lo - 1)..item.hi
CPUs(item) == IF item.kind = "cpu" THEN {item.lo} ELSE item.lo..item.hi

AllValid(list) == \A i \in DOMAIN list : Valid(list[i])
Lists(max) == UNION {[1..n -> Items] : n \in 1..max}

GroupsOf(list, flag) == [i \in DOMAIN list |-> [flag |-> flag, cpus |-> CPUs(list[i])]]

\* ParsePartition; invalid lists leave no loop behind
UserLists(io, net) ==
    /\ step = "none" /\ AllValid(io) /\ AllValid(net)
    /\ party' = GroupsOf(io, "io") \o GroupsOf(net, "net")
    /\ step' = "waiting"
    /\ UNCHANGED <<infos, kind, sets, hand, share, affinity, refusals>>

\* GenerateDefaultPartitions: all NUMA nodes are for net access, in the order
\* of a Go map
DefaultLists ==
    /\ step = "none"
    /\ \E order \in [1..Cardinality(NumaCpus) -> NumaCpus] :
         /\ \A i, j \in DOMAIN order : order[i] = order[j] => i = j
         /\ party' = [i \in DOMAIN order |-> [flag |-> "net", cpus |-> order[i]]]
    /\ step' = "waiting"
    /\ UNCHANGED <<infos, kind, sets, hand, share, affinity, refusals>>

-----------------------------------------------------------------------------
(* A pass *)

\* DoCollect: threads may have come, gone, or changed what they do
Collect(counts) ==
    /\ step = "waiting" /\ infos' = counts /\ step' = "io" /\ refusals' = {}
    /\ UNCHANGED <<party, kind, sets, hand, share, affinity>>

\* mutant: threads of both kinds are left out
OfOneKind(k) == {t \in Threads : infos[t] = {k}}
OfKind(k) == {t \in Threads : k \in infos[t]}
SetsOf(k) == {i \in DOMAIN party : party[i].flag = k}

Size == [i \in DOMAIN party |-> Cardinality(party[i].cpus)]
Base(groups) == SumOf(Size, groups)

After(k) == IF k = "io" THEN "net" ELSE "waiting"

\* bindThreadsToGroups, once for each kind: nothing to do without threads or CPUs
Deal(k) ==
    /\ step = k
    /\ kind' = k /\ sets' = SetsOf(k) /\ hand' = OfKind(k)
    /\ share' = [i \in SetsOf(k) |-> {}]
    /\ step' = IF OfKind(k) = {} \/ Base(SetsOf(k)) = 0 THEN After(k) ELSE "dealing"
    /\ UNCHANGED <<party, infos, affinity, refusals>>

\* mutant: base is not reduced by the groups that were served
RoundOfAll(cpus, groups, threads) == (threads * cpus + cpus) \div Base(SetsOf(kind))

\* mutant: the quotient is rounded up
RoundUp(cpus, groups, threads) == (threads * cpus + Base(groups)) \div Base(groups)

\* The number of threads for a group of this size, the first of the groups left
Round(cpus, groups, threads) == (threads * cpus + cpus) \div Base(groups)

\* The slice threads[0:n]: all of them, when there are no more than n
FirstOf(n, threads) == {t \in threads : Cardinality({u \in threads : u < t}) < n}

\* sched.setAffinity indexes an array of MaskBits bits
InMask(cpus) == \A cpu \in cpus : cpu < MaskBits

\* The first group left, and what it takes
First == CHOOSE i \in sets : \A j \in sets : i <= j
Taken == FirstOf(Round(Size[First], sets, Cardinality(hand)), hand)

\* bindThreadsToGroup: a refused thread is logged and skipped.  The loop returns once
\* a group takes all that are left
BindGroup(gone) ==
    /\ step = "dealing" /\ sets # {}
    /\ gone \subseteq Taken
    /\ Taken # {} => InMask(party[First].cpus)
    /\ affinity' = [t \in Threads |->
                      IF t \in Taken \ gone THEN party[First].cpus ELSE affinity[t]]
    /\ refusals' = (refusals \ Taken) \cup gone
    /\ share' = [share EXCEPT ![First] = Taken]
    /\ hand' = hand \ Taken
    /\ sets' = IF Taken = hand THEN {} ELSE sets \ {First}
    /\ UNCHANGED <<step, party, infos, kind>>

\* A CPU number above the mask ends the daemon
MaskPanic ==
    /\ step = "dealing" /\ sets # {}
    /\ Taken # {} /\ ~InMask(party[First].cpus)
    /\ step' = "panic"
    /\ UNCHANGED <<party, infos, kind, sets, hand, share, affinity, refusals>>

Dealt ==
    /\ step = "dealing" /\ sets = {} /\ step' = After(kind)
    /\ UNCHANGED <<party, infos, kind, sets, hand, share, affinity, refusals>>

Next ==
    \/ \E io \in Lists(MaxIO), net \in Lists(MaxNet) : UserLists(io, net)
    \/ DefaultLists
    \/ \E counts \in [Threads -> SUBSET Kinds] : Collect(counts)
    \/ \E k \in Kinds : Deal(k)
    \/ \E gone \in SUBSET Threads : Cardinality(refusals \cup gone) <= MaxRefusals /\ BindGroup(gone)
    \/ MaskPanic \/ Dealt

Spec == Init /\ [][Next]_vars

-----------------------------------------------------------------------------
(* Properties *)

TypeOK ==
    /\ step \in {"none", "waiting", "io", "net", "dealing", "panic"} /\ kind \in Kinds
    /\ party \in Seq([flag : Kinds, cpus : SUBSET Nat])
    /\ infos \in [Threads -> SUBSET Kinds]
    /\ sets \subseteq DOMAIN party /\ hand \subseteq Threads
    /\ affinity \in [Threads -> SUBSET Nat]
    /\ refusals \subseteq Threads

\* Every thread is dealt: the quotients never leave one over, and none is
\* dealt twice
AllDealt ==
    step = "dealing" /\ sets = {} =>
        /\ DOMAIN share = SetsOf(kind) /\ hand = {}
        /\ UNION {share[i] : i \in SetsOf(kind)} = OfKind(kind)
        /\ \A i, j \in SetsOf(kind) : i # j => share[i] \cap share[j] = {}

\* No group is short of its part of the CPUs by a whole thread, and groups of
\* one size get equally many threads, or one more: what the quotients cut off
\* goes to the groups that follow, where it may add up
Proportional ==
    step = "dealing" /\ sets = {} =>
        LET groups == SetsOf(kind)
            got(i) == Cardinality(share[i])
        IN /\ \A i \in groups :
                (got(i) + 1) * Base(groups) > Size[i] * Cardinality(OfKind(kind))
           /\ (\A i, j \in groups : Size[i] = Size[j]) =>
                \A i, j \in groups : got(i) <= got(j) + 1

\* After a pass each thread that was counted is on a group of its kind; net
\* access, which is dealt last, decides for a thread that does both
OnOwnKind ==
    step = "waiting" => \A t \in Threads \ refusals :
        LET k == IF "net" \in infos[t] THEN "net" ELSE "io"
        IN k \in infos[t] /\ SetsOf(k) # {} =>
             \E i \in SetsOf(k) : party[i].cpus = affinity[t]

=============================================================================
