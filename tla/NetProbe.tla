----------------------------- MODULE NetProbe -----------------------------
(***************************************************************************)
(* The probe of a process's network devices, common/netaffinity.  A        *)
(* goroutine makes and mounts /wisysfs, moves its OS thread into the       *)
(* network namespace of the process, mounts sysfs anew to see that         *)
(* namespace, lists the devices that the sockets of the process use, moves *)
(* back, mounts once more and follows links and bonds to real devices.     *)
(* The directory and the mounts belong to the machine, the namespace to    *)
(* the OS thread, and Go may run a goroutine on another thread at any      *)
(* time unless it is locked to one.  A step makes one access to the kernel.*)
(***************************************************************************)
EXTENDS Integers, FiniteSets, Sequences

CONSTANTS
    Callers,     \* goroutines that probe: scan loops and request handlers
    Pinned,      \* those that LockOSThread has bound to their thread
    Threads,     \* OS threads of the daemon
    Leader,      \* its first thread: /proc/net shows this one's namespace
    Procs,       \* processes that may be probed
    Namespaces, RootNs,
    Home,        \* Home[p]: the namespace of process p
    Local,       \* Local[p]: the devices that its sockets use there
    Devs,        \* all devices, with NoName
    NoName,      \* what getDevByIndex finds for an index without device
    Link,        \* Link[d]: the host device iflink names, d itself if none
    Slaves,      \* Slaves[d]: the devices of a bond, {} for others
    Place,       \* Place[d]: the namespace device d is seen in
    IrqNodes,    \* NUMA nodes of the CPUs that serve its interrupts
    PciNode,     \* NUMA node of its PCI slot, -1 if unknown
    MaxProbes,   \* bound on the number of probes
    MaxMoves,    \* bound on moves of goroutines to other threads
    MaxMishaps   \* bound on refused calls, exits and kills together

ASSUME ProbeAssumption ==
    /\ Pinned \subseteq Callers /\ Leader \in Threads
    /\ RootNs \in Namespaces /\ NoName \in Devs /\ Procs # {}
    /\ Home \in [Procs -> Namespaces] /\ Local \in [Procs -> SUBSET Devs]
    /\ Link \in [Devs -> Devs] /\ Slaves \in [Devs -> SUBSET Devs]
    /\ Place \in [Devs -> Namespaces]
    /\ IrqNodes \in [Devs -> SUBSET Nat] /\ PciNode \in [Devs -> Nat \cup {-1}]
    /\ {MaxProbes, MaxMoves, MaxMishaps} \subseteq Nat

VARIABLES
    pc, target,   \* the step each caller is at, the process it probes
    on,           \* the thread it runs on
    seen,         \* the namespace whose addresses it has read
    used,         \* the devices it found in the namespace
    todo,         \* host devices still to be followed
    found,        \* real devices
    unread,       \* the interrupts of one of them could not be read
    answer,       \* what its last probe returned
    nsOf,         \* the namespace of each thread
    dir, mounts,  \* /wisysfs, and the namespaces of the sysfs mounted on it
    gone,         \* processes that have exited
    probes, moves, mishaps,
    strays        \* moves and refusals that left a thread in the wrong namespace

work == <<seen, used, todo, found, unread>>
fs   == <<dir, mounts>>
vars == <<pc, target, on, work, answer, nsOf, fs, gone, probes, moves, mishaps, strays>>

Steps == {"idle", "mkdir", "mount", "enter", "remount", "cache", "related",
          "links", "back", "backErr", "again", "resolve", "umount", "rmdir", "numa"}
NoAnswer == -3
Err      == -2
Unknown  == -1

Busy(c)   == pc[c] # "idle"
Inside    == {c \in Callers : pc[c] \notin {"idle", "mkdir", "numa"}}
Entered   == {c \in Callers : pc[c] \in {"remount", "cache", "related", "links", "back", "backErr"}}
Free      == Threads \ {on[c] : c \in {d \in Callers : d \in Pinned \/ Busy(d)}}

Smooth == UNCHANGED mishaps
Mishap == mishaps < MaxMishaps /\ mishaps' = mishaps + 1

Init ==
    /\ pc = [c \in Callers |-> "idle"]
    /\ target = [c \in Callers |-> CHOOSE p \in Procs : TRUE]
    /\ on \in [Callers -> Threads]
    /\ \A c, d \in Pinned : on[c] = on[d] => c = d
    /\ \A c \in Callers \ Pinned : on[c] = Leader
    /\ seen = [c \in Callers |-> RootNs]
    /\ used = [c \in Callers |-> {}] /\ todo = used /\ found = used
    /\ unread = [c \in Callers |-> FALSE]
    /\ answer = [c \in Callers |-> NoAnswer]
    /\ nsOf = [t \in Threads |-> RootNs]
    /\ dir = FALSE /\ mounts = <<>> /\ gone = {}
    /\ probes = 0 /\ moves = 0 /\ mishaps = 0 /\ strays = 0

-----------------------------------------------------------------------------
(* Moving between steps *)

Goto(c, step) == pc' = [pc EXCEPT ![c] = step]

\* The probe returns; its local variables are dropped
Return(c, value) ==
    /\ Goto(c, "idle")
    /\ answer' = [answer EXCEPT ![c] = value]
    /\ used' = [used EXCEPT ![c] = {}]
    /\ todo' = [todo EXCEPT ![c] = {}]
    /\ found' = [found EXCEPT ![c] = {}]
    /\ unread' = [unread EXCEPT ![c] = FALSE]
    /\ seen' = [seen EXCEPT ![c] = RootNs]

SetNs(c, ns) == nsOf' = [nsOf EXCEPT ![on[c]] = ns]

\* BindGroupAuto asks for the devices of a process
Begin(c, p) ==
    /\ pc[c] = "idle" /\ probes < MaxProbes
    /\ probes' = probes + 1
    /\ target' = [target EXCEPT ![c] = p]
    /\ IF c \in Pinned THEN UNCHANGED on
                       ELSE \E t \in Free : on' = [on EXCEPT ![c] = t]
    /\ Goto(c, "mkdir")
    /\ UNCHANGED <<work, answer, nsOf, fs, gone, moves, mishaps, strays>>

-----------------------------------------------------------------------------
(* preDetect *)

\* mutant: MkdirAll, which is content with a directory that exists
MkdirAllowsExisting(c) ==
    /\ pc[c] = "mkdir" /\ dir' = TRUE /\ Goto(c, "mount")
    /\ UNCHANGED <<answer, work, target, on, nsOf, mounts, gone, probes, moves, mishaps, strays>>

\* Mkdir fails when /wisysfs exists, whoever made it
Mkdir(c) ==
    /\ pc[c] = "mkdir"
    /\ IF dir THEN Return(c, Err) /\ UNCHANGED dir
              ELSE dir' = TRUE /\ Goto(c, "mount") /\ UNCHANGED <<answer, work>>
    /\ UNCHANGED <<target, on, nsOf, mounts, gone, probes, moves, mishaps, strays>>

\* sysfs shows the network devices of the namespace it is mounted from
Mount(c) ==
    /\ pc[c] = "mount"
    /\ \/ /\ Smooth
          /\ mounts' = <<nsOf[on[c]]>> \o mounts
          /\ Goto(c, "enter") /\ UNCHANGED <<answer, work>>
       \/ Mishap /\ Return(c, Err) /\ UNCHANGED mounts
    /\ UNCHANGED <<target, on, nsOf, dir, gone, probes, moves, strays>>

-----------------------------------------------------------------------------
(* GetRealDevRelated *)

\* NSEnter, whose error is ignored: a process that is gone is not entered
NSEnter(c) ==
    /\ pc[c] = "enter" /\ Goto(c, "remount")
    /\ \/ target[c] \notin gone /\ SetNs(c, Home[target[c]]) /\ Smooth
       \/ target[c] \in gone /\ UNCHANGED nsOf /\ Smooth
       \/ target[c] \notin gone /\ UNCHANGED nsOf /\ Mishap
    /\ UNCHANGED <<target, on, work, answer, fs, gone, probes, moves, strays>>

\* mutant: the new mount is stacked on the old one
RemountedOver(c) == Smooth /\ mounts' = <<nsOf[on[c]]>> \o mounts

\* RemountNewSysfs: unmount, then mount; either may be refused
Remounted(c) == Smooth /\ mounts' = <<nsOf[on[c]]>> \o Tail(mounts)
RemountFails ==
    /\ Mishap
    /\ mounts' \in {mounts, Tail(mounts)}

RemountNs(c) ==
    /\ pc[c] = "remount"
    /\ \/ Remounted(c) /\ Goto(c, "cache")
       \/ RemountFails /\ Goto(c, "backErr")
    /\ UNCHANGED <<target, on, work, answer, nsOf, dir, gone, probes, moves, strays>>

\* The addresses of the interfaces, as the caller's thread sees them
GetDevCache(c) ==
    /\ pc[c] = "cache"
    /\ \/ /\ target[c] \notin gone
          /\ seen' = [seen EXCEPT ![c] = nsOf[on[c]]]
          /\ Goto(c, "related")
       \/ target[c] \in gone /\ Goto(c, "backErr") /\ UNCHANGED seen
    /\ UNCHANGED <<target, on, used, todo, found, unread, answer, nsOf, fs, gone, probes, moves, mishaps, strays>>

\* The sockets of the process, looked up in /proc/net, and their addresses
\* in the cache: both must be of the namespace of the process
GetDevRelated(c) ==
    /\ pc[c] = "related"
    /\ \/ /\ target[c] \notin gone
          /\ LET home == Home[target[c]] IN
               used' = [used EXCEPT ![c] = IF seen[c] = home /\ nsOf[Leader] = home
                                             THEN Local[target[c]] ELSE {}]
          /\ Goto(c, "links")
       \/ target[c] \in gone /\ Goto(c, "backErr") /\ UNCHANGED used
    /\ UNCHANGED <<target, on, seen, todo, found, unread, answer, nsOf, fs, gone, probes, moves, mishaps, strays>>

\* getIflink reads /wisysfs: a device that is not seen there has no link
HasLink(d) == Link[d] # d /\ mounts # <<>> /\ Place[d] = Head(mounts)

\* getNetifInfo of a device; the directory of its interrupts may be unreadable
Take(c, ds) ==
    /\ found' = [found EXCEPT ![c] = @ \cup ds]
    /\ \/ Smooth /\ UNCHANGED unread
       \/ ds # {} /\ Mishap /\ unread' = [unread EXCEPT ![c] = TRUE]

\* Devices with a link are followed on the host, the others are real
SplitLinks(c) ==
    /\ pc[c] = "links" /\ Goto(c, "back")
    /\ todo' = [todo EXCEPT ![c] = {Link[d] : d \in {e \in used[c] : HasLink(e)}} \ {NoName}]
    /\ Take(c, {d \in used[c] : ~HasLink(d)})
    /\ UNCHANGED <<target, on, seen, used, answer, nsOf, fs, gone, probes, moves, strays>>

\* SetRootNs moves the thread that the caller runs on now; its error is ignored
SetRootNs(c) ==
    \/ Smooth /\ SetNs(c, RootNs) /\ UNCHANGED strays
    \/ Mishap /\ UNCHANGED nsOf /\ strays' = strays + 1

Leave(c) ==
    /\ pc[c] = "back" /\ Goto(c, "again") /\ SetRootNs(c)
    /\ UNCHANGED <<target, on, work, answer, fs, gone, probes, moves>>

\* mutant: an error return forgets SetRootNs
LeaveErrStays(c) ==
    /\ pc[c] = "backErr" /\ Return(c, Err) /\ Smooth
    /\ UNCHANGED <<target, on, nsOf, fs, gone, probes, moves, strays>>

\* detectDevRelated returns the error without postDetect
LeaveErr(c) ==
    /\ pc[c] = "backErr" /\ Return(c, Err) /\ SetRootNs(c)
    /\ UNCHANGED <<target, on, fs, gone, probes, moves>>

RemountRoot(c) ==
    /\ pc[c] = "again"
    /\ \/ Remounted(c) /\ Goto(c, "resolve") /\ UNCHANGED <<answer, work>>
       \/ RemountFails /\ Return(c, Err)
    /\ UNCHANGED <<target, on, nsOf, dir, gone, probes, moves, strays>>

\* mutant: what a link names is taken for a real device
FollowOnce(c, d) ==
    /\ pc[c] = "resolve" /\ d \in todo[c]
    /\ todo' = [todo EXCEPT ![c] = (@ \ {d}) \cup Slaves[d]]
    /\ Take(c, IF Slaves[d] = {} THEN {d} ELSE {})
    /\ UNCHANGED <<pc, target, on, seen, used, answer, nsOf, fs, gone, probes, moves, strays>>

\* mutant: the front of the queue is read and not removed
FollowKeeps(c, d) ==
    /\ pc[c] = "resolve" /\ d \in todo[c]
    /\ LET next == IF HasLink(d) THEN {Link[d]} ELSE Slaves[d]
       IN /\ todo' = [todo EXCEPT ![c] = @ \cup next]
          /\ Take(c, IF next = {} THEN {d} ELSE {})
    /\ UNCHANGED <<pc, target, on, seen, used, answer, nsOf, fs, gone, probes, moves, strays>>

\* The loop over hostDevs.  A set: the order decides nothing
Follow(c, d) ==
    /\ pc[c] = "resolve" /\ d \in todo[c]
    /\ LET next == IF HasLink(d) THEN {Link[d]} ELSE Slaves[d]
       IN /\ todo' = [todo EXCEPT ![c] = (@ \ {d}) \cup next]
          /\ Take(c, IF next = {} THEN {d} ELSE {})
    /\ UNCHANGED <<pc, target, on, seen, used, answer, nsOf, fs, gone, probes, moves, strays>>

\* mutant: a process without devices returns before postDetect
ResolvedEarly(c) ==
    /\ pc[c] = "resolve" /\ todo[c] = {}
    /\ IF found[c] = {} THEN Return(c, Unknown) ELSE Goto(c, "umount") /\ UNCHANGED <<answer, work>>
    /\ UNCHANGED <<target, on, nsOf, fs, gone, probes, moves, mishaps, strays>>

Resolved(c) ==
    /\ pc[c] = "resolve" /\ todo[c] = {} /\ Goto(c, "umount")
    /\ UNCHANGED <<target, on, work, answer, nsOf, fs, gone, probes, moves, mishaps, strays>>

-----------------------------------------------------------------------------
(* postDetect and GetProcessNetNuma *)

Umount(c) ==
    /\ pc[c] = "umount"
    /\ \/ Smooth /\ mounts' = Tail(mounts) /\ Goto(c, "rmdir") /\ UNCHANGED <<answer, work>>
       \/ Mishap /\ Return(c, Err) /\ UNCHANGED mounts
    /\ UNCHANGED <<target, on, nsOf, dir, gone, probes, moves, strays>>

\* RemoveAll fails on a directory that something is still mounted on
Rmdir(c) ==
    /\ pc[c] = "rmdir"
    /\ IF mounts = <<>> THEN dir' = FALSE /\ Goto(c, "numa") /\ UNCHANGED <<answer, work>>
                        ELSE Return(c, Err) /\ UNCHANGED dir
    /\ UNCHANGED <<target, on, nsOf, mounts, gone, probes, moves, mishaps, strays>>

\* One NUMA node for all interrupts, or else one above 0 for all PCI slots
Preferred(devs) ==
    LET irqs == UNION {IrqNodes[d] : d \in devs}
        slots == {PciNode[d] : d \in devs} \ {0, -1}
    IN IF Cardinality(irqs) = 1 THEN CHOOSE n \in irqs : TRUE
       ELSE IF Cardinality(slots) = 1 THEN CHOOSE n \in slots : TRUE
       ELSE Unknown

GetProcessNetNuma(c) ==
    /\ pc[c] = "numa" /\ ~unread[c]
    /\ Return(c, Preferred(found[c]))
    /\ UNCHANGED <<target, on, nsOf, fs, gone, probes, moves, mishaps, strays>>

-----------------------------------------------------------------------------
(* The daemon's process ends and is started again: the directory and its   *)
(* mounts survive it                                                       *)

Restart ==
    /\ pc' = [c \in Callers |-> "idle"]
    /\ answer' = [c \in Callers |-> NoAnswer]
    /\ used' = [c \in Callers |-> {}] /\ todo' = used' /\ found' = used'
    /\ unread' = [c \in Callers |-> FALSE]
    /\ seen' = [c \in Callers |-> RootNs]
    /\ nsOf' = [t \in Threads |-> RootNs]
    /\ strays' = 0
    /\ UNCHANGED <<target, on, fs, gone, probes, moves>>

\* dev.IrqNode is nil when the interrupts could not be read
NilIrqPanic(c) == pc[c] = "numa" /\ unread[c] /\ Restart /\ Smooth

Kill == Inside # {} /\ Mishap /\ Restart

-----------------------------------------------------------------------------
(* The Go scheduler and the processes *)

\* A goroutine goes on on another thread; the namespace stays with the old one
Migrate(c) ==
    /\ c \notin Pinned /\ Busy(c)
    /\ moves < MaxMoves /\ moves' = moves + 1
    /\ \E t \in Free : on' = [on EXCEPT ![c] = t]
    /\ strays' = IF c \in Entered THEN strays + 1 ELSE strays
    /\ UNCHANGED <<pc, target, work, answer, nsOf, fs, gone, probes, mishaps>>

ProcExit(p) ==
    /\ p \notin gone /\ Mishap /\ gone' = gone \cup {p}
    /\ UNCHANGED <<pc, target, on, work, answer, nsOf, fs, probes, moves, strays>>

Probe(c) ==
    \/ Mkdir(c) \/ Mount(c)
    \/ NSEnter(c) \/ RemountNs(c) \/ GetDevCache(c) \/ GetDevRelated(c) \/ SplitLinks(c)
    \/ Leave(c) \/ LeaveErr(c) \/ RemountRoot(c)
    \/ (\E d \in Devs : Follow(c, d)) \/ Resolved(c)
    \/ Umount(c) \/ Rmdir(c) \/ GetProcessNetNuma(c) \/ NilIrqPanic(c)

Next ==
    \/ \E c \in Callers : Probe(c) \/ Migrate(c) \/ \E p \in Procs : Begin(c, p)
    \/ \E p \in Procs : ProcExit(p)
    \/ Kill

Spec == Init /\ [][Next]_vars

\* The Go scheduler runs every goroutine that can go on
FairSpec == Spec /\ \A c \in Callers : WF_vars(Probe(c))

-----------------------------------------------------------------------------
(* Properties *)

TypeOK ==
    /\ pc \in [Callers -> Steps] /\ target \in [Callers -> Procs]
    /\ on \in [Callers -> Threads] /\ nsOf \in [Threads -> Namespaces]
    /\ \A c, d \in Callers : Busy(c) /\ Busy(d) /\ on[c] = on[d] => c = d
    /\ seen \in [Callers -> Namespaces]
    /\ {used, todo, found} \subseteq [Callers -> SUBSET Devs]
    /\ unread \in [Callers -> BOOLEAN] /\ answer \in [Callers -> Int]
    /\ dir \in BOOLEAN /\ mounts \in Seq(Namespaces) /\ Len(mounts) <= 1
    /\ gone \subseteq Procs
    /\ {probes, moves, mishaps, strays} \subseteq Nat

\* The directory keeps two probes from using it at once, whatever fails
ProbesExclude == \A c, d \in Inside : c = d /\ dir

\* Only a refused call, an exit of the process or a kill of the daemon
\* leaves /wisysfs behind: concurrency alone does not
LeakNeedsMishap == dir /\ Inside = {} => mishaps > 0

\* A thread is in a container's namespace only while a probe of that
\* container runs on it, unless a goroutine was moved in between
NoStrayThread ==
    \A t \in Threads : strays = 0 /\ nsOf[t] # RootNs =>
        \E c \in Entered : on[c] = t /\ nsOf[t] = Home[target[c]]

\* What a device leads to on the host, and all that a set leads to: the
\* smallest set that is closed under it
Succ(d) == IF Link[d] # d THEN {Link[d]} ELSE Slaves[d]
Reach(ds) ==
    CHOOSE S \in SUBSET Devs :
        /\ ds \subseteq S /\ \A d \in S : Succ(d) \subseteq S
        /\ \A T \in SUBSET S : ds \subseteq T /\ (\A d \in T : Succ(d) \subseteq T) => T = S

Links(p)  == {Link[d] : d \in {e \in Local[p] : Link[e] # e}} \ {NoName}
Direct(p) == {d \in Local[p] : Link[d] = d}
RealDevs == [p \in Procs |-> Direct(p) \cup {d \in Reach(Links(p)) : Succ(d) = {}}]

\* The devices of a process are seen in its namespace, and what they lead to on the host
DevicesSeen ==
    \A p \in Procs :
        /\ \A d \in Local[p] : Place[d] = Home[p]
        /\ \A d \in Reach(Links(p)) : Link[d] # d => Place[d] = RootNs

\* A probe that no move disturbed finds the real devices, all and only
\* them; of a process in a container it may find none, when /proc/net shows
\* another namespace
FoundExact ==
    \A c \in Callers : pc[c] \in {"umount", "rmdir", "numa"} /\ strays = 0 =>
        \/ found[c] = RealDevs[target[c]]
        \/ found[c] = {} /\ Home[target[c]] # RootNs

\* A probe ends unless the links of the devices run in a circle
Circular == {p \in Procs :
    \E S \in (SUBSET Reach(Links(p))) \ {{}} : \A d \in S : Succ(d) \cap S # {}}
ProbeEnds ==
    \A c \in Callers : Busy(c) /\ target[c] \notin Circular ~> ~Busy(c)

=============================================================================
