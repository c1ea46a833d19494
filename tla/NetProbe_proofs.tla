-------------------------- MODULE NetProbe_proofs --------------------------
(***************************************************************************)
(* /wisysfs excludes concurrent probes, and a probe finds the devices of   *)
(* its process, for any callers, threads and devices and any number of     *)
(* moves, refusals, exits and kills.                                       *)
(***************************************************************************)
EXTENDS NetProbe, SequenceTheorems, FiniteSetTheorems, TLAPS

\* The steps of callers, and that nobody shares the directory
Inv == pc \in [Callers -> Steps] /\ ProbesExclude

\* How the program counters and the directory may change: one caller moves on
\* inside, one enters over a missing directory, one leaves, or all are idle
Advance(c) == pc' \in {[pc EXCEPT ![c] = s] : s \in Steps} /\ dir' = dir /\ c \in Inside
Enter(c) == pc' = [pc EXCEPT ![c] = "mount"] /\ ~dir /\ dir' = TRUE
Outside(c) ==
    pc' \in {[pc EXCEPT ![c] = s] : s \in {"idle", "mkdir", "numa"}} /\ (dir' = dir \/ c \in Inside)
Ended == pc' = [c \in Callers |-> "idle"]
Kept  == UNCHANGED <<pc, dir>>

\* Every action is one of these
LEMMA StepShape ==
    ASSUME Inv, [Next]_vars
    PROVE  Kept \/ Ended \/ \E c \in Callers : Advance(c) \/ Enter(c) \/ Outside(c)
<1> USE DEF Inv, Kept, Ended, Advance, Enter, Outside, Inside, Steps, Goto, Return
<1>1. ASSUME NEW c \in Callers, NEW p \in Procs, Begin(c, p)
      PROVE  Outside(c)
  BY <1>1 DEF Begin, fs
<1>2. ASSUME NEW c \in Callers, Mkdir(c)
      PROVE  Enter(c) \/ Outside(c)
  BY <1>2 DEF Mkdir
<1>3. ASSUME NEW c \in Callers,
             Mount(c) \/ RemountRoot(c) \/ Umount(c) \/ LeaveErr(c)
      PROVE  Advance(c)
  BY <1>3 DEF Mount, RemountRoot, Umount, LeaveErr, fs
<1>4. ASSUME NEW c \in Callers,
             \/ NSEnter(c) \/ RemountNs(c) \/ GetDevCache(c) \/ GetDevRelated(c)
             \/ SplitLinks(c) \/ Leave(c) \/ Resolved(c)
      PROVE  Advance(c)
  BY <1>4 DEF NSEnter, RemountNs, GetDevCache, GetDevRelated, SplitLinks, Leave, Resolved, fs
<1>5. ASSUME NEW c \in Callers, Rmdir(c)
      PROVE  Outside(c)
  BY <1>5 DEF Rmdir
<1>6. ASSUME NEW c \in Callers, GetProcessNetNuma(c)
      PROVE  Outside(c)
  BY <1>6 DEF GetProcessNetNuma, fs
<1>7. ASSUME NEW c \in Callers, NEW d \in Devs, Follow(c, d)
      PROVE  Kept
  BY <1>7 DEF Follow, fs
<1>8. CASE UNCHANGED vars
  BY <1>8 DEF vars, fs
<1>9. CASE Kill
  BY <1>9 DEF Kill, Restart
<1>10. ASSUME NEW p \in Procs, ProcExit(p)
       PROVE  Kept
  BY <1>10 DEF ProcExit, fs
<1>11. ASSUME NEW c \in Callers, Migrate(c)
       PROVE  Kept
  BY <1>11 DEF Migrate, fs
<1>12. ASSUME NEW c \in Callers, NilIrqPanic(c)
       PROVE  Ended
  BY <1>12 DEF NilIrqPanic, Restart
<1> QED
  BY <1>1, <1>2, <1>3, <1>4, <1>5, <1>6, <1>7, <1>8, <1>9, <1>10,
     <1>11, <1>12 DEF Next, Probe

\* The invariant holds after each kind of step
LEMMA InvStep == ASSUME Inv, [Next]_vars PROVE Inv'
<1> USE DEF Inv, ProbesExclude, Inside, Steps
<1>1. CASE Kept
  BY <1>1 DEF Kept
<1>2. CASE Ended
  BY <1>2 DEF Ended
<1>3. ASSUME NEW c \in Callers, Advance(c)
      PROVE  Inv'
  BY <1>3 DEF Advance
<1>4. ASSUME NEW c \in Callers, Enter(c)
      PROVE  Inv'
  BY <1>4 DEF Enter
<1>5. ASSUME NEW c \in Callers, Outside(c)
      PROVE  Inv'
  BY <1>5 DEF Outside
<1> QED
  BY <1>1, <1>2, <1>3, <1>4, <1>5, StepShape

\* At most one caller is between preDetect and postDetect, and then /wisysfs
\* exists: a failing Mkdir is all that detectDevRelated needs as a lock.
THEOREM ProbesExcludeHolds == Spec => []ProbesExclude
<1>1. Init => Inv
  BY DEF Init, Inv, ProbesExclude, Inside, Steps
<1>2. Inv /\ [Next]_vars => Inv'
  BY InvStep
<1>3. Inv => ProbesExclude
  BY DEF Inv
<1> QED
  BY <1>1, <1>2, <1>3, PTL DEF Spec


-----------------------------------------------------------------------------
(* What is mounted on the directory, and that only mishaps leave it behind   *)

\* A probe finds the directory bare when it has made it and before it removes
\* it, and with one mount in between
Mounted == {"enter", "remount", "cache", "related", "links", "back", "again", "resolve", "umount"}
MountsInv ==
    /\ dir \in BOOLEAN /\ mounts \in Seq(Namespaces) /\ Len(mounts) <= 1
    /\ ~dir => mounts = <<>>
    /\ \A c \in Callers : /\ pc[c] \in {"mount", "rmdir"} => mounts = <<>>
                          /\ pc[c] \in Mounted => Len(mounts) = 1

\* Without a mishap nothing has failed
SmoothInv ==
    /\ mishaps \in Nat
    /\ mishaps = 0 =>
        /\ dir => Inside # {}
        /\ gone = {}
        /\ \A c \in Callers : pc[c] # "backErr" /\ ~unread[c]

\* Where callers and threads are
Threading ==
    /\ on \in [Callers -> Threads] /\ nsOf \in [Threads -> Namespaces]
    /\ target \in [Callers -> Procs] /\ unread \in [Callers -> BOOLEAN]
    /\ strays \in Nat

PathInv == Inv /\ Threading /\ MountsInv /\ SmoothInv /\ NoStrayThread

LEMMA ThreadingStep == ASSUME Inv, Threading, [Next]_vars PROVE Threading'
<1> USE DEF Threading
<1>0. RootNs \in Namespaces /\ Home \in [Procs -> Namespaces] /\ Free \subseteq Threads
  BY ProbeAssumption DEF Free
<1>1. ASSUME NEW c \in Callers, NEW p \in Procs, Begin(c, p)
      PROVE  Threading'
  BY <1>0, <1>1 DEF Begin, work
<1>2. ASSUME NEW c \in Callers,
             Mkdir(c) \/ Mount(c) \/ RemountRoot(c) \/ Umount(c) \/ Rmdir(c) \/ GetProcessNetNuma(c)
      PROVE  Threading'
  BY <1>2 DEF Mkdir, Mount, RemountRoot, Umount, Rmdir, GetProcessNetNuma, Return, work
<1>3. ASSUME NEW c \in Callers, NSEnter(c) \/ RemountNs(c) \/ GetDevCache(c) \/ GetDevRelated(c)
      PROVE  Threading'
  BY <1>0, <1>3 DEF NSEnter, RemountNs, GetDevCache, GetDevRelated, SetNs, work
<1>4. ASSUME NEW c \in Callers, SplitLinks(c) \/ Resolved(c) \/ \E d \in Devs : Follow(c, d)
      PROVE  Threading'
  BY <1>4 DEF SplitLinks, Follow, Resolved, Take, work
<1>5. ASSUME NEW c \in Callers, Leave(c) \/ LeaveErr(c)
      PROVE  Threading'
  <2>1. nsOf' \in [Threads -> Namespaces] /\ strays' \in Nat
    BY <1>0, <1>5 DEF Leave, LeaveErr, SetRootNs, SetNs
  <2> QED
    BY <1>5, <2>1 DEF Leave, LeaveErr, Return, work
<1>6. ASSUME Kill \/ \E c \in Callers : NilIrqPanic(c)
      PROVE  Threading'
  <2>1. Restart
    BY <1>6 DEF Kill, NilIrqPanic
  <2> QED
    BY <1>0, <2>1 DEF Restart
<1>7. ASSUME NEW c \in Callers, Migrate(c)
      PROVE  Threading'
  BY <1>0, <1>7 DEF Migrate, work
<1>8. ASSUME UNCHANGED vars \/ \E p \in Procs : ProcExit(p)
      PROVE  Threading'
  BY <1>8 DEF vars, ProcExit, work
<1> QED
  BY <1>1, <1>2, <1>3, <1>4, <1>5, <1>6, <1>7, <1>8 DEF Next, Probe

\* What a remount leaves of one mount
LEMMA RemountFacts ==
    ASSUME mounts \in Seq(Namespaces), Len(mounts) = 1, NEW ns \in Namespaces
    PROVE  /\ Tail(mounts) = <<>>
           /\ <<ns>> \o Tail(mounts) \in Seq(Namespaces) /\ Len(<<ns>> \o Tail(mounts)) = 1
<1>1. mounts # <<>>
  <2>1. Len(<<>>) = 0
    BY EmptySeq
  <2> QED
    BY <2>1
<1>2. Tail(mounts) \in Seq(Namespaces) /\ Len(Tail(mounts)) = 0
  BY <1>1, HeadTailProperties
<1>3. Tail(mounts) = <<>>
  BY <1>2, EmptySeq
<1>4. <<ns>> \in Seq(Namespaces) /\ Len(<<ns>>) = 1
  OBVIOUS
<1>5. <<ns>> \o <<>> = <<ns>>
  BY <1>4, ConcatEmptySeq
<1> QED
  BY <1>3, <1>4, <1>5

LEMMA MountsStep == ASSUME Inv, Threading, MountsInv, [Next]_vars PROVE MountsInv'
<1> USE DEF MountsInv, Mounted, Inv, ProbesExclude, Inside, Steps, Goto, Return
<1>0. \A c \in Callers : nsOf[on[c]] \in Namespaces
  BY DEF Threading
<1>1. ASSUME NEW c \in Callers, NEW p \in Procs, Begin(c, p)
      PROVE  MountsInv'
  BY <1>1 DEF Begin, fs
<1>2. ASSUME NEW c \in Callers, Mkdir(c)
      PROVE  MountsInv'
  BY <1>2 DEF Mkdir
<1>3. ASSUME NEW c \in Callers, Mount(c)
      PROVE  MountsInv'
  <2>1. <<nsOf[on[c]]>> \in Seq(Namespaces) /\ Len(<<nsOf[on[c]]>>) = 1
    BY <1>0
  <2>2. <<nsOf[on[c]]>> \o <<>> = <<nsOf[on[c]]>>
    BY <2>1, ConcatEmptySeq
  <2> QED
    BY <1>3, <2>1, <2>2 DEF Mount
<1>4. ASSUME NEW c \in Callers, RemountNs(c) \/ RemountRoot(c)
      PROVE  MountsInv'
  <2>1. Len(mounts) = 1 /\ dir /\ dir' = dir
    BY <1>4 DEF RemountNs, RemountRoot
  <2>2. /\ Tail(mounts) = <<>>
        /\ <<nsOf[on[c]]>> \o Tail(mounts) \in Seq(Namespaces)
        /\ Len(<<nsOf[on[c]]>> \o Tail(mounts)) = 1
    BY <1>0, <2>1, RemountFacts
  <2>3. mounts' \in Seq(Namespaces) /\ Len(mounts') <= 1
    BY <1>4, <2>1, <2>2 DEF RemountNs, RemountRoot, Remounted, RemountFails
  <2>4. \A d \in Callers \ {c} : pc'[d] \notin Mounted \cup {"mount", "rmdir"}
    BY <1>4 DEF RemountNs, RemountRoot
  <2>5. /\ pc'[c] \notin {"mount", "rmdir"}
        /\ pc'[c] \in Mounted => Len(mounts') = 1
    BY <1>4, <2>2 DEF RemountNs, RemountRoot, Remounted
  <2> QED
    BY <2>1, <2>3, <2>4, <2>5
<1>5. ASSUME NEW c \in Callers,
             \/ NSEnter(c) \/ GetDevCache(c) \/ GetDevRelated(c) \/ SplitLinks(c)
             \/ Leave(c) \/ LeaveErr(c) \/ Resolved(c) \/ GetProcessNetNuma(c)
             \/ \E d \in Devs : Follow(c, d)
      PROVE  MountsInv'
  BY <1>5 DEF NSEnter, GetDevCache, GetDevRelated, SplitLinks, Leave, LeaveErr, Resolved,
              GetProcessNetNuma, Follow, fs
<1>6. ASSUME NEW c \in Callers, Umount(c)
      PROVE  MountsInv'
  <2>1. Tail(mounts) = <<>>
    BY <1>6, <1>0, RemountFacts DEF Umount
  <2>2. <<>> \in Seq(Namespaces) /\ Len(<<>>) <= 1
    BY EmptySeq
  <2>3. mounts' \in {mounts, <<>>} /\ dir' = dir /\ dir
    BY <1>6, <2>1 DEF Umount
  <2>4. \A d \in Callers \ {c} : pc'[d] \notin Mounted \cup {"mount", "rmdir"}
    BY <1>6 DEF Umount
  <2>5. pc'[c] \notin Mounted \cup {"mount"} /\ (pc'[c] = "rmdir" => mounts' = <<>>)
    BY <1>6, <2>1 DEF Umount
  <2> QED
    BY <2>2, <2>3, <2>4, <2>5
<1>7. ASSUME NEW c \in Callers, Rmdir(c)
      PROVE  MountsInv'
  BY <1>7 DEF Rmdir
<1>8. ASSUME Kill \/ \E c \in Callers : NilIrqPanic(c)
      PROVE  MountsInv'
  BY <1>8 DEF Kill, NilIrqPanic, Restart, fs
<1>9. ASSUME \/ UNCHANGED vars \/ \E p \in Procs : ProcExit(p)
             \/ \E c \in Callers : Migrate(c)
      PROVE  MountsInv'
  BY <1>9 DEF vars, ProcExit, Migrate, fs
<1> QED
  BY <1>1, <1>2, <1>3, <1>4, <1>5, <1>6, <1>7, <1>8, <1>9 DEF Next, Probe

LEMMA MishapStep == ASSUME [Next]_vars PROVE mishaps' \in {mishaps, mishaps + 1}
<1> USE DEF Smooth, Mishap
<1>1. ASSUME NEW c \in Callers, Probe(c)
      PROVE  mishaps' \in {mishaps, mishaps + 1}
  <2>1. CASE Mkdir(c) \/ Mount(c) \/ RemountRoot(c) \/ Umount(c) \/ Rmdir(c) \/ GetProcessNetNuma(c)
    BY <2>1 DEF Mkdir, Mount, RemountRoot, Remounted, RemountFails, Umount, Rmdir, GetProcessNetNuma
  <2>2. CASE NSEnter(c) \/ RemountNs(c) \/ GetDevCache(c) \/ GetDevRelated(c)
    BY <2>2 DEF NSEnter, RemountNs, Remounted, RemountFails, GetDevCache, GetDevRelated
  <2>3. CASE SplitLinks(c) \/ Resolved(c) \/ NilIrqPanic(c) \/ \E d \in Devs : Follow(c, d)
    BY <2>3 DEF SplitLinks, Resolved, NilIrqPanic, Follow, Take
  <2>4. CASE Leave(c) \/ LeaveErr(c)
    BY <2>4 DEF Leave, LeaveErr, SetRootNs
  <2> QED
    BY <1>1, <2>1, <2>2, <2>3, <2>4 DEF Probe
<1>2. CASE UNCHANGED vars \/ Kill
  BY <1>2 DEF vars, Kill
<1>3. ASSUME \E c \in Callers : Migrate(c) \/ \E p \in Procs : Begin(c, p)
      PROVE  mishaps' \in {mishaps, mishaps + 1}
  BY <1>3 DEF Migrate, Begin
<1>4. ASSUME \E p \in Procs : ProcExit(p)
      PROVE  mishaps' \in {mishaps, mishaps + 1}
  BY <1>4 DEF ProcExit
<1> QED
  BY <1>1, <1>2, <1>3, <1>4 DEF Next

LEMMA SmoothStep == ASSUME Inv, Threading, MountsInv, SmoothInv, [Next]_vars PROVE SmoothInv'
<1> USE DEF SmoothInv, Inv, ProbesExclude, Inside, Steps, Goto, Return, Smooth, Mishap
<1>1. SUFFICES ASSUME mishaps' = 0, mishaps = 0, UNCHANGED mishaps
               PROVE  SmoothInv'
  <2>1. mishaps' = mishaps \/ mishaps' = mishaps + 1
    BY MishapStep
  <2> QED
    BY <2>1
<1>2. /\ dir => Inside # {}
      /\ gone = {}
      /\ \A c \in Callers : pc[c] # "backErr" /\ ~unread[c]
  BY <1>1
<1>3. ASSUME NEW c \in Callers, NEW p \in Procs, Begin(c, p)
      PROVE  SmoothInv'
  BY <1>1, <1>2, <1>3 DEF Begin, fs, work
<1>4. ASSUME NEW c \in Callers, Mkdir(c)
      PROVE  SmoothInv'
  BY <1>1, <1>2, <1>4 DEF Mkdir, work, Threading
<1>5. ASSUME NEW c \in Callers, Mount(c) \/ RemountRoot(c) \/ Umount(c)
      PROVE  SmoothInv'
  BY <1>1, <1>2, <1>5 DEF Mount, RemountRoot, Umount, Remounted, RemountFails, work
<1>6. ASSUME NEW c \in Callers, NSEnter(c) \/ RemountNs(c) \/ GetDevCache(c) \/ GetDevRelated(c)
      PROVE  SmoothInv'
  BY <1>1, <1>2, <1>6 DEF NSEnter, RemountNs, Remounted, RemountFails, GetDevCache,
                          GetDevRelated, work, fs
<1>7. ASSUME NEW c \in Callers,
             \/ SplitLinks(c) \/ Leave(c) \/ Resolved(c) \/ GetProcessNetNuma(c)
             \/ \E d \in Devs : Follow(c, d)
      PROVE  SmoothInv'
  BY <1>1, <1>2, <1>7 DEF SplitLinks, Leave, SetRootNs, Resolved, GetProcessNetNuma, Follow,
                          Take, work, fs, Threading
<1>8. ASSUME NEW c \in Callers, Rmdir(c)
      PROVE  SmoothInv'
  BY <1>1, <1>2, <1>8 DEF Rmdir, work, MountsInv
<1>9. ASSUME Kill \/ \E c \in Callers : LeaveErr(c) \/ NilIrqPanic(c)
      PROVE  SmoothInv'
  BY <1>1, <1>2, <1>9 DEF Kill, LeaveErr, NilIrqPanic
<1>10. ASSUME \/ UNCHANGED vars \/ \E p \in Procs : ProcExit(p)
              \/ \E c \in Callers : Migrate(c)
       PROVE  SmoothInv'
  BY <1>1, <1>2, <1>10 DEF vars, ProcExit, Migrate, fs, work
<1> QED
  BY <1>3, <1>4, <1>5, <1>6, <1>7, <1>8, <1>9, <1>10 DEF Next, Probe

-----------------------------------------------------------------------------
(* Threads that entered a namespace                                          *)

LEMMA StrayStep == ASSUME Inv, Threading, NoStrayThread, [Next]_vars PROVE NoStrayThread'
<1> USE DEF NoStrayThread, Inv, ProbesExclude, Inside, Entered, Steps, Goto, Return, Threading
<1>1. ASSUME NEW c \in Callers, NEW p \in Procs, Begin(c, p)
      PROVE  NoStrayThread'
  BY <1>1 DEF Begin
<1>2. ASSUME NEW c \in Callers,
             Mkdir(c) \/ Mount(c) \/ RemountRoot(c) \/ Umount(c) \/ Rmdir(c) \/ GetProcessNetNuma(c)
      PROVE  NoStrayThread'
  BY <1>2 DEF Mkdir, Mount, RemountRoot, Umount, Rmdir, GetProcessNetNuma
<1>3. ASSUME NEW c \in Callers, NSEnter(c)
      PROVE  NoStrayThread'
  BY <1>3 DEF NSEnter, SetNs
<1>4. ASSUME NEW c \in Callers,
             \/ RemountNs(c) \/ GetDevCache(c) \/ GetDevRelated(c) \/ SplitLinks(c)
             \/ Resolved(c) \/ \E d \in Devs : Follow(c, d)
      PROVE  NoStrayThread'
  <2>1. nsOf' = nsOf /\ on' = on /\ target' = target /\ strays' = strays
    BY <1>4 DEF RemountNs, GetDevCache, GetDevRelated, SplitLinks, Resolved, Follow
  <2>2. \/ pc' = pc
        \/ pc[c] \in {"remount", "cache", "related", "links"}
           /\ \E s \in {"cache", "related", "links", "back", "backErr"} : pc' = [pc EXCEPT ![c] = s]
        \/ pc[c] = "resolve" /\ pc' = [pc EXCEPT ![c] = "umount"]
    <3>1. CASE RemountNs(c) \/ GetDevRelated(c)
      BY <3>1 DEF RemountNs, GetDevRelated
    <3>2. CASE GetDevCache(c) \/ SplitLinks(c)
      BY <3>2 DEF GetDevCache, SplitLinks
    <3>3. CASE Resolved(c)
      BY <3>3 DEF Resolved
    <3>4. CASE \E d \in Devs : Follow(c, d)
      BY <3>4 DEF Follow
    <3> QED
      BY <1>4, <3>1, <3>2, <3>3, <3>4
  <2>3. Entered' = Entered
    BY <2>2
  <2> HIDE DEF Entered
  <2> QED
    BY <2>1, <2>3
<1>5. ASSUME NEW c \in Callers, Leave(c) \/ LeaveErr(c)
      PROVE  NoStrayThread'
  BY <1>5 DEF Leave, LeaveErr, SetRootNs, SetNs
<1>6. ASSUME Kill \/ \E c \in Callers : NilIrqPanic(c)
      PROVE  NoStrayThread'
  BY <1>6 DEF Kill, NilIrqPanic, Restart
<1>7. ASSUME NEW c \in Callers, Migrate(c)
      PROVE  NoStrayThread'
  BY <1>7 DEF Migrate
<1>8. ASSUME UNCHANGED vars \/ \E p \in Procs : ProcExit(p)
      PROVE  NoStrayThread'
  BY <1>8 DEF vars, ProcExit
<1> QED
  BY <1>1, <1>2, <1>3, <1>4, <1>5, <1>6, <1>7, <1>8 DEF Next, Probe

LEMMA InitPath == Init => PathInv
<1> SUFFICES ASSUME Init PROVE PathInv
  OBVIOUS
<1>1. Inv /\ NoStrayThread
  BY DEF Init, Inv, ProbesExclude, Inside, Steps, NoStrayThread
<1>2. Threading
  <2>1. (CHOOSE p \in Procs : TRUE) \in Procs
    BY ProbeAssumption
  <2> QED
    BY <2>1, ProbeAssumption DEF Init, Threading
<1>3. MountsInv
  <2>1. <<>> \in Seq(Namespaces) /\ Len(<<>>) = 0
    BY EmptySeq
  <2>2. dir \in BOOLEAN /\ mounts = <<>>
    BY DEF Init
  <2>3. \A c \in Callers : pc[c] = "idle"
    BY DEF Init
  <2> QED
    BY <2>1, <2>2, <2>3 DEF MountsInv, Mounted
<1>4. SmoothInv
  BY DEF Init, SmoothInv
<1> QED
  BY <1>1, <1>2, <1>3, <1>4 DEF PathInv

\* What the next two theorems rest on
THEOREM PathInvariance == Spec => []PathInv
<1>1. PathInv /\ [Next]_vars => PathInv'
  BY InvStep, ThreadingStep, MountsStep, SmoothStep, StrayStep DEF PathInv
<1> QED
  BY <1>1, InitPath, PTL DEF Spec

\* However probes of any callers interleave and whatever devices they meet: as
\* long as no call is refused, no process exits and the daemon is not killed,
\* a probe that ends takes /wisysfs away (postDetect on every path but errors).
THEOREM LeakNeedsMishapHolds == Spec => []LeakNeedsMishap
<1>1. PathInv => LeakNeedsMishap
  BY DEF PathInv, SmoothInv, LeakNeedsMishap
<1> QED
  BY <1>1, PathInvariance, PTL

\* As long as no goroutine was moved inside a namespace and the way back was
\* not refused, only the thread of the probe of a container is in its
\* namespace, and it is taken back on every path (SetRootNs).
THEOREM NoStrayThreadHolds == Spec => []NoStrayThread
<1>1. PathInv => NoStrayThread
  BY DEF PathInv
<1> QED
  BY <1>1, PathInvariance, PTL

-----------------------------------------------------------------------------
(* The types                                                                 *)

\* A goroutine that is pinned or in a probe has its thread to itself
Holds(c) == c \in Pinned \/ Busy(c)
OwnThread == \A c, d \in Callers : Holds(c) /\ Holds(d) /\ on[c] = on[d] => c = d

LocalTypes ==
    /\ seen \in [Callers -> Namespaces]
    /\ used \in [Callers -> SUBSET Devs] /\ todo \in [Callers -> SUBSET Devs]
    /\ found \in [Callers -> SUBSET Devs]
    /\ answer \in [Callers -> Int] /\ gone \subseteq Procs
    /\ probes \in Nat /\ moves \in Nat

LEMMA ThreadStep == ASSUME Inv, Threading, OwnThread, [Next]_vars PROVE OwnThread'
<1> USE DEF OwnThread, Holds, Busy, Inv, Goto, Return, Threading
<1>1. ASSUME NEW c \in Callers, NEW p \in Procs, Begin(c, p)
      PROVE  OwnThread'
  BY <1>1 DEF Begin, Free
<1>2. ASSUME NEW c \in Callers,
             Mkdir(c) \/ Mount(c) \/ RemountRoot(c) \/ Umount(c) \/ Rmdir(c) \/ GetProcessNetNuma(c)
      PROVE  OwnThread'
  BY <1>2 DEF Mkdir, Mount, RemountRoot, Umount, Rmdir, GetProcessNetNuma
<1>3. ASSUME NEW c \in Callers,
             \/ NSEnter(c) \/ RemountNs(c) \/ GetDevCache(c) \/ GetDevRelated(c) \/ SplitLinks(c)
             \/ Resolved(c) \/ Leave(c) \/ LeaveErr(c) \/ \E d \in Devs : Follow(c, d)
      PROVE  OwnThread'
  BY <1>3 DEF NSEnter, RemountNs, GetDevCache, GetDevRelated, SplitLinks, Resolved, Leave,
              LeaveErr, Follow
<1>4. ASSUME Kill \/ \E c \in Callers : NilIrqPanic(c)
      PROVE  OwnThread'
  BY <1>4 DEF Kill, NilIrqPanic, Restart
<1>5. ASSUME NEW c \in Callers, Migrate(c)
      PROVE  OwnThread'
  BY <1>5 DEF Migrate, Free
<1>6. ASSUME UNCHANGED vars \/ \E p \in Procs : ProcExit(p)
      PROVE  OwnThread'
  BY <1>6 DEF vars, ProcExit
<1> QED
  BY <1>1, <1>2, <1>3, <1>4, <1>5, <1>6 DEF Next, Probe

LEMMA PreferredInt == ASSUME NEW ds \in SUBSET Devs PROVE Preferred(ds) \in Int
<1> DEFINE irqs == UNION {IrqNodes[d] : d \in ds}
           slots == {PciNode[d] : d \in ds} \ {0, -1}
<1>1. irqs \subseteq Int /\ slots \subseteq Int
  BY ProbeAssumption
<1>2. ASSUME NEW S, S \subseteq Int, Cardinality(S) = 1
      PROVE  (CHOOSE n \in S : TRUE) \in Int
  <2>1. Cardinality({}) = 0
    BY FS_EmptySet
  <2>2. S # {}
    BY <1>2, <2>1
  <2> QED
    BY <1>2, <2>2
<1> HIDE DEF irqs, slots
<1>3. Preferred(ds) = IF Cardinality(irqs) = 1 THEN CHOOSE n \in irqs : TRUE
                      ELSE IF Cardinality(slots) = 1 THEN CHOOSE n \in slots : TRUE
                      ELSE -1
  BY DEF Preferred, Unknown, irqs, slots
<1>4. /\ Cardinality(irqs) = 1 => (CHOOSE n \in irqs : TRUE) \in Int
      /\ Cardinality(slots) = 1 => (CHOOSE n \in slots : TRUE) \in Int
  BY <1>1, <1>2
<1> QED
  BY <1>3, <1>4

LEMMA LocalStep == ASSUME Threading, LocalTypes, [Next]_vars PROVE LocalTypes'
<1> USE DEF LocalTypes, Goto, Return, Err, Unknown, NoAnswer, work
<1>0. RootNs \in Namespaces /\ Local \in [Procs -> SUBSET Devs] /\ Link \in [Devs -> Devs]
      /\ Slaves \in [Devs -> SUBSET Devs] /\ MaxProbes \in Nat /\ MaxMoves \in Nat
  BY ProbeAssumption
<1>1. ASSUME NEW c \in Callers, NEW p \in Procs, Begin(c, p)
      PROVE  LocalTypes'
  BY <1>1 DEF Begin
<1>2. ASSUME NEW c \in Callers,
             Mkdir(c) \/ Mount(c) \/ RemountRoot(c) \/ Umount(c) \/ Rmdir(c)
      PROVE  LocalTypes'
  <2>1. UNCHANGED <<gone, probes, moves>> /\ (Return(c, Err) \/ UNCHANGED <<answer, work>>)
    BY <1>2 DEF Mkdir, Mount, RemountRoot, Umount, Rmdir
  <2> QED
    BY <1>0, <2>1
<1>3. ASSUME NEW c \in Callers, GetProcessNetNuma(c)
      PROVE  LocalTypes'
  <2>1. UNCHANGED <<gone, probes, moves>> /\ Return(c, Preferred(found[c]))
    BY <1>3 DEF GetProcessNetNuma
  <2>2. Preferred(found[c]) \in Int
    BY PreferredInt
  <2> QED
    BY <1>0, <2>1, <2>2
<1>4. ASSUME NEW c \in Callers,
             NSEnter(c) \/ RemountNs(c) \/ Resolved(c) \/ Leave(c) \/ LeaveErr(c)
      PROVE  LocalTypes'
  BY <1>0, <1>4 DEF NSEnter, RemountNs, Resolved, Leave, LeaveErr
<1>5. ASSUME NEW c \in Callers, GetDevCache(c)
      PROVE  LocalTypes'
  BY <1>5 DEF GetDevCache, Threading
<1>6. ASSUME NEW c \in Callers, GetDevRelated(c)
      PROVE  LocalTypes'
  BY <1>0, <1>6 DEF GetDevRelated, Threading
<1>7. ASSUME NEW c \in Callers, SplitLinks(c)
      PROVE  LocalTypes'
  BY <1>0, <1>7 DEF SplitLinks, Take
<1>8. ASSUME NEW c \in Callers, NEW d \in Devs, Follow(c, d)
      PROVE  LocalTypes'
  BY <1>0, <1>8 DEF Follow, Take
<1>9. ASSUME Kill \/ \E c \in Callers : NilIrqPanic(c)
      PROVE  LocalTypes'
  BY <1>0, <1>9 DEF Kill, NilIrqPanic, Restart
<1>10. ASSUME \/ UNCHANGED vars \/ \E p \in Procs : ProcExit(p)
              \/ \E c \in Callers : Migrate(c)
      PROVE  LocalTypes'
  BY <1>10 DEF vars, ProcExit, Migrate
<1> QED
  BY <1>1, <1>2, <1>3, <1>4, <1>5, <1>6, <1>7, <1>8, <1>9, <1>10 DEF Next, Probe

LEMMA InitTypes == ASSUME Init PROVE OwnThread /\ LocalTypes
<1>1. OwnThread
  BY DEF Init, OwnThread, Holds, Busy
<1>2. LocalTypes
  BY ProbeAssumption DEF Init, LocalTypes, NoAnswer
<1> QED
  BY <1>1, <1>2

\* The variables keep their types; no two probes run on one thread, whatever the
\* scheduler moves (the goroutine of a probe holds its OS thread while it is in a call);
\* and at most one sysfs is mounted on /wisysfs.
THEOREM TypeCorrect == Spec => []TypeOK
<1>1. PathInv /\ OwnThread /\ LocalTypes /\ [Next]_vars => (PathInv /\ OwnThread /\ LocalTypes)'
  BY InvStep, ThreadingStep, MountsStep, SmoothStep, StrayStep, ThreadStep, LocalStep DEF PathInv
<1>2. Init => PathInv /\ OwnThread /\ LocalTypes
  BY InitPath, InitTypes
<1>3. PathInv /\ OwnThread /\ LocalTypes => TypeOK
  BY DEF PathInv, Inv, Threading, MountsInv, SmoothInv, OwnThread, Holds, LocalTypes, TypeOK
<1> QED
  BY <1>1, <1>2, <1>3, PTL DEF Spec

-----------------------------------------------------------------------------
(* The devices that a probe finds                                            *)

\* Reach(ds) is closed, and the least of the closed sets around ds
LEMMA ReachFacts ==
    ASSUME NEW ds \in SUBSET Devs
    PROVE  /\ Reach(ds) \in SUBSET Devs /\ ds \subseteq Reach(ds)
           /\ \A d \in Reach(ds) : Succ(d) \subseteq Reach(ds)
           /\ \A T \in SUBSET Devs :
                 ds \subseteq T /\ (\A d \in T : Succ(d) \subseteq T) => Reach(ds) \subseteq T
<1> DEFINE Closed(S) == ds \subseteq S /\ \A d \in S : Succ(d) \subseteq S
           Least(S) == Closed(S) /\ \A T \in SUBSET S : Closed(T) => T = S
           core == {x \in Devs : \A T \in SUBSET Devs : Closed(T) => x \in T}
<1>1. \A d \in Devs : Succ(d) \subseteq Devs
  BY ProbeAssumption DEF Succ
<1>2. Closed(core)
  BY <1>1
<1>3. Least(core)
  BY <1>2
<1>4. Reach(ds) = CHOOSE S \in SUBSET Devs : Least(S)
  BY DEF Reach
<1>5. Reach(ds) \in SUBSET Devs /\ Least(Reach(ds))
  <2>1. \E S \in SUBSET Devs : Least(S)
    BY <1>3
  <2> HIDE DEF Least
  <2> QED
    BY <1>4, <2>1
<1>6. ASSUME NEW T \in SUBSET Devs, Closed(T) PROVE Reach(ds) \subseteq T
  <2>1. Closed(T \cap Reach(ds))
    BY <1>5, <1>6
  <2>2. \A U \in SUBSET Reach(ds) : Closed(U) => U = Reach(ds)
    BY <1>5
  <2> HIDE DEF Closed
  <2>3. T \cap Reach(ds) = Reach(ds)
    BY <2>1, <2>2
  <2> QED
    BY <2>3
<1> QED
  BY <1>5, <1>6

Terminals(S) == {d \in S : Succ(d) = {}}

\* What the search has still to find
Progress(p, fd, td) ==
    /\ td \subseteq Reach(Links(p))
    /\ Direct(p) \subseteq fd /\ fd \subseteq RealDevs[p]
    /\ Terminals(Reach(Links(p))) \subseteq fd \cup Terminals(Reach(td))

\* What a caller's program counter says of its probe while no thread is astray
OnPath(c) ==
    LET p == target[c]
        ns == nsOf[on[c]]
    IN  /\ pc[c] \notin {"back", "again", "resolve", "umount", "rmdir", "numa"} =>
              found[c] = {} /\ todo[c] = {}
        /\ pc[c] \in {"remount", "cache", "related", "links"} => ns \in {Home[p], RootNs}
        /\ pc[c] \in {"cache", "related", "links"} => mounts # <<>> /\ Head(mounts) = ns
        /\ pc[c] = "related" => seen[c] = ns
        /\ pc[c] = "links" => \/ used[c] = Local[p] /\ ns = Home[p]
                              \/ used[c] = {} /\ Home[p] # RootNs
        /\ pc[c] \in {"back", "again", "resolve", "umount", "rmdir", "numa"} =>
              \/ Progress(p, found[c], todo[c])
              \/ found[c] = {} /\ todo[c] = {} /\ Home[p] # RootNs
        /\ pc[c] = "resolve" => mounts # <<>> /\ Head(mounts) = RootNs
        /\ pc[c] \in {"umount", "rmdir", "numa"} => todo[c] = {}

PathExact == strays = 0 => \A c \in Callers : OnPath(c)

\* A step of the search: what d leads to takes its place
LEMMA ProgressStep ==
    ASSUME NEW p \in Procs, NEW fd \in SUBSET Devs, NEW td \in SUBSET Devs, NEW d \in td,
           Progress(p, fd, td)
    PROVE  Progress(p, fd \cup (IF Succ(d) = {} THEN {d} ELSE {}), (td \ {d}) \cup Succ(d))
<1> DEFINE L == Reach(Links(p))
           td2 == (td \ {d}) \cup Succ(d)
           fd2 == fd \cup (IF Succ(d) = {} THEN {d} ELSE {})
<1>1. Links(p) \in SUBSET Devs /\ \A e \in Devs : Succ(e) \subseteq Devs
  BY ProbeAssumption DEF Links, Succ
<1>2. L \in SUBSET Devs /\ \A e \in L : Succ(e) \subseteq L
  BY <1>1, ReachFacts
<1>3. td \subseteq L /\ td2 \in SUBSET Devs
  BY <1>1 DEF Progress
<1>4. td2 \subseteq L
  BY <1>2, <1>3
<1>5. Reach(td) \subseteq Reach(td2) \cup {d}
  <2>1. /\ Reach(td2) \in SUBSET Devs /\ td2 \subseteq Reach(td2)
        /\ \A e \in Reach(td2) : Succ(e) \subseteq Reach(td2)
    BY <1>3, ReachFacts
  <2> DEFINE T == Reach(td2) \cup {d}
  <2>2. T \in SUBSET Devs /\ td \subseteq T /\ \A e \in T : Succ(e) \subseteq T
    BY <2>1
  <2> HIDE DEF T
  <2>3. Reach(td) \subseteq T
    BY <2>2, ReachFacts
  <2> QED
    BY <2>3 DEF T
<1>6. RealDevs[p] = Direct(p) \cup Terminals(L)
  BY DEF RealDevs, Terminals
<1>7. Direct(p) \subseteq fd2 /\ fd2 \subseteq RealDevs[p]
  BY <1>3, <1>6 DEF Progress, Terminals
<1>8. Terminals(L) \subseteq fd2 \cup Terminals(Reach(td2))
  <2>1. ASSUME NEW e \in Terminals(Reach(td)) PROVE e \in fd2 \cup Terminals(Reach(td2))
    BY <1>5, <2>1 DEF Terminals
  <2> QED
    BY <2>1 DEF Progress
<1> QED
  BY <1>4, <1>7, <1>8 DEF Progress

\* A search that has nothing left has found all
LEMMA ProgressEnd ==
    ASSUME NEW p \in Procs, NEW fd, Progress(p, fd, {})
    PROVE  fd = RealDevs[p]
<1>1. Reach({}) = {}
  BY ReachFacts
<1>2. RealDevs[p] = Direct(p) \cup Terminals(Reach(Links(p)))
  BY DEF RealDevs, Terminals
<1> QED
  BY <1>1, <1>2 DEF Progress, Terminals

\* What the proof of FoundExact uses of the other invariants
ProbeInv == PathInv /\ OwnThread /\ LocalTypes

\* Nobody but the caller inside moves a thread or mounts
LEMMA RootElsewhere ==
    ASSUME ProbeInv, strays = 0, NEW c \in Inside, c \notin Entered
    PROVE  \A t \in Threads : nsOf[t] = RootNs
<1>1. Entered \subseteq {c}
  BY DEF ProbeInv, PathInv, Inv, ProbesExclude, Entered, Inside
<1> QED
  BY <1>1 DEF ProbeInv, PathInv, NoStrayThread

LEMMA RootBut ==
    ASSUME ProbeInv, strays = 0, NEW c \in Entered
    PROVE  \A t \in Threads \ {on[c]} : nsOf[t] = RootNs
<1>1. Entered \subseteq {c}
  BY DEF ProbeInv, PathInv, Inv, ProbesExclude, Entered, Inside
<1> QED
  BY <1>1 DEF ProbeInv, PathInv, NoStrayThread

\* What a step leaves of OnPath for a caller whose variables it does not touch
LEMMA OnPathKept ==
    ASSUME NEW c \in Callers, OnPath(c),
           UNCHANGED <<pc[c], target[c], seen[c], used[c], todo[c], found[c]>>,
           c \in Entered => UNCHANGED <<nsOf[on[c]], on[c]>>,
           c \in Inside => UNCHANGED mounts
    PROVE  OnPath(c)'
BY DEF OnPath, Entered, Inside

LEMMA OthersOnPath ==
    ASSUME ProbeInv, NEW c \in Callers, NEW d \in Callers, d # c, OnPath(d),
           Migrate(c) \/ (Probe(c) /\ ~NilIrqPanic(c)) \/ \E p \in Procs : Begin(c, p)
    PROVE  OnPath(d)'
<1> USE DEF Goto, Return, work, fs
<1>1. c \in Inside => d \notin Inside
  BY DEF ProbeInv, PathInv, Inv, ProbesExclude
<1>2. Entered \subseteq Inside
  BY DEF Entered, Inside
<1>3. CASE Begin(c, target'[c]) \/ Migrate(c) \/ \E p \in Procs : Begin(c, p)
  <2>1. /\ UNCHANGED <<pc[d], target[d], seen[d], used[d], todo[d], found[d], on[d], nsOf, mounts>>
    BY <1>3 DEF Begin, Migrate, ProbeInv, PathInv, Inv, Threading
  <2> QED
    BY <2>1, OnPathKept
<1>4. CASE Mkdir(c) \/ GetProcessNetNuma(c)
  <2>1. /\ UNCHANGED <<pc[d], target[d], seen[d], used[d], todo[d], found[d], on[d], nsOf, mounts>>
    BY <1>4 DEF Mkdir, GetProcessNetNuma, ProbeInv, PathInv, Inv, LocalTypes
  <2> QED
    BY <2>1, OnPathKept
<1>5. CASE \/ Mount(c) \/ NSEnter(c) \/ RemountNs(c) \/ GetDevCache(c) \/ GetDevRelated(c)
           \/ SplitLinks(c) \/ Leave(c) \/ LeaveErr(c) \/ RemountRoot(c) \/ Resolved(c)
           \/ Umount(c) \/ Rmdir(c) \/ \E e \in Devs : Follow(c, e)
  <2>1. c \in Inside
    BY <1>5 DEF Inside, Mount, NSEnter, RemountNs, GetDevCache, GetDevRelated, SplitLinks, Leave,
                LeaveErr, RemountRoot, Resolved, Umount, Rmdir, Follow
  <2>2. CASE Mount(c) \/ RemountRoot(c) \/ Umount(c) \/ Rmdir(c) \/ LeaveErr(c)
    <3>1. \/ UNCHANGED work
          \/ /\ used' = [used EXCEPT ![c] = {}] /\ todo' = [todo EXCEPT ![c] = {}]
             /\ found' = [found EXCEPT ![c] = {}] /\ seen' = [seen EXCEPT ![c] = RootNs]
      BY <2>2 DEF Mount, RemountRoot, Umount, Rmdir, LeaveErr
    <3>2. target' = target /\ \E s : pc' = [pc EXCEPT ![c] = s]
      BY <2>2 DEF Mount, RemountRoot, Umount, Rmdir, LeaveErr
    <3>3. UNCHANGED <<pc[d], target[d], seen[d], used[d], todo[d], found[d]>>
      BY <3>1, <3>2 DEF ProbeInv, PathInv, Inv, LocalTypes
    <3> QED
      BY <1>1, <1>2, <2>1, <3>3, OnPathKept
  <2>3. CASE NSEnter(c) \/ RemountNs(c) \/ Leave(c) \/ Resolved(c)
    <3>1. UNCHANGED <<target, work>> /\ \E s : pc' = [pc EXCEPT ![c] = s]
      BY <2>3 DEF NSEnter, RemountNs, Leave, Resolved
    <3> QED
      BY <1>1, <1>2, <2>1, <3>1, OnPathKept
  <2>4. CASE GetDevCache(c) \/ GetDevRelated(c) \/ SplitLinks(c) \/ \E e \in Devs : Follow(c, e)
    <3>1. UNCHANGED <<pc[d], target[d], seen[d], used[d], todo[d], found[d]>>
      BY <2>4 DEF GetDevCache, GetDevRelated, SplitLinks, Follow, Take, ProbeInv, PathInv, Inv,
                  LocalTypes
    <3> QED
      BY <1>1, <1>2, <2>1, <3>1, OnPathKept
  <2> QED
    BY <1>5, <2>2, <2>3, <2>4
<1> QED
  BY <1>3, <1>4, <1>5 DEF Probe

LEMMA EnterOnPath ==
    ASSUME ProbeInv, strays = 0, strays' = 0, NEW c \in Callers, OnPath(c),
           Mkdir(c) \/ Mount(c) \/ NSEnter(c) \/ RemountNs(c) \/ GetDevCache(c)
    PROVE  OnPath(c)'
<1> USE DEF Goto, Return, work, fs, Threading
<1>1. /\ pc \in [Callers -> Steps] /\ Threading /\ LocalTypes /\ MountsInv
  BY DEF ProbeInv, PathInv, Inv
<1>2. found[c] = {} /\ todo[c] = {}
  BY DEF OnPath, Mkdir, Mount, NSEnter, RemountNs, GetDevCache
<1>3. CASE Mkdir(c) \/ Mount(c)
  <2>1. pc'[c] \in {"idle", "mount", "enter"} /\ found'[c] = {} /\ todo'[c] = {}
    BY <1>1, <1>2, <1>3 DEF Mkdir, Mount, LocalTypes
  <2> QED
    BY <2>1 DEF OnPath
<1>4. CASE NSEnter(c)
  <2>1. c \in Inside /\ c \notin Entered
    BY <1>4 DEF NSEnter, Inside, Entered
  <2>2. nsOf[on[c]] = RootNs
    BY <1>1, <2>1, RootElsewhere
  <2>3. nsOf'[on'[c]] \in {Home[target[c]], RootNs}
    BY <1>1, <1>4, <2>2 DEF NSEnter, SetNs
  <2>4. pc'[c] = "remount" /\ found'[c] = {} /\ todo'[c] = {} /\ target' = target
    BY <1>1, <1>2, <1>4 DEF NSEnter
  <2> QED
    BY <2>3, <2>4 DEF OnPath
<1>5. CASE RemountNs(c)
  <2>1. UNCHANGED <<target, on, nsOf>> /\ found'[c] = {} /\ todo'[c] = {}
    BY <1>2, <1>5 DEF RemountNs
  <2>2. nsOf[on[c]] \in {Home[target[c]], RootNs}
    BY <1>5 DEF OnPath, RemountNs
  <2>3. pc'[c] = "backErr" \/ (pc'[c] = "cache" /\ mounts' = <<nsOf[on[c]]>> \o Tail(mounts))
    BY <1>1, <1>5 DEF RemountNs, Remounted
  <2>4. mounts \in Seq(Namespaces) /\ Len(mounts) = 1 /\ nsOf[on[c]] \in Namespaces
    BY <1>1, <1>5 DEF RemountNs, MountsInv, Mounted
  <2>5. <<nsOf[on[c]]>> \o Tail(mounts) = <<nsOf[on[c]]>>
    <3>1. Tail(mounts) = <<>>
      BY <2>4, RemountFacts
    <3>2. <<nsOf[on[c]]>> \in Seq(Namespaces)
      BY <2>4
    <3> QED
      BY <3>1, <3>2, ConcatEmptySeq
  <2>6. pc'[c] = "cache" => mounts' # <<>> /\ Head(mounts') = nsOf[on[c]]
    BY <2>3, <2>5
  <2> QED
    BY <2>1, <2>2, <2>3, <2>6 DEF OnPath
<1>6. CASE GetDevCache(c)
  <2>1. UNCHANGED <<target, on, nsOf, mounts>> /\ found'[c] = {} /\ todo'[c] = {}
    BY <1>2, <1>6 DEF GetDevCache
  <2>2. pc'[c] = "backErr" \/ (pc'[c] = "related" /\ seen'[c] = nsOf[on[c]])
    BY <1>1, <1>6 DEF GetDevCache, LocalTypes
  <2>3. pc[c] = "cache"
    BY <1>6 DEF GetDevCache
  <2> QED
    BY <2>1, <2>2, <2>3 DEF OnPath
<1> QED
  BY <1>3, <1>4, <1>5, <1>6

LEMMA FindOnPath ==
    ASSUME ProbeInv, DevicesSeen, strays = 0, strays' = 0, NEW c \in Callers, OnPath(c),
           GetDevRelated(c) \/ SplitLinks(c)
    PROVE  OnPath(c)'
<1> USE DEF Goto, fs
<1> DEFINE p == target[c]
           ns == nsOf[on[c]]
<1>1. /\ pc \in [Callers -> Steps] /\ Threading /\ LocalTypes /\ p \in Procs /\ on[c] \in Threads
  BY DEF ProbeInv, PathInv, Inv, Threading
<1>2. /\ c \in Entered /\ found[c] = {} /\ todo[c] = {} /\ ns \in {Home[p], RootNs}
      /\ mounts # <<>> /\ Head(mounts) = ns
      /\ UNCHANGED <<target, on, nsOf, mounts>>
  BY DEF OnPath, GetDevRelated, SplitLinks, Entered
<1>3. CASE GetDevRelated(c)
  <2>1. seen[c] = ns /\ UNCHANGED <<todo, found>>
    BY <1>3 DEF OnPath, GetDevRelated
  <2>2. CASE pc'[c] = "backErr"
    BY <1>2, <2>1, <2>2 DEF OnPath
  <2>3. CASE pc'[c] # "backErr"
    <3>1. /\ pc'[c] = "links"
          /\ used'[c] = IF ns = Home[p] /\ nsOf[Leader] = Home[p] THEN Local[p] ELSE {}
      BY <1>1, <1>3, <2>1, <2>3 DEF GetDevRelated, LocalTypes
    <3>2. ASSUME Home[p] = RootNs PROVE ns = Home[p] /\ nsOf[Leader] = Home[p]
      <4>1. ns = RootNs
        BY <1>2, <3>2
      <4>2. Leader \in Threads
        BY ProbeAssumption
      <4>3. nsOf[Leader] = RootNs
        BY <1>2, <4>1, <4>2, RootBut
      <4> QED
        BY <3>2, <4>1, <4>3
    <3> HIDE DEF p, ns
    <3>3. \/ used'[c] = Local[p] /\ ns = Home[p]
          \/ used'[c] = {} /\ Home[p] # RootNs
      BY <3>1, <3>2
    <3> QED
      BY <1>2, <2>1, <3>1, <3>3 DEF OnPath, p, ns
  <2> QED
    BY <2>2, <2>3
<1>4. CASE SplitLinks(c)
  <2>1. /\ pc[c] = "links" /\ pc'[c] = "back"
        /\ todo'[c] = {Link[d] : d \in {e \in used[c] : HasLink(e)}} \ {NoName}
        /\ found'[c] = {d \in used[c] : ~HasLink(d)}
    BY <1>1, <1>2, <1>4 DEF SplitLinks, Take, LocalTypes
  <2>2. CASE used[c] = {}
    <3>1. Home[p] # RootNs \/ Local[p] = {}
      BY <2>1, <2>2 DEF OnPath
    <3>2. todo'[c] = {} /\ found'[c] = {}
      BY <2>1, <2>2
    <3>3. CASE Home[p] # RootNs
      BY <1>2, <2>1, <3>2, <3>3 DEF OnPath
    <3>4. CASE Local[p] = {}
      <4>1. Links(p) = {} /\ Direct(p) = {}
        BY <3>4 DEF Links, Direct
      <4>2. Progress(p, {}, {})
        BY <4>1, ReachFacts DEF Progress
      <4> QED
        BY <1>2, <2>1, <3>2, <4>2 DEF OnPath
    <3> QED
      BY <3>1, <3>3, <3>4
  <2>3. CASE used[c] # {}
    <3>1. used[c] = Local[p] /\ ns = Home[p]
      BY <2>1, <2>3 DEF OnPath
    <3>2. \A d \in Local[p] : HasLink(d) <=> Link[d] # d
      BY <1>1, <1>2, <3>1 DEF HasLink, DevicesSeen
    <3>3. todo'[c] = Links(p) /\ found'[c] = Direct(p)
      BY <2>1, <3>1, <3>2 DEF Links, Direct
    <3>4. Links(p) \in SUBSET Devs
      BY <1>1, ProbeAssumption DEF Links
    <3>5. Links(p) \subseteq Reach(Links(p)) /\ RealDevs[p] = Direct(p) \cup Terminals(Reach(Links(p)))
      BY <1>1, <3>4, ReachFacts DEF RealDevs, Terminals
    <3>6. Progress(p, Direct(p), Links(p))
      BY <3>5 DEF Progress
    <3> QED
      BY <1>2, <2>1, <3>3, <3>6 DEF OnPath
  <2> QED
    BY <2>2, <2>3
<1> QED
  BY <1>3, <1>4

LEMMA LeaveOnPath ==
    ASSUME ProbeInv, strays = 0, strays' = 0, NEW c \in Callers, OnPath(c),
           Leave(c) \/ LeaveErr(c) \/ RemountRoot(c)
    PROVE  OnPath(c)'
<1> USE DEF Goto, Return, work, fs
<1>1. /\ pc \in [Callers -> Steps] /\ Threading /\ LocalTypes /\ MountsInv
  BY DEF ProbeInv, PathInv, Inv
<1>2. CASE Leave(c)
  <2>1. pc[c] = "back" /\ pc'[c] = "again" /\ UNCHANGED <<target, found, todo>>
    BY <1>1, <1>2 DEF Leave
  <2> QED
    BY <2>1 DEF OnPath
<1>3. CASE LeaveErr(c)
  <2>1. pc'[c] = "idle" /\ found'[c] = {} /\ todo'[c] = {}
    BY <1>1, <1>3 DEF LeaveErr, LocalTypes
  <2> QED
    BY <2>1 DEF OnPath
<1>4. CASE RemountRoot(c)
  <2>1. CASE Return(c, Err)
    <3>1. pc'[c] = "idle" /\ found'[c] = {} /\ todo'[c] = {}
      BY <1>1, <2>1 DEF LocalTypes
    <3> QED
      BY <3>1 DEF OnPath
  <2>2. CASE ~Return(c, Err)
    <3>1. /\ pc[c] = "again" /\ pc'[c] = "resolve" /\ UNCHANGED <<target, found, todo>>
          /\ mounts' = <<nsOf[on[c]]>> \o Tail(mounts)
      BY <1>1, <1>4, <2>2 DEF RemountRoot, Remounted
    <3>2. c \in Inside /\ c \notin Entered /\ on[c] \in Threads
      BY <1>1, <3>1 DEF Inside, Entered, Threading
    <3>3. nsOf[on[c]] = RootNs
      BY <3>2, RootElsewhere
    <3>4. mounts \in Seq(Namespaces) /\ Len(mounts) = 1 /\ RootNs \in Namespaces
      BY <1>1, <3>1, ProbeAssumption DEF MountsInv, Mounted
    <3>5. <<RootNs>> \o Tail(mounts) = <<RootNs>>
      <4>1. Tail(mounts) = <<>>
        BY <3>4, RemountFacts
      <4>2. <<RootNs>> \in Seq(Namespaces)
        BY <3>4
      <4> QED
        BY <4>1, <4>2, ConcatEmptySeq
    <3>6. mounts' # <<>> /\ Head(mounts') = RootNs
      BY <3>1, <3>3, <3>5
    <3> QED
      BY <3>1, <3>6 DEF OnPath
  <2> QED
    BY <2>1, <2>2
<1> QED
  BY <1>2, <1>3, <1>4

LEMMA FollowOnPath ==
    ASSUME ProbeInv, DevicesSeen, NEW c \in Callers, OnPath(c), NEW d \in Devs, Follow(c, d)
    PROVE  OnPath(c)'
<1> USE DEF fs
<1> DEFINE p == target[c]
           ends == IF Succ(d) = {} THEN {d} ELSE {}
<1>1. /\ pc[c] = "resolve" /\ d \in todo[c] /\ mounts # <<>> /\ Head(mounts) = RootNs
      /\ UNCHANGED <<pc, target, mounts>> /\ p \in Procs /\ LocalTypes
  BY DEF Follow, OnPath, ProbeInv, PathInv, Threading
<1>2. Progress(p, found[c], todo[c])
  BY <1>1 DEF OnPath
<1>3. HasLink(d) <=> Link[d] # d
  BY <1>1, <1>2 DEF HasLink, DevicesSeen, Progress
<1>4. /\ todo'[c] = (todo[c] \ {d}) \cup Succ(d)
      /\ found'[c] = found[c] \cup ends
  BY <1>1, <1>3 DEF Follow, Take, Succ, LocalTypes
<1>5. Progress(p, found[c] \cup ends, (todo[c] \ {d}) \cup Succ(d))
  BY <1>1, <1>2, ProgressStep DEF LocalTypes
<1> QED
  BY <1>1, <1>4, <1>5 DEF OnPath

LEMMA EndOnPath ==
    ASSUME ProbeInv, NEW c \in Callers, OnPath(c),
           Resolved(c) \/ Umount(c) \/ Rmdir(c) \/ GetProcessNetNuma(c)
    PROVE  OnPath(c)'
<1> USE DEF Goto, Return, work, fs
<1>1. pc \in [Callers -> Steps] /\ LocalTypes
  BY DEF ProbeInv, PathInv, Inv
<1>2. CASE Resolved(c)
  <2>1. /\ pc[c] = "resolve" /\ pc'[c] = "umount" /\ todo[c] = {}
        /\ UNCHANGED <<target, found, todo>>
    BY <1>1, <1>2 DEF Resolved
  <2> QED
    BY <2>1 DEF OnPath
<1>3. CASE Umount(c) \/ Rmdir(c) \/ GetProcessNetNuma(c)
  <2>1. CASE \E v : Return(c, v)
    <3>1. pc'[c] = "idle" /\ found'[c] = {} /\ todo'[c] = {}
      BY <1>1, <2>1 DEF LocalTypes
    <3> QED
      BY <3>1 DEF OnPath
  <2>2. CASE ~\E v : Return(c, v)
    <3>1. /\ pc[c] \in {"umount", "rmdir"} /\ pc'[c] \in {"rmdir", "numa"}
          /\ UNCHANGED <<target, found, todo>>
      BY <1>1, <1>3, <2>2 DEF Umount, Rmdir, GetProcessNetNuma
    <3> QED
      BY <3>1 DEF OnPath
  <2> QED
    BY <2>1, <2>2
<1> QED
  BY <1>2, <1>3

\* Moves: a caller that is not in a namespace may go on anywhere
LEMMA MoveOnPath ==
    ASSUME ProbeInv, strays = 0, strays' = 0, NEW c \in Callers, OnPath(c),
           Migrate(c) \/ \E p \in Procs : Begin(c, p)
    PROVE  OnPath(c)'
<1>1. CASE Migrate(c)
  <2>1. c \notin Entered /\ UNCHANGED <<pc, target, seen, used, todo, found, mounts>>
    BY <1>1 DEF Migrate, work, fs
  <2> QED
    BY <2>1, OnPathKept
<1>2. ASSUME NEW p \in Procs, Begin(c, p) PROVE OnPath(c)'
  <2>1. pc'[c] = "mkdir" /\ found'[c] = {} /\ todo'[c] = {}
    BY <1>2 DEF Begin, Goto, work, OnPath, ProbeInv, PathInv, Inv
  <2> QED
    BY <2>1 DEF OnPath
<1> QED
  BY <1>1, <1>2

LEMMA RestartOnPath == ASSUME Restart PROVE \A c \in Callers : OnPath(c)'
<1>1. \A c \in Callers : pc'[c] = "idle" /\ found'[c] = {} /\ todo'[c] = {}
  BY DEF Restart
<1> QED
  BY <1>1 DEF OnPath

LEMMA StraysGrow ==
    ASSUME ProbeInv, [Next]_vars, strays' = 0
    PROVE  strays = 0 \/ Restart
<1> USE DEF ProbeInv, PathInv, Threading
<1>1. ASSUME NEW c \in Callers, Leave(c) \/ LeaveErr(c) \/ Migrate(c) PROVE strays = 0
  BY <1>1 DEF Leave, LeaveErr, SetRootNs, Migrate
<1>2. ASSUME NEW c \in Callers,
             \/ Mkdir(c) \/ Mount(c) \/ RemountRoot(c) \/ Umount(c) \/ Rmdir(c)
             \/ GetProcessNetNuma(c) \/ NSEnter(c) \/ RemountNs(c) \/ GetDevCache(c)
             \/ GetDevRelated(c) \/ SplitLinks(c) \/ Resolved(c) \/ \E d \in Devs : Follow(c, d)
             \/ \E p \in Procs : Begin(c, p)
      PROVE  strays = 0
  BY <1>2 DEF Mkdir, Mount, RemountRoot, Umount, Rmdir, GetProcessNetNuma, NSEnter, RemountNs,
              GetDevCache, GetDevRelated, SplitLinks, Resolved, Follow, Begin
<1>3. CASE Kill \/ \E c \in Callers : NilIrqPanic(c)
  BY <1>3 DEF Kill, NilIrqPanic
<1>4. CASE UNCHANGED vars \/ \E p \in Procs : ProcExit(p)
  BY <1>4 DEF vars, ProcExit
<1> QED
  BY <1>1, <1>2, <1>3, <1>4 DEF Next, Probe

LEMMA ExactStep == ASSUME ProbeInv, DevicesSeen, PathExact, [Next]_vars PROVE PathExact'
<1>1. SUFFICES ASSUME strays' = 0 PROVE \A c \in Callers : OnPath(c)'
  BY DEF PathExact
<1>2. CASE Restart
  BY <1>2, RestartOnPath
<1>3. SUFFICES ASSUME strays = 0, ~Restart, NEW d \in Callers PROVE OnPath(d)'
  BY <1>1, <1>2, StraysGrow
<1>4. OnPath(d)
  BY <1>3 DEF PathExact
<1>5. ASSUME NEW c \in Callers, Migrate(c) \/ (Probe(c) /\ ~NilIrqPanic(c)) \/ \E p \in Procs : Begin(c, p)
      PROVE  OnPath(d)'
  <2>1. CASE c # d
    BY <1>4, <1>5, <2>1, OthersOnPath
  <2>2. CASE c = d
    BY <1>1, <1>3, <1>4, <1>5, <2>2, MoveOnPath, EnterOnPath, FindOnPath, LeaveOnPath,
       FollowOnPath, EndOnPath DEF Probe
  <2> QED
    BY <2>1, <2>2
<1>6. CASE UNCHANGED vars \/ \E p \in Procs : ProcExit(p)
  <2>1. UNCHANGED <<pc, target, seen, used, todo, found, on, nsOf, mounts>>
    BY <1>6 DEF vars, ProcExit, work, fs
  <2> QED
    BY <1>4, <2>1, OnPathKept
<1>7. ~Kill /\ \A c \in Callers : ~NilIrqPanic(c)
  BY <1>3 DEF Kill, NilIrqPanic
<1> QED
  BY <1>5, <1>6, <1>7 DEF Next

\* On a machine whose devices are seen where they are used, a probe that no move or refusal
\* led astray finds the devices that the process's sockets lead to on the host, through any
\* links and bonds, all and only them, or none if /proc/net showed another namespace
\* (GetRealDevRelated and resolveHostDevs).
THEOREM FoundExactHolds == ASSUME DevicesSeen PROVE Spec => []FoundExact
<1>1. ASSUME Init PROVE ProbeInv /\ PathExact
  <2>1. \A c \in Callers : pc[c] = "idle" /\ found[c] = {} /\ todo[c] = {}
    BY <1>1 DEF Init
  <2> QED
    BY <1>1, <2>1, InitPath, InitTypes DEF ProbeInv, PathExact, OnPath
<1>2. (ProbeInv /\ PathExact) /\ [Next]_vars => (ProbeInv /\ PathExact)'
  <2>1. ProbeInv /\ [Next]_vars => ProbeInv'
    BY InvStep, ThreadingStep, MountsStep, SmoothStep, StrayStep, ThreadStep, LocalStep
       DEF PathInv, ProbeInv
  <2> QED
    BY <2>1, ExactStep
<1>3. ASSUME ProbeInv, PathExact PROVE FoundExact
  <2>1. SUFFICES ASSUME NEW c \in Callers, pc[c] \in {"umount", "rmdir", "numa"}, strays = 0
                 PROVE  \/ found[c] = RealDevs[target[c]]
                        \/ found[c] = {} /\ Home[target[c]] # RootNs
    BY DEF FoundExact
  <2>2. OnPath(c) /\ target[c] \in Procs
    BY <1>3, <2>1 DEF PathExact, ProbeInv, PathInv, Threading
  <2>3. /\ todo[c] = {}
        /\ Progress(target[c], found[c], todo[c]) \/ (found[c] = {} /\ Home[target[c]] # RootNs)
    BY <2>1, <2>2 DEF OnPath
  <2> QED
    BY <2>2, <2>3, ProgressEnd
<1> QED
  BY <1>1, <1>2, <1>3, PTL DEF Spec

=============================================================================
