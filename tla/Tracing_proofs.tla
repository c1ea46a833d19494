--------------------------- MODULE Tracing_proofs ---------------------------
(***************************************************************************)
(* For any threads: a tracer waits only for what comes, DoCollect returns   *)
(* with every thread released, and reads entries as entries unless a signal  *)
(* comes in between.                                                        *)
(***************************************************************************)
EXTENDS Tracing, TLAPS

(* A thread that is not attached, or has exited, shows no trace of tracing.  *)
Quiet(t) ==
    ~thread[t].attached \/ ~Live(t) =>
        thread[t].stop = "none" /\ ~thread[t].catching /\ ~thread[t].trap

(* What a tracer that has not begun, or is done, leaves.                     *)
Outside(t) ==
    /\ pc[t] \in {"idle", "seize", "done"} /\ Live(t) => ~thread[t].attached
    /\ thread[t].mode = "absent" => pc[t] = "idle" /\ t \notin todo /\ isEntry[t]
    /\ t \in todo => pc[t] = "idle"

(* The two waits that block, and what the second one achieves.               *)
Waits(t) ==
    Live(t) /\ thread[t].attached =>
        /\ pc[t] \in {"await", "await2"} => Stopped(t) \/ thread[t].trap
        /\ pc[t] = "detach2" => Stopped(t)

(* Before the loop: no stop but the one for the interrupt, in user mode.     *)
Beginning(t) ==
    /\ isEntry[t] /\ ~thread[t].catching
    /\ thread[t].stop \in {"none", "trap"}
    /\ thread[t].stop = "trap" => pc[t] = "await" /\ thread[t].mode = "user" /\ ~thread[t].trap
    /\ thread[t].trap => pc[t] = "await"

(* In the loop: the flag tells on which side of a call the thread is.        *)
Catching(t) ==
    /\ Stopped(t) /\ thread[t].stop # "signal" /\ ~thread[t].trap
    /\ isEntry[t] <=> thread[t].mode = "user"

Polling(t) ==
    /\ thread[t].catching /\ ~thread[t].trap
    /\ \/ thread[t].stop = "none" /\ (isEntry[t] <=> thread[t].mode = "user")
       \/ thread[t].stop = "entry" /\ isEntry[t] /\ thread[t].mode = "call"
       \/ thread[t].stop = "exit" /\ ~isEntry[t] /\ thread[t].mode = "user"

Phase(t) ==
    Live(t) /\ t \notin signalled =>
        /\ pc[t] \in {"idle", "seize", "interrupt", "await"} => Beginning(t)
        /\ pc[t] = "catch" => Catching(t)
        /\ pc[t] \in {"poll", "check"} => Polling(t)

Good(t) == /\ Quiet(t) /\ Outside(t) /\ Waits(t) /\ Phase(t)
           /\ t \in misread => t \in signalled

(* DoCollect: no tracer before the threads are listed, none after the wait.  *)
MainInv ==
    /\ main = "list" => \A t \in Tids : pc[t] = "idle"
    /\ main = "returned" => \A t \in Tids : pc[t] \in {"idle", "done"}

Inv == TypeOK /\ MainInv /\ \A t \in Tids : Good(t)

-----------------------------------------------------------------------------
(* What a step does to the threads it is not about: nothing.                *)

Untouched(u) ==
    /\ thread'[u] = thread[u] /\ pc'[u] = pc[u] /\ isEntry'[u] = isEntry[u]
    /\ u \in todo' => u \in todo
    /\ u \in signalled => u \in signalled'
    /\ u \in misread' => u \in misread

LEMMA UntouchedGood == ASSUME NEW u \in Tids, Good(u), Untouched(u) PROVE Good(u)'
  BY DEF Good, Quiet, Outside, Waits, Phase, Beginning, Catching, Polling, Live, Stopped, Fresh,
         Untouched

(* The kernel's steps, the tracer's and Spawn are about one thread.          *)
LEMMA OthersUntouched ==
    ASSUME TypeOK, NEW t \in Tids, NEW u \in Tids, u # t, Kernel(t) \/ ParseLoop(t) \/ Spawn(t)
    PROVE  Untouched(u)
<1> USE DEF TypeOK, Untouched
<1>1. CASE Kernel(t)
  BY <1>1 DEF Kernel, EnterCall, LeaveCall, SignalStop, TrapStop, StartThread, ExitThread, TracerExit
<1>2. CASE Seize(t) \/ Interrupt(t) \/ Await(t) \/ CatchSyscall(t) \/ PollStop(t) \/ PollExit(t)
  BY <1>2 DEF Seize, Interrupt, Await, CatchSyscall, PollStop, PollExit, Go, Reap, Resume,
              Interrupted
<1>3. CASE \/ PollNothing(t) \/ CheckStop(t) \/ Detach(t) \/ InterruptAgain(t)
           \/ AwaitAgain(t) \/ DetachAgain(t)
  BY <1>3 DEF PollNothing, CheckStop, Detach, InterruptAgain, AwaitAgain, DetachAgain, Go,
              Reap, Release, Interrupted
<1>4. CASE Spawn(t)
  BY <1>4 DEF Spawn, Go
<1> QED
  BY <1>1, <1>2, <1>3, <1>4 DEF ParseLoop

(* What a step makes of its thread is a thread.                             *)
LEMMA ThreadStep ==
    ASSUME TypeOK, NEW t \in Tids, Kernel(t) \/ ParseLoop(t)
    PROVE  thread' \in [Tids -> Thread]
<1> USE DEF TypeOK, Thread, Fresh
<1>0. ASSUME NEW r \in Thread, thread' = [thread EXCEPT ![t] = r]
      PROVE  thread' \in [Tids -> Thread]
  BY <1>0
<1>1. CASE EnterCall(t) \/ LeaveCall(t)
  <2>1. PICK m \in Running, s \in Stop :
            thread' = [thread EXCEPT ![t] = [thread[t] EXCEPT !.mode = m, !.stop = s]]
    BY <1>1 DEF EnterCall, LeaveCall, Running, Stop
  <2>2. [thread[t] EXCEPT !.mode = m, !.stop = s] \in Thread
    BY DEF Mode
  <2> QED
    BY <2>1, <2>2, <1>0
<1>2. CASE SignalStop(t) \/ TrapStop(t)
  BY <1>2 DEF SignalStop, TrapStop, Stop
<1>3. CASE StartThread(t) \/ ExitThread(t) \/ TracerExit(t)
  <2>1. \A m \in Mode, b \in BOOLEAN :
            Fresh(m) \in Thread /\ [Fresh(m) EXCEPT !.attached = b] \in Thread
    BY DEF Stop
  <2>2. {"user", "zombie", "gone"} \subseteq Mode /\ thread[t].mode \in Mode
        /\ thread[t].attached \in BOOLEAN
    BY DEF Mode, Running
  <2>3. CASE StartThread(t)
    <3>1. thread' = [thread EXCEPT ![t] = Fresh("user")]
      BY <2>3 DEF StartThread
    <3> QED
      BY ONLY <2>1, <2>2, <3>1, <1>0
  <2>4. CASE ExitThread(t)
    <3>1. Remains(t) \in Thread
      BY <2>1, <2>2 DEF Remains
    <3> QED
      BY <2>4, <3>1, <1>0 DEF ExitThread
  <2>5. CASE TracerExit(t)
    <3>1. Fresh(IF Live(t) THEN thread[t].mode ELSE "gone") \in Thread
      BY <2>1, <2>2
    <3> QED
      BY <2>5, <3>1, <1>0 DEF TracerExit
  <2> QED
    BY <1>3, <2>3, <2>4, <2>5
<1>4. Reap(t) => thread' \in [Tids -> Thread]
  BY DEF Reap, Mode, Stop
<1>5. Resume(t) \/ Release(t) => thread' \in [Tids -> Thread]
  <2>1. [thread[t] EXCEPT !.stop = "none", !.catching = TRUE] \in Thread
    BY DEF Stop
  <2>2. Fresh(thread[t].mode) \in Thread
    BY DEF Stop
  <2> QED
    BY <1>0, <2>1, <2>2 DEF Resume, Release
<1>6. Interrupted(t) => thread' \in [Tids -> Thread]
  <2>1. [thread[t] EXCEPT !.trap = TRUE] \in Thread
    OBVIOUS
  <2> QED
    BY <1>0, <2>1 DEF Interrupted
<1>7. CASE Seize(t)
  <2>1. [thread[t] EXCEPT !.attached = TRUE] \in Thread
    OBVIOUS
  <2>2. thread' = thread \/ thread' = [thread EXCEPT ![t] = [thread[t] EXCEPT !.attached = TRUE]]
    BY <1>7 DEF Seize
  <2> QED
    BY <1>0, <2>1, <2>2
<1>8. CASE ParseLoop(t) /\ ~Seize(t)
  <2>1. UNCHANGED thread \/ Reap(t) \/ Resume(t) \/ Release(t) \/ Interrupted(t)
    BY <1>8 DEF ParseLoop, Interrupt, Await, CatchSyscall, PollStop, PollExit, PollNothing,
                CheckStop, Detach, InterruptAgain, AwaitAgain, DetachAgain
  <2> QED
    BY <2>1, <1>4, <1>5, <1>6
<1> QED
  BY <1>1, <1>2, <1>3, <1>7, <1>8 DEF Kernel

(* The types, action by action.                                             *)
LEMMA TypeStep == ASSUME TypeOK, [Next]_vars PROVE TypeOK'
<1> USE DEF TypeOK
<1>1. ASSUME NEW t \in Tids, Kernel(t)
      PROVE  TypeOK'
  BY <1>1, ThreadStep DEF Kernel, EnterCall, LeaveCall, SignalStop, TrapStop, StartThread,
                          ExitThread, TracerExit
<1>2. ASSUME NEW t \in Tids, ParseLoop(t)
      PROVE  TypeOK'
  <2>1. thread' \in [Tids -> Thread]
    BY <1>2, ThreadStep
  <2>2. CASE Seize(t) \/ Interrupt(t) \/ Await(t) \/ CatchSyscall(t)
    BY <2>1, <2>2 DEF Seize, Interrupt, Await, CatchSyscall, Go, Pc
  <2>3. CASE PollStop(t) \/ PollExit(t) \/ PollNothing(t) \/ CheckStop(t)
    BY <2>1, <2>3 DEF PollStop, PollExit, PollNothing, CheckStop, Go, Pc
  <2>4. CASE Detach(t) \/ InterruptAgain(t) \/ AwaitAgain(t) \/ DetachAgain(t)
    BY <2>1, <2>4 DEF Detach, InterruptAgain, AwaitAgain, DetachAgain, Go, Pc
  <2> QED
    BY <1>2, <2>2, <2>3, <2>4 DEF ParseLoop
<1>3. CASE DoCollect
  BY <1>3 DEF DoCollect, ReadDir, Spawn, Sleep, CloseStop, WaitAll, Main, Go, Pc
<1>4. CASE ExitProcess
  BY <1>4 DEF ExitProcess, Remains, Thread, Fresh, Mode, Stop
<1>5. CASE UNCHANGED vars
  BY <1>5 DEF vars
<1> QED
  BY <1>1, <1>2, <1>3, <1>4, <1>5 DEF Next

-----------------------------------------------------------------------------
(* What a step does to the thread it is about.                              *)

LEMMA KernelGood == ASSUME TypeOK, NEW t \in Tids, Good(t), Kernel(t) PROVE Good(t)'
<1> USE DEF TypeOK, Thread, Good, Quiet, Outside, Waits, Phase, Beginning, Catching, Polling,
            Live, Runs, Stopped, Fresh, Running
<1>1. CASE EnterCall(t)
  BY <1>1 DEF EnterCall
<1>2. CASE LeaveCall(t)
  BY <1>2 DEF LeaveCall
<1>3. CASE SignalStop(t)
  BY <1>3 DEF SignalStop
<1>4. CASE TrapStop(t)
  BY <1>4 DEF TrapStop
<1>5. CASE StartThread(t)
  BY <1>5 DEF StartThread
<1>6. CASE ExitThread(t)
  BY <1>6 DEF ExitThread, Remains
<1>7. CASE TracerExit(t)
  BY <1>7 DEF TracerExit
<1> QED
  BY <1>1, <1>2, <1>3, <1>4, <1>5, <1>6, <1>7 DEF Kernel

LEMMA ParseLoopGood == ASSUME TypeOK, NEW t \in Tids, Good(t), ParseLoop(t) PROVE Good(t)'
<1> USE DEF TypeOK, Thread, Good, Quiet, Outside, Waits, Phase, Beginning, Catching, Polling,
            Live, Stopped, Fresh, Running, Go, Reapable, Reap, Resume, Release, Interrupted
<1>1. CASE Seize(t)
  BY <1>1 DEF Seize
<1>2. CASE Interrupt(t)
  BY <1>2 DEF Interrupt
<1>3. CASE Await(t)
  BY <1>3 DEF Await
<1>4. CASE CatchSyscall(t)
  BY <1>4 DEF CatchSyscall
<1>5. CASE PollStop(t)
  BY <1>5 DEF PollStop
<1>6. CASE PollExit(t)
  BY <1>6 DEF PollExit
<1>7. CASE PollNothing(t) \/ CheckStop(t)
  BY <1>7 DEF PollNothing, CheckStop
<1>8. CASE Detach(t)
  BY <1>8 DEF Detach
<1>9. CASE InterruptAgain(t)
  BY <1>9 DEF InterruptAgain
<1>10. CASE AwaitAgain(t)
  BY <1>10 DEF AwaitAgain
<1>11. CASE DetachAgain(t)
  BY <1>11 DEF DetachAgain
<1> QED
  BY <1>1, <1>2, <1>3, <1>4, <1>5, <1>6, <1>7, <1>8, <1>9, <1>10, <1>11 DEF ParseLoop

LEMMA SpawnGood == ASSUME TypeOK, NEW t \in Tids, Good(t), Spawn(t) PROVE Good(t)'
  BY DEF Spawn, Go, TypeOK, Good, Quiet, Outside, Waits, Phase, Beginning, Catching, Polling,
         Live, Stopped, Fresh, Running

(* The steps that are about all threads or none.                            *)
LEMMA ExitProcessGood == ASSUME TypeOK, NEW u \in Tids, Good(u), ExitProcess PROVE Good(u)'
  BY DEF ExitProcess, Remains, TypeOK, Thread, Good, Quiet, Outside, Waits, Phase, Live,
         Stopped, Fresh, Running

LEMMA MainGood ==
    ASSUME TypeOK, MainInv, NEW u \in Tids, Good(u), ReadDir \/ Sleep \/ CloseStop \/ WaitAll
    PROVE  Good(u)'
<1>1. CASE ReadDir
  BY <1>1 DEF ReadDir, MainInv, TypeOK, Good, Quiet, Outside, Waits, Phase, Beginning, Catching,
              Polling, Live, Stopped, Fresh
<1>2. CASE Sleep \/ CloseStop \/ WaitAll
  BY <1>2, UntouchedGood DEF Sleep, CloseStop, WaitAll, Main, Untouched
<1> QED
  BY <1>1, <1>2

LEMMA MainStep == ASSUME Inv, [Next]_vars PROVE MainInv'
<1> USE DEF Inv, MainInv, TypeOK
<1>1. ASSUME NEW t \in Tids, Kernel(t)
      PROVE  MainInv'
  BY <1>1 DEF Kernel, EnterCall, LeaveCall, SignalStop, TrapStop, StartThread, ExitThread, TracerExit
<1>2. ASSUME NEW t \in Tids, ParseLoop(t)
      PROVE  MainInv'
  <2>1. pc[t] \notin {"idle", "done"} /\ main' = main
    BY <1>2 DEF ParseLoop, Seize, Interrupt, Await, CatchSyscall, PollStop, PollExit,
                PollNothing, CheckStop, Detach, InterruptAgain, AwaitAgain, DetachAgain
  <2> QED
    BY <2>1
<1>3. CASE DoCollect
  BY <1>3 DEF DoCollect, ReadDir, Spawn, Sleep, CloseStop, WaitAll, Main, Go
<1>4. CASE ExitProcess \/ UNCHANGED vars
  BY <1>4 DEF ExitProcess, vars
<1> QED
  BY <1>1, <1>2, <1>3, <1>4 DEF Next

LEMMA InitInv == Init => Inv
<1> SUFFICES ASSUME Init PROVE Inv
  OBVIOUS
<1> USE DEF Init, Fresh, Running
<1>1. TypeOK
  <2>1. \A m \in Running \cup {"absent"} : Fresh(m) \in Thread
    BY DEF Thread, Mode, Stop
  <2>2. {Fresh(m) : m \in Running \cup {"absent"}} \subseteq Thread
    BY <2>1
  <2>3. thread \in [Tids -> {Fresh(m) : m \in Running \cup {"absent"}}]
    OBVIOUS
  <2>4. thread \in [Tids -> Thread]
    BY ONLY <2>2, <2>3
  <2> QED
    BY <2>4 DEF TypeOK, Pc
<1>2. ASSUME NEW t \in Tids PROVE Good(t)
  <2>1. PICK m \in Running \cup {"absent"} : thread[t] = Fresh(m)
    OBVIOUS
  <2> QED
    BY <2>1 DEF Good, Quiet, Outside, Waits, Phase, Beginning, Catching, Polling, Live, Stopped
<1> QED
  BY <1>1, <1>2 DEF Inv, MainInv

LEMMA NextInv == ASSUME Inv, [Next]_vars PROVE Inv'
<1>1. TypeOK' /\ MainInv'
  BY TypeStep, MainStep DEF Inv
<1>2. ASSUME NEW u \in Tids PROVE Good(u)'
  <2>1. ASSUME NEW t \in Tids, Kernel(t) \/ ParseLoop(t) \/ Spawn(t)
        PROVE  Good(u)'
    <3>1. CASE u = t
      BY <2>1, <3>1, KernelGood, ParseLoopGood, SpawnGood DEF Inv
    <3>2. CASE u # t
      BY <2>1, <3>2, OthersUntouched, UntouchedGood DEF Inv
    <3> QED
      BY <3>1, <3>2
  <2>2. CASE ReadDir \/ Sleep \/ CloseStop \/ WaitAll
    BY <2>2, MainGood DEF Inv
  <2>3. CASE ExitProcess
    BY <2>3, ExitProcessGood DEF Inv
  <2>4. CASE UNCHANGED vars
    BY <2>4, UntouchedGood DEF Inv, vars, Untouched
  <2> QED
    BY <2>1, <2>2, <2>3, <2>4 DEF Next, DoCollect
<1> QED
  BY <1>1, <1>2 DEF Inv

-----------------------------------------------------------------------------
(* The theorems.                                                            *)

(* Tracing keeps its invariant, from which the others follow.                *)
THEOREM TracingInvariance == Spec => []Inv
  BY InitInv, NextInv, PTL DEF Spec

(* The threads, the tracers and DoCollect keep their types.                 *)
THEOREM TracingTypeCorrect == Spec => []TypeOK
<1>1. Inv => TypeOK
  BY DEF Inv
<1> QED
  BY <1>1, TracingInvariance, PTL

(* When DoCollect returns, every thread that lives is as if it had never been *)
(* traced, whatever way its tracer left the loop and whatever it did since.   *)
THEOREM ReleasedHolds == Spec => []Released
<1>1. Inv => Released
  BY DEF Inv, MainInv, TypeOK, Thread, Good, Quiet, Outside, Released, Live, Fresh
<1> QED
  BY <1>1, TracingInvariance, PTL

(* The two blocking waits of ParseLoop are for a thread that has stopped or  *)
(* will, unless it has exited.                                              *)
THEOREM WaitsForEventHolds == Spec => []WaitsForEvent
<1>1. Inv => WaitsForEvent
  BY DEF Inv, Good, Waits, WaitsForEvent
<1> QED
  BY <1>1, TracingInvariance, PTL

(* ParseLoop's flag, which it flips at every stop, is right about every       *)
(* thread that no signal has stopped.                                       *)
THEOREM PhaseKeptHolds == Spec => []PhaseKept
<1>1. Inv => PhaseKept
  BY DEF Inv, TypeOK, Good, PhaseKept
<1> QED
  BY <1>1, TracingInvariance, PTL
=============================================================================
