------------------------------ MODULE Tracing ------------------------------
(***************************************************************************)
(* One DoCollect of src/common/ptrace: a tracer goroutine (ParseLoop) per   *)
(* thread of the traced process, the channel that stops them, and what the  *)
(* kernel does with a traced thread.                                        *)
(*                                                                         *)
(* A thread that is attached stops at the entry and the exit of a system    *)
(* call (if it was resumed by CatchSyscall), when a signal is delivered,     *)
(* and, some time after an Interrupt, for that.  Requests but Interrupt need *)
(* a stopped thread.  A traced thread that exits stays a zombie until its    *)
(* tracer waits for it, and the leader's zombie cannot be waited for while   *)
(* the process has other threads.                                            *)
(*                                                                         *)
(* Which system call a stop is at, and what is counted of it, is abstracted  *)
(* to whether a record is made at the entry of a call.                       *)
(***************************************************************************)
EXTENDS FiniteSets

CONSTANTS Tids,     \* the threads the process has or may start
          Leader    \* the thread whose tid is the pid

ASSUME TracingAssumption == Leader \in Tids

VARIABLES
    thread,     \* tid -> what the kernel knows of the thread
    main,       \* where DoCollect is; stopCh is closed from "wait" on
    todo,       \* the tids of ReadDir that DoCollect has still to visit
    pc,         \* tid -> where its ParseLoop is
    isEntry,    \* tid -> the tracer takes the next stop for an entry
    signalled,  \* history: the threads that stopped for a signal while traced
    misread     \* history: the threads of which a record was made elsewhere
                \* than at the entry of a call

vars == <<thread, main, todo, pc, isEntry, signalled, misread>>

Running == {"user", "call"}
Mode == Running \cup {"absent", "zombie", "gone"}
Stop == {"none", "entry", "exit", "signal", "trap"}
Pc == {"idle", "seize", "interrupt", "await", "catch", "poll", "check",
       "detach", "interrupt2", "await2", "detach2", "done"}

Thread == [mode : Mode, stop : Stop, attached : BOOLEAN,
           catching : BOOLEAN,  \* resumed by PTRACE_SYSCALL
           trap : BOOLEAN]      \* an Interrupt that has not stopped it yet

Fresh(m) == [mode |-> m, stop |-> "none", attached |-> FALSE,
             catching |-> FALSE, trap |-> FALSE]

TypeOK ==
    /\ thread \in [Tids -> Thread]
    /\ main \in {"list", "spawn", "sleep", "wait", "returned"}
    /\ todo \subseteq Tids
    /\ pc \in [Tids -> Pc]
    /\ isEntry \in [Tids -> BOOLEAN]
    /\ signalled \subseteq Tids
    /\ misread \subseteq Tids

Init ==
    /\ thread \in [Tids -> {Fresh(m) : m \in Running \cup {"absent"}}]
    /\ thread[Leader].mode \in Running
    /\ main = "list"
    /\ todo = {}
    /\ pc = [t \in Tids |-> "idle"]
    /\ isEntry = [t \in Tids |-> TRUE]
    /\ signalled = {}
    /\ misread = {}

-----------------------------------------------------------------------------
(* The threads of the process, and the kernel.                              *)

Live(t) == thread[t].mode \in Running
Runs(t) == Live(t) /\ thread[t].stop = "none"
Stopped(t) == thread[t].stop # "none"

EnterCall(t) ==
    /\ Runs(t) /\ thread[t].mode = "user"
    /\ thread' = [thread EXCEPT ![t].mode = "call",
                                ![t].stop = IF thread[t].catching THEN "entry" ELSE "none"]
    /\ UNCHANGED <<main, todo, pc, isEntry, signalled, misread>>

(* An interrupted call returns too, before the thread stops for it.         *)
LeaveCall(t) ==
    /\ Runs(t) /\ thread[t].mode = "call"
    /\ thread' = [thread EXCEPT ![t].mode = "user",
                                ![t].stop = IF thread[t].catching THEN "exit" ELSE "none"]
    /\ UNCHANGED <<main, todo, pc, isEntry, signalled, misread>>

SignalStop(t) ==
    /\ Runs(t) /\ thread[t].mode = "user" /\ thread[t].attached
    /\ thread' = [thread EXCEPT ![t].stop = "signal"]
    /\ signalled' = signalled \cup {t}
    /\ UNCHANGED <<main, todo, pc, isEntry, misread>>

TrapStop(t) ==
    /\ Runs(t) /\ thread[t].mode = "user" /\ thread[t].trap
    /\ thread' = [thread EXCEPT ![t].stop = "trap", ![t].trap = FALSE]
    /\ UNCHANGED <<main, todo, pc, isEntry, signalled, misread>>

StartThread(t) ==
    /\ thread[t].mode = "absent"
    /\ \E u \in Tids : Runs(u)
    /\ thread' = [thread EXCEPT ![t] = Fresh("user")]
    /\ UNCHANGED <<main, todo, pc, isEntry, signalled, misread>>

(* What is left of a thread that exits.                                     *)
Remains(t) ==
    IF thread[t].attached \/ t = Leader
    THEN [Fresh("zombie") EXCEPT !.attached = thread[t].attached]
    ELSE Fresh("gone")

ExitThread(t) ==
    /\ Runs(t)
    /\ thread' = [thread EXCEPT ![t] = Remains(t)]
    /\ UNCHANGED <<main, todo, pc, isEntry, signalled, misread>>

(* exit_group or SIGKILL, which ends stopped threads too.                   *)
ExitProcess ==
    /\ \E t \in Tids : Live(t)
    /\ thread' = [t \in Tids |-> IF Live(t) THEN Remains(t)
                                 ELSE IF thread[t].mode = "absent" THEN Fresh("gone")
                                 ELSE thread[t]]
    /\ UNCHANGED <<main, todo, pc, isEntry, signalled, misread>>

(* The tracer's OS thread ends with its goroutine, which is locked to it.   *)
TracerExit(t) ==
    /\ pc[t] = "done" /\ thread[t].attached
    /\ thread' = [thread EXCEPT ![t] = Fresh(IF Live(t) THEN @.mode ELSE "gone")]
    /\ UNCHANGED <<main, todo, pc, isEntry, signalled, misread>>

Kernel(t) == EnterCall(t) \/ LeaveCall(t) \/ SignalStop(t) \/ TrapStop(t)
             \/ StartThread(t) \/ ExitThread(t) \/ TracerExit(t)

-----------------------------------------------------------------------------
(* What the system calls of the tracer do.                                  *)

Go(t, p) == pc' = [pc EXCEPT ![t] = p]

(* The zombie of the leader is held back while other threads are there.     *)
Reapable(t) ==
    /\ thread[t].mode = "zombie"
    /\ t = Leader => \A u \in Tids \ {t} : thread[u].mode \in {"absent", "gone"}

Reap(t) == thread' = [thread EXCEPT ![t] = Fresh("gone")]

Resume(t) == thread' = [thread EXCEPT ![t].stop = "none", ![t].catching = TRUE]

Release(t) == thread' = [thread EXCEPT ![t] = Fresh(@.mode)]

Interrupted(t) ==
    thread' = IF thread[t].attached /\ Live(t)
              THEN [thread EXCEPT ![t].trap = TRUE] ELSE thread

-----------------------------------------------------------------------------
(* ParseLoop.                                                               *)

(* A zombie cannot be seized; a live thread may be refused, as when another *)
(* process traces it.                                                       *)
Seize(t) ==
    /\ pc[t] = "seize"
    /\ \/ /\ Live(t)
          /\ thread' = [thread EXCEPT ![t].attached = TRUE]
          /\ Go(t, "interrupt")
       \/ /\ Go(t, "done")
          /\ UNCHANGED thread
    /\ UNCHANGED <<main, todo, isEntry, signalled, misread>>

Interrupt(t) ==
    /\ pc[t] = "interrupt"
    /\ Interrupted(t)
    /\ Go(t, IF Live(t) THEN "await" ELSE "detach")
    /\ UNCHANGED <<main, todo, isEntry, signalled, misread>>

(* The first wait blocks.  An exit ends the tracer; an end by a signal has   *)
(* it wait once more, and the error of that wait reads as an exit.           *)
Await(t) ==
    /\ pc[t] = "await"
    /\ \/ Stopped(t) /\ Go(t, "catch") /\ UNCHANGED thread
       \/ Reapable(t) /\ Reap(t) /\ pc' \in {[pc EXCEPT ![t] = p] : p \in {"done", "await"}}
       \/ ~thread[t].attached /\ Go(t, "done") /\ UNCHANGED thread
    /\ UNCHANGED <<main, todo, isEntry, signalled, misread>>

CatchSyscall(t) ==
    /\ pc[t] = "catch"
    /\ \/ Stopped(t) /\ Resume(t) /\ Go(t, "poll")
       \/ ~Stopped(t) /\ Go(t, "detach") /\ UNCHANGED thread
    /\ UNCHANGED <<main, todo, isEntry, signalled, misread>>

(* mutant: the poll takes the first stop for an exit, as if Interrupt had    *)
(* stopped the thread inside a call                                          *)
PollStopFlipped(t) ==
    /\ pc[t] = "poll" /\ Stopped(t)
    /\ isEntry' = [isEntry EXCEPT ![t] = ~@]
    /\ misread' = IF ~isEntry[t] /\ thread[t].stop # "entry"
                  THEN misread \cup {t} ELSE misread
    /\ Go(t, "catch")
    /\ UNCHANGED <<thread, main, todo, signalled>>

(* Any stop is taken for an entry and an exit by turns.                     *)
PollStop(t) ==
    /\ pc[t] = "poll" /\ Stopped(t)
    /\ isEntry' = [isEntry EXCEPT ![t] = ~@]
    /\ misread' = IF isEntry[t] /\ thread[t].stop # "entry"
                  THEN misread \cup {t} ELSE misread
    /\ Go(t, "catch")
    /\ UNCHANGED <<thread, main, todo, signalled>>

PollExit(t) ==
    /\ pc[t] = "poll" /\ thread[t].attached /\ Reapable(t)
    /\ Reap(t)
    /\ pc' \in {[pc EXCEPT ![t] = p] : p \in {"done", "check"}}
    /\ UNCHANGED <<main, todo, isEntry, signalled, misread>>

PollNothing(t) ==
    /\ pc[t] = "poll" /\ ~Stopped(t) /\ ~(thread[t].attached /\ Reapable(t))
    /\ Go(t, "check")
    /\ UNCHANGED <<thread, main, todo, isEntry, signalled, misread>>

StopClosed == main \in {"wait", "returned"}

(* mutant: the channel is looked at only when the thread is gone             *)
CheckStopOfGone(t) ==
    /\ pc[t] = "check"
    /\ Go(t, IF StopClosed /\ ~Live(t) THEN "detach" ELSE "poll")
    /\ UNCHANGED <<thread, main, todo, isEntry, signalled, misread>>

CheckStop(t) ==
    /\ pc[t] = "check"
    /\ Go(t, IF StopClosed THEN "detach" ELSE "poll")
    /\ UNCHANGED <<thread, main, todo, isEntry, signalled, misread>>

(* mutant: no second attempt when the running thread cannot be detached      *)
DetachOnce(t) ==
    /\ pc[t] = "detach"
    /\ IF Stopped(t) THEN Release(t) ELSE UNCHANGED thread
    /\ Go(t, "done")
    /\ UNCHANGED <<main, todo, isEntry, signalled, misread>>

Detach(t) ==
    /\ pc[t] = "detach"
    /\ \/ Stopped(t) /\ Release(t) /\ Go(t, "done")
       \/ ~Stopped(t) /\ Go(t, "interrupt2") /\ UNCHANGED thread
    /\ UNCHANGED <<main, todo, isEntry, signalled, misread>>

(* mutant: the thread is waited for without the interrupt before             *)
NoInterruptAgain(t) ==
    /\ pc[t] = "interrupt2"
    /\ Go(t, "await2")
    /\ UNCHANGED <<thread, main, todo, isEntry, signalled, misread>>

InterruptAgain(t) ==
    /\ pc[t] = "interrupt2"
    /\ Interrupted(t)
    /\ Go(t, "await2")
    /\ UNCHANGED <<main, todo, isEntry, signalled, misread>>

AwaitAgain(t) ==
    /\ pc[t] = "await2"
    /\ \/ (Stopped(t) \/ ~thread[t].attached) /\ UNCHANGED thread
       \/ thread[t].attached /\ Reapable(t) /\ Reap(t)
    /\ Go(t, "detach2")
    /\ UNCHANGED <<main, todo, isEntry, signalled, misread>>

DetachAgain(t) ==
    /\ pc[t] = "detach2"
    /\ IF Stopped(t) THEN Release(t) ELSE UNCHANGED thread
    /\ Go(t, "done")
    /\ UNCHANGED <<main, todo, isEntry, signalled, misread>>

ParseLoop(t) ==
    Seize(t) \/ Interrupt(t) \/ Await(t) \/ CatchSyscall(t) \/ PollStop(t) \/ PollExit(t)
    \/ PollNothing(t) \/ CheckStop(t) \/ Detach(t) \/ InterruptAgain(t) \/ AwaitAgain(t)
    \/ DetachAgain(t)

-----------------------------------------------------------------------------
(* DoCollect.                                                               *)

(* ReadDir: a thread that starts later is not traced.                       *)
ReadDir ==
    /\ main = "list"
    /\ \/ /\ todo' = {t \in Tids : thread[t].mode \notin {"absent", "gone"}}
          /\ main' = "spawn"
       \/ /\ \A t \in Tids : ~Live(t)
          /\ main' = "returned"
          /\ UNCHANGED todo
    /\ UNCHANGED <<thread, pc, isEntry, signalled, misread>>

(* mutant: a thread that is gone gets a tracer that never begins             *)
SpawnOfGone(t) ==
    /\ main = "spawn" /\ t \in todo
    /\ todo' = todo \ {t}
    /\ Go(t, IF thread[t].mode = "gone" THEN "stale" ELSE "seize")
    /\ UNCHANGED <<thread, main, isEntry, signalled, misread>>

Spawn(t) ==
    /\ main = "spawn" /\ t \in todo
    /\ todo' = todo \ {t}
    /\ IF thread[t].mode = "gone" THEN UNCHANGED pc ELSE Go(t, "seize")
    /\ UNCHANGED <<thread, main, isEntry, signalled, misread>>

Main(from, to) ==
    /\ main = from
    /\ main' = to
    /\ UNCHANGED <<thread, todo, pc, isEntry, signalled, misread>>

Sleep == todo = {} /\ Main("spawn", "sleep")
CloseStop == Main("sleep", "wait")
WaitAll == (\A t \in Tids : pc[t] \in {"idle", "done"}) /\ Main("wait", "returned")

DoCollect == ReadDir \/ (\E t \in Tids : Spawn(t)) \/ Sleep \/ CloseStop \/ WaitAll

Next == DoCollect \/ ExitProcess \/ (\E t \in Tids : ParseLoop(t) \/ Kernel(t))

Spec == Init /\ [][Next]_vars

(* The Go scheduler runs DoCollect and every tracer.  A poll is now and then *)
(* ahead of the thread's next stop.  An interrupted thread comes back from a *)
(* call and stops.  Nothing else the traced process does is fair.            *)
FairSpec ==
    /\ Spec
    /\ WF_vars(DoCollect)
    /\ \A t \in Tids : /\ WF_vars(ParseLoop(t))
                       /\ SF_vars(PollNothing(t))
                       /\ WF_vars(thread[t].trap /\ LeaveCall(t))
                       /\ SF_vars(TrapStop(t))

-----------------------------------------------------------------------------
(* Properties.                                                              *)

(* Released: when DoCollect returns, no thread that lives is attached,       *)
(* stopped or about to be, whatever path its tracer took out of the loop     *)
(* (the label out in ParseLoop).                                             *)
Released == main = "returned" => \A t \in Tids : Live(t) => thread[t] = Fresh(thread[t].mode)

(* WaitsForEvent: a tracer that waits with no way to be stopped (the two     *)
(* Wait4 calls with WALL only) waits for a thread that is stopped or will be. *)
WaitsForEvent ==
    \A t \in Tids : pc[t] \in {"await", "await2"} /\ thread[t].attached /\ Live(t)
                    => Stopped(t) \/ thread[t].trap

(* PhaseKept: as long as no signal stops a thread, what is recorded of it    *)
(* are entries of calls, although ParseLoop counts stops and never looks at  *)
(* what a stop is for.                                                       *)
PhaseKept == misread \subseteq signalled

(* HeldLeader: the leader has exited under its tracer, and the kernel does   *)
(* not report it while other threads of the process live.                    *)
HeldLeader == /\ thread[Leader].attached /\ thread[Leader].mode = "zombie"
              /\ ~Reapable(Leader)

(* TracingEnds: once all tracers run DoCollect returns, with busy, idle,     *)
(* blocked, signalled and exiting threads, unless a leader's zombie is held  *)
(* back for ever.                                                            *)
TracingEnds == []<>~HeldLeader => (main = "sleep" ~> main = "returned")

(* EndsAfterTimeout: DoCollect collects "during timeout time" and returns.   *)
EndsAfterTimeout == main = "sleep" ~> main = "returned"
=============================================================================
