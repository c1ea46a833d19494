---------------------------- MODULE ScanControl ----------------------------
(***************************************************************************)
(* The daemon's requests and scan loops, cmd/wisdomd.  gRPC runs each      *)
(* request in a goroutine of its own; a scan is a loop with a ticker that  *)
(* the handler leaves behind.  One switch, block.ptraceScanSwitch, tells   *)
(* both whether a scan may be started and whether a loop goes on, and one  *)
(* flag, affinityAware, tells every pass which of two policies it runs.    *)
(* A step makes at most one access to the shared state.                    *)
(***************************************************************************)
EXTENDS Integers, FiniteSets

CONSTANTS
    Calls,      \* the requests that are made, each once
    Requests,   \* what they may ask: [op, period, list]
    MaxPeriod,  \* maxPeriod
    MaxBoots    \* bound on how often the daemon is started

Ops == {"auto", "group", "user", "start", "stop"}

ASSUME ScanAssumption ==
    /\ IsFiniteSet(Calls)
    /\ Requests \subseteq [op : Ops, period : Nat, list : {"ok", "bad"}]
    /\ MaxPeriod \in Nat \ {0} /\ MaxBoots \in Nat \ {0}

VARIABLES
    daemon,         \* "up" or "down"
    sock,           \* /var/run/wisdom.sock exists
    switch,         \* block.ptraceScanSwitch
    affinityAware,  \* policy.affinityAware
    call,           \* where each request's handler is
    req,            \* what it asks
    ack,            \* what it was answered
    loop,           \* the scan loop each request left behind
    boots,          \* how often the daemon was started
    stops, overlaps     \* history: requests to stop, starts that overlapped

shared  == <<switch, affinityAware>>
history == <<stops, overlaps>>
vars == <<daemon, sock, shared, call, req, ack, loop, boots, history>>

LoopStates == {"waiting", "balance", "trace", "userbind"}
Live == {c \in Calls : loop[c] \in LoopStates}

\* Handlers of a start request that passed the check and have not set the switch
Starting == {c \in Calls : call[c] \in {"setup", "switch"}}

Init ==
    /\ daemon = "down" /\ sock = FALSE /\ boots = 0
    /\ switch = FALSE /\ affinityAware = FALSE
    /\ call = [c \in Calls |-> "new"]
    /\ req \in [Calls -> Requests]
    /\ ack = [c \in Calls |-> "none"]
    /\ loop = [c \in Calls |-> "none"]
    /\ stops = 0 /\ overlaps = 0

-----------------------------------------------------------------------------
(* The daemon process *)

\* listenUnixSock refuses to start while the socket file exists
Boot ==
    /\ daemon = "down" /\ ~sock /\ boots < MaxBoots
    /\ daemon' = "up" /\ sock' = TRUE /\ boots' = boots + 1
    /\ UNCHANGED <<shared, call, req, ack, loop, history>>

\* The process ends: its globals, its handlers and its loops are gone
ProcessGone ==
    /\ daemon' = "down"
    /\ switch' = FALSE /\ affinityAware' = FALSE
    /\ loop' = [c \in Calls |-> IF loop[c] = "none" THEN "none" ELSE "killed"]
    /\ call' = [c \in Calls |-> IF call[c] = "new" THEN "new" ELSE "done"]
    /\ UNCHANGED <<req, ack, boots>>

\* A signal: runWisdomd closes the listener, which removes the socket file
Quit ==
    /\ daemon = "up"
    /\ ProcessGone /\ sock' = FALSE
    /\ stops' = 0 /\ overlaps' = 0

-----------------------------------------------------------------------------
(* The handlers *)

Goto(c, where) == call' = [call EXCEPT ![c] = where]

Answer(c, status) == Goto(c, "done") /\ ack' = [ack EXCEPT ![c] = status]

\* A request arrives
Begin(c) ==
    /\ daemon = "up" /\ call[c] = "new"
    /\ Goto(c, CASE req[c].op \in {"auto", "group"} -> "check"
                 [] req[c].op = "user" -> "mode"
                 [] OTHER -> "set")
    /\ UNCHANGED <<daemon, sock, shared, req, ack, loop, boots, history>>

\* mutant: the switch is not looked at
CheckPeriodOnly(c) ==
    /\ call[c] = "check"
    /\ \/ req[c].period > MaxPeriod /\ Answer(c, "period") /\ UNCHANGED overlaps
       \/ /\ req[c].period <= MaxPeriod
          /\ Goto(c, "setup") /\ UNCHANGED ack
          /\ overlaps' = IF Starting = {} THEN overlaps ELSE overlaps + 1
    /\ UNCHANGED <<daemon, sock, shared, req, loop, boots, stops>>

\* ShouldStartPtraceScan, and the period's upper bound
Check(c) ==
    /\ call[c] = "check"
    /\ \/ switch /\ Answer(c, "running") /\ UNCHANGED overlaps
       \/ ~switch /\ req[c].period > MaxPeriod /\ Answer(c, "period") /\ UNCHANGED overlaps
       \/ /\ ~switch /\ req[c].period <= MaxPeriod
          /\ Goto(c, "setup") /\ UNCHANGED ack
          /\ overlaps' = IF Starting = {} THEN overlaps ELSE overlaps + 1
    /\ UNCHANGED <<daemon, sock, shared, req, loop, boots, stops>>

\* SwitchAffinityAware(true) by an automatic request, then NewTicker
Setup(c) ==
    /\ call[c] = "setup" /\ req[c].period > 0
    /\ affinityAware' = (affinityAware \/ req[c].op = "auto")
    /\ Goto(c, "switch")
    /\ UNCHANGED <<daemon, sock, switch, req, ack, loop, boots, history>>

\* NewTicker panics on a zero period: the process dies and leaves the socket
TickerPanic(c) ==
    /\ call[c] = "setup" /\ req[c].period = 0
    /\ ProcessGone
    /\ UNCHANGED <<sock, history>>

SwitchOn(c) ==
    /\ call[c] = "switch"
    /\ switch' = TRUE
    /\ Goto(c, "spawn")
    /\ UNCHANGED <<daemon, sock, affinityAware, req, ack, loop, boots, history>>

\* The CPU lists are parsed once the switch is on; bad ones end the handler
BadList(c) ==
    /\ call[c] = "spawn" /\ req[c].op = "group" /\ req[c].list = "bad"
    /\ Answer(c, "list")
    /\ UNCHANGED <<daemon, sock, shared, req, loop, boots, history>>

\* mutant: the loop is started with bad lists too
SpawnAnyway(c) ==
    /\ call[c] = "spawn"
    /\ loop' = [loop EXCEPT ![c] = "waiting"]
    /\ Answer(c, IF req[c].list = "bad" THEN "list" ELSE "OK")
    /\ UNCHANGED <<daemon, sock, shared, req, boots, history>>

Spawn(c) ==
    /\ call[c] = "spawn" /\ ~(req[c].op = "group" /\ req[c].list = "bad")
    /\ loop' = [loop EXCEPT ![c] = "waiting"]
    /\ Answer(c, "OK")
    /\ UNCHANGED <<daemon, sock, shared, req, boots, history>>

\* SetScan
SetScan(c) ==
    /\ call[c] = "set"
    /\ switch' = (req[c].op = "start")
    /\ Answer(c, "OK")
    /\ stops' = IF req[c].op = "stop" THEN stops + 1 ELSE stops
    /\ UNCHANGED <<daemon, sock, affinityAware, req, loop, boots, overlaps>>

\* StartUserSetBind: SwitchAffinityAware(false), then one pass in the handler
UserMode(c) ==
    /\ call[c] = "mode"
    /\ affinityAware' = FALSE
    /\ Goto(c, "pass")
    /\ UNCHANGED <<daemon, sock, switch, req, ack, loop, boots, history>>

\* mutant: the handler returns no Ack
UserPassNoAck(c) ==
    /\ call[c] = "pass"
    /\ Answer(c, "nil")
    /\ UNCHANGED <<daemon, sock, shared, req, loop, boots, history>>

UserPass(c) ==
    /\ call[c] = "pass"
    /\ Answer(c, "OK")
    /\ UNCHANGED <<daemon, sock, shared, req, loop, boots, history>>

-----------------------------------------------------------------------------
(* The loops *)

LoopTo(c, where) ==
    /\ loop' = [loop EXCEPT ![c] = where]
    /\ UNCHANGED <<daemon, sock, shared, call, req, ack, boots, history>>

\* mutant: the loop looks at the switch only inside its pass
TickNoCheck(c) ==
    /\ loop[c] = "waiting"
    /\ LoopTo(c, IF req[c].op = "auto" THEN "balance" ELSE "trace")

\* The ticker fires: the loop ends, or begins a pass
Tick(c) ==
    /\ loop[c] = "waiting"
    /\ LoopTo(c, IF ~switch THEN "ended" ELSE IF req[c].op = "auto" THEN "balance" ELSE "trace")

\* BindTasksPolicy after balancing: in affinity mode the switch is read again
BindPolicy(c) ==
    /\ loop[c] = "balance"
    /\ LoopTo(c, IF ~affinityAware THEN "userbind" ELSE IF switch THEN "trace" ELSE "waiting")

\* The traced groups, or the groups found in the environment, are bound
PassDone(c) ==
    /\ loop[c] \in {"trace", "userbind"}
    /\ LoopTo(c, "waiting")

-----------------------------------------------------------------------------

Handler(c) ==
    \/ Check(c) \/ Setup(c) \/ TickerPanic(c) \/ SwitchOn(c) \/ BadList(c) \/ Spawn(c)
    \/ SetScan(c) \/ UserMode(c) \/ UserPass(c)

LoopStep(c) == Tick(c) \/ BindPolicy(c) \/ PassDone(c)

Next ==
    \/ Boot \/ Quit
    \/ \E c \in Calls : Begin(c) \/ Handler(c) \/ LoopStep(c)

Spec == Init /\ [][Next]_vars

\* A loop is in what a pass may wait for without a limit: a trace whose threads do not
\* stop (DoCollect), or a probe that follows circular links (net affinity)
InPass(c) == loop[c] \in {"trace", "userbind"}

\* Handlers and loops are goroutines that run on, and tickers keep firing; nothing is
\* assumed of the passes, of a loop or of a usersetaffinity handler
FairSpec ==
    Spec /\ \A c \in Calls : /\ WF_vars(call[c] # "pass" /\ Handler(c))
                             /\ WF_vars(~InPass(c) /\ LoopStep(c))

-----------------------------------------------------------------------------

\* The type invariant: the process, the shared flags, each request's handler, answer
\* and loop.
TypeOK ==
    /\ daemon \in {"up", "down"} /\ sock \in BOOLEAN
    /\ switch \in BOOLEAN /\ affinityAware \in BOOLEAN
    /\ call \in [Calls -> {"new", "check", "setup", "switch", "spawn", "set", "mode",
                           "pass", "done"}]
    /\ req \in [Calls -> Requests]
    /\ ack \in [Calls -> {"none", "OK", "running", "period", "list"}]
    /\ loop \in [Calls -> LoopStates \cup {"none", "ended", "killed"}]
    /\ boots \in 0..MaxBoots
    /\ stops \in Nat /\ overlaps \in Nat

\* The check at the head of the two start handlers ("The scan is Running now") bounds
\* the loops: beyond the first, each one takes a stop, or a start request that
\* was between its check and its switch when another was checked.
LoopsBounded == Cardinality(Live) <= 1 + stops + overlaps

\* A start request that is answered OK has left a loop, which goes on, has ended or was
\* killed with its process; one that was refused for its CPU lists, its period or a running
\* scan has not, and neither has any other request.
AckMatchesLoop ==
    \A c \in Calls : loop[c] # "none" <=> ack[c] = "OK" /\ req[c].op \in {"auto", "group"}

\* "scan stop" ends every scan whose pass returns: once the switch stays off and no
\* trace or probe keeps a loop for ever, no loop is left.
StopEndsLoops ==
    (<>[](~switch) /\ \A c \in Calls : []<>~InPass(c)) => <>[](Live = {})

\* "This scan operation can be stopped or restarted" (README.en.md): while the
\* switch is on for good, after a start request was answered OK, a scan runs.
ScanRestarts ==
    (<>[](switch /\ \E c \in Calls : ack[c] = "OK" /\ req[c].op \in {"auto", "group"}))
        => []<>(Live # {})

=============================================================================
