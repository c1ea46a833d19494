------------------------ MODULE ScanControl_proofs ------------------------
(***************************************************************************)
(* For any number of requests: answers agree with the loops left behind,    *)
(* and the loops are bounded by stops and overlapping starts.               *)
(***************************************************************************)
EXTENDS ScanControl, FiniteSetTheorems, TLAPS

\* A handler that is not done has no answer and no loop yet
Unanswered ==
    \A c \in Calls : call[c] # "done" => ack[c] = "none" /\ loop[c] = "none"

\* A handler is at a place of what its request asked for
HandlerOps ==
    \A c \in Calls :
        /\ call[c] \in {"check", "setup", "switch", "spawn"} => req[c].op \in {"auto", "group"}
        /\ call[c] \in {"mode", "pass"} => req[c].op = "user"
        /\ call[c] = "set" => req[c].op \in {"start", "stop"}

\* The loops, and the handlers that passed the check and may start one
Spawning == {c \in Calls : call[c] \in {"setup", "switch", "spawn"}}
Loops == Live \cup Spawning

\* A start passes the check when the switch is off.  When no other start is
\* under way then, the loops there are have each been stopped or overlapped
LoopInv ==
    /\ Cardinality(Loops) <= 1 + stops + overlaps
    /\ ~switch /\ Starting = {} => Cardinality(Loops) <= stops + overlaps

Inv == TypeOK /\ HandlerOps /\ Unanswered /\ AckMatchesLoop /\ LoopInv

\* What no step of a loop or a handler but Check, SwitchOn and SetScan does
Shrinks ==
    /\ Loops' \subseteq Loops /\ UNCHANGED <<switch, stops, overlaps>>
    /\ Starting' = {} => switch \/ Starting = {}

-----------------------------------------------------------------------------

LEMMA TypeStep == ASSUME TypeOK, [Next]_vars PROVE TypeOK'
<1> USE DEF TypeOK, shared, history, LoopStates
<1>0. MaxBoots \in Nat
  BY ScanAssumption
<1>1. CASE Boot
  BY <1>0, <1>1 DEF Boot
<1>9. CASE Quit
  BY <1>9 DEF Quit, ProcessGone
<1>2. ASSUME NEW c \in Calls, Begin(c)
      PROVE  TypeOK'
  BY <1>2 DEF Begin, Goto
<1>3. ASSUME NEW c \in Calls, Check(c)
      PROVE  TypeOK'
  BY <1>3 DEF Check, Answer, Goto
<1>10. ASSUME NEW c \in Calls, Setup(c)
       PROVE  TypeOK'
  BY <1>10 DEF Setup, Goto
<1>11. ASSUME NEW c \in Calls, SwitchOn(c)
       PROVE  TypeOK'
  BY <1>11 DEF SwitchOn, Goto
<1>4. ASSUME NEW c \in Calls, TickerPanic(c)
      PROVE  TypeOK'
  BY <1>4 DEF TickerPanic, ProcessGone
<1>5. ASSUME NEW c \in Calls, BadList(c) \/ Spawn(c)
      PROVE  TypeOK'
  BY <1>5 DEF BadList, Spawn, Answer, Goto
<1>6. ASSUME NEW c \in Calls, SetScan(c)
      PROVE  TypeOK'
  BY <1>6 DEF SetScan, Answer, Goto
<1>12. ASSUME NEW c \in Calls, UserMode(c) \/ UserPass(c)
       PROVE  TypeOK'
  BY <1>12 DEF UserMode, UserPass, Answer, Goto
<1>7. ASSUME NEW c \in Calls, LoopStep(c)
      PROVE  TypeOK'
  BY <1>7 DEF LoopStep, Tick, BindPolicy, PassDone, LoopTo
<1>8. CASE UNCHANGED vars
  BY <1>8 DEF vars
<1> QED
  BY <1>1, <1>2, <1>3, <1>4, <1>5, <1>6, <1>7, <1>8, <1>9, <1>10, <1>11, <1>12
     DEF Next, Handler

LEMMA AnswerStep ==
    ASSUME TypeOK, HandlerOps, Unanswered, AckMatchesLoop, [Next]_vars
    PROVE  Unanswered' /\ AckMatchesLoop'
<1> USE DEF TypeOK, HandlerOps, Unanswered, AckMatchesLoop, shared, history, LoopStates
<1>1. CASE Boot \/ Quit
  BY <1>1 DEF Boot, Quit, ProcessGone
<1>2. ASSUME NEW c \in Calls, Begin(c)
      PROVE  Unanswered' /\ AckMatchesLoop'
  BY <1>2 DEF Begin, Goto
<1>3. ASSUME NEW c \in Calls, Check(c) \/ Setup(c) \/ SwitchOn(c)
      PROVE  Unanswered' /\ AckMatchesLoop'
  BY <1>3 DEF Check, Setup, SwitchOn, Answer, Goto
<1>4. ASSUME NEW c \in Calls, TickerPanic(c)
      PROVE  Unanswered' /\ AckMatchesLoop'
  BY <1>4 DEF TickerPanic, ProcessGone
<1>5. ASSUME NEW c \in Calls, BadList(c) \/ Spawn(c)
      PROVE  Unanswered' /\ AckMatchesLoop'
  BY <1>5 DEF BadList, Spawn, Answer, Goto
<1>6. ASSUME NEW c \in Calls, SetScan(c) \/ UserMode(c) \/ UserPass(c)
      PROVE  Unanswered' /\ AckMatchesLoop'
  BY <1>6 DEF SetScan, UserMode, UserPass, Answer, Goto
<1>7. ASSUME NEW c \in Calls, LoopStep(c)
      PROVE  Unanswered' /\ AckMatchesLoop'
  BY <1>7 DEF LoopStep, Tick, BindPolicy, PassDone, LoopTo
<1>8. CASE UNCHANGED vars
  BY <1>8 DEF vars
<1> QED
  BY <1>1, <1>2, <1>3, <1>4, <1>5, <1>6, <1>7, <1>8 DEF Next, Handler

-----------------------------------------------------------------------------
(* The bound on the loops *)

LEMMA LoopsFinite == IsFiniteSet(Loops) /\ Cardinality(Loops) \in Nat
<1>1. Loops \subseteq Calls
  BY DEF Loops, Live, Spawning
<1> QED
  BY <1>1, ScanAssumption, FS_Subset, FS_CardinalityType

LEMMA FewerLoops ==
    ASSUME Loops' \subseteq Loops
    PROVE  Cardinality(Loops') \in Nat /\ Cardinality(Loops') <= Cardinality(Loops)
  BY LoopsFinite, FS_Subset, FS_CardinalityType

LEMMA ShrinksLoopInv == ASSUME TypeOK, LoopInv, Shrinks PROVE LoopInv'
<1>1. Cardinality(Loops') \in Nat /\ Cardinality(Loops') <= Cardinality(Loops)
  BY FewerLoops DEF Shrinks
<1>2. switch' = switch /\ stops' = stops /\ overlaps' = overlaps
      /\ (Starting' = {} => switch \/ Starting = {})
  BY DEF Shrinks
<1> QED
  BY <1>1, <1>2, LoopsFinite DEF TypeOK, LoopInv

\* A start that passes the check: alone over loops that are paid for, or
\* together with another
LEMMA CheckLoopInv == ASSUME TypeOK, Unanswered, LoopInv, NEW c \in Calls, Check(c) PROVE LoopInv'
<1>1. CASE call' = [call EXCEPT ![c] = "done"] /\ overlaps' = overlaps
  <2>1. Shrinks
    BY <1>1 DEF Check, Shrinks, Loops, Live, Spawning, Starting, TypeOK, shared, history
  <2> QED
    BY <2>1, ShrinksLoopInv
<1>2. CASE /\ ~switch /\ call' = [call EXCEPT ![c] = "setup"]
           /\ overlaps' = IF Starting = {} THEN overlaps ELSE overlaps + 1
  <2>1. Loops' = Loops \cup {c} /\ c \in Starting'
    BY <1>2 DEF Check, Loops, Live, Spawning, Starting, TypeOK
  <2>2. Cardinality(Loops \cup {c}) = IF c \in Loops THEN Cardinality(Loops)
                                     ELSE Cardinality(Loops) + 1
    BY LoopsFinite, FS_AddElement
  <2>3. stops' = stops /\ Starting' # {}
    BY <2>1 DEF Check
  <2> QED
    BY <1>2, <2>1, <2>2, <2>3, LoopsFinite DEF LoopInv, TypeOK
<1> QED
  BY <1>1, <1>2 DEF Check, Answer, Goto

LEMMA SwitchLoopInv ==
    ASSUME TypeOK, HandlerOps, LoopInv, NEW c \in Calls, SwitchOn(c) \/ SetScan(c)
    PROVE  LoopInv'
<1>1. Loops' \subseteq Loops
  BY DEF SwitchOn, SetScan, Answer, Goto, Loops, Live, Spawning, TypeOK
<1>2. Cardinality(Loops') \in Nat /\ Cardinality(Loops') <= Cardinality(Loops)
  BY <1>1, FewerLoops
<1>3. overlaps' = overlaps /\ ((switch' /\ stops' = stops) \/ stops' = stops + 1)
  BY DEF SwitchOn, SetScan, HandlerOps, TypeOK, history
<1> QED
  BY <1>2, <1>3, LoopsFinite DEF LoopInv, TypeOK

LEMMA NextLoopInv ==
    ASSUME TypeOK, HandlerOps, Unanswered, LoopInv, [Next]_vars
    PROVE  LoopInv'
<1> USE DEF TypeOK, Shrinks, Loops, Live, Spawning, Starting, LoopStates, shared, history
<1>1. CASE Boot \/ UNCHANGED vars
  <2>1. Shrinks
    BY <1>1 DEF Boot, vars
  <2> QED
    BY <2>1, ShrinksLoopInv
<1>2. ASSUME Quit \/ \E c \in Calls : TickerPanic(c)
      PROVE  LoopInv'
  <2>1. /\ \A c \in Calls : loop'[c] \in {"none", "killed"} /\ call'[c] \in {"new", "done"}
        /\ stops' \in Nat /\ overlaps' \in Nat
    BY <1>2 DEF Quit, TickerPanic, ProcessGone
  <2>2. Loops' = {}
    BY <2>1
  <2> QED
    BY <2>1, <2>2, FS_EmptySet DEF LoopInv
<1>3. ASSUME NEW c \in Calls, Begin(c) \/ UserMode(c) \/ UserPass(c)
      PROVE  LoopInv'
  <2>1. Shrinks
    BY <1>3 DEF Begin, UserMode, UserPass, Answer, Goto
  <2> QED
    BY <2>1, ShrinksLoopInv
<1>4. ASSUME NEW c \in Calls, Setup(c) \/ BadList(c) \/ Spawn(c)
      PROVE  LoopInv'
  <2>1. Shrinks
    BY <1>4 DEF Setup, BadList, Spawn, Answer, Goto
  <2> QED
    BY <2>1, ShrinksLoopInv
<1>5. ASSUME NEW c \in Calls, LoopStep(c)
      PROVE  LoopInv'
  <2>1. Shrinks
    BY <1>5 DEF LoopStep, Tick, BindPolicy, PassDone, LoopTo
  <2> QED
    BY <2>1, ShrinksLoopInv
<1> QED
  BY <1>1, <1>2, <1>3, <1>4, <1>5, CheckLoopInv, SwitchLoopInv DEF Next, Handler

LEMMA HandlerOpsStep == ASSUME TypeOK, HandlerOps, [Next]_vars PROVE HandlerOps'
<1> USE DEF TypeOK, HandlerOps
<1>1. ASSUME NEW c \in Calls, Begin(c)
      PROVE  HandlerOps'
  <2>1. req[c].op \in Ops
    BY ScanAssumption
  <2> QED
    BY <1>1, <2>1 DEF Begin, Goto, Ops
<1>2. ASSUME Boot \/ Quit \/ \E c \in Calls : TickerPanic(c)
      PROVE  HandlerOps'
  BY <1>2 DEF Boot, Quit, TickerPanic, ProcessGone
<1>3. ASSUME NEW c \in Calls, Handler(c), ~TickerPanic(c)
      PROVE  HandlerOps'
  BY <1>3 DEF Handler, Check, Setup, SwitchOn, BadList, Spawn, SetScan, UserMode, UserPass,
              Answer, Goto
<1>4. ASSUME NEW c \in Calls, LoopStep(c)
      PROVE  HandlerOps'
  BY <1>4 DEF LoopStep, Tick, BindPolicy, PassDone, LoopTo
<1>5. CASE UNCHANGED vars
  BY <1>5 DEF vars
<1> QED
  BY <1>1, <1>2, <1>3, <1>4, <1>5 DEF Next

LEMMA InitInv == Init => Inv
<1> SUFFICES ASSUME Init PROVE Inv
  OBVIOUS
<1> USE DEF Init
<1>0. MaxBoots \in Nat
  BY ScanAssumption
<1>1. TypeOK
  <2>1. boots \in 0..MaxBoots /\ stops \in Nat /\ overlaps \in Nat
    BY <1>0
  <2>2. /\ call \in [Calls -> {"new", "check", "setup", "switch", "spawn", "set", "mode",
                              "pass", "done"}]
        /\ ack \in [Calls -> {"none", "OK", "running", "period", "list"}]
        /\ loop \in [Calls -> LoopStates \cup {"none", "ended", "killed"}]
    BY DEF LoopStates
  <2> QED
    BY <2>1, <2>2 DEF TypeOK
<1>3. HandlerOps /\ Unanswered /\ AckMatchesLoop
  BY DEF HandlerOps, Unanswered, AckMatchesLoop
<1>2. Loops = {}
  BY DEF Loops, Live, Spawning, LoopStates
<1> QED
  BY <1>1, <1>2, <1>3, FS_EmptySet DEF Inv, LoopInv

\* Requests keep the invariant from which the others follow
THEOREM ScanInvariance == Spec => []Inv
<1>1. Inv /\ [Next]_vars => Inv'
  BY TypeStep, HandlerOpsStep, AnswerStep, NextLoopInv DEF Inv
<1> QED
  BY <1>1, InitInv, PTL DEF Spec

\* The process, its flags, the handlers and the loops keep their types.
THEOREM ScanTypeCorrect == Spec => []TypeOK
<1>1. Inv => TypeOK
  BY DEF Inv
<1> QED
  BY <1>1, ScanInvariance, PTL

\* Whatever requests interleave, and whenever the process ends: the requests that left
\* a loop are exactly the start requests that were answered OK.
THEOREM AckMatchesLoopHolds == Spec => []AckMatchesLoop
<1>1. Inv => AckMatchesLoop
  BY DEF Inv
<1> QED
  BY <1>1, ScanInvariance, PTL

\* The check at the head of the start handlers bounds the loops, for any number
\* of requests: each beyond the first took a stop or an overlapping start.
THEOREM LoopsBoundedHolds == Spec => []LoopsBounded
<1>1. Inv => LoopsBounded
  <2>1. ASSUME Inv PROVE LoopsBounded
    <3>1. Live \subseteq Loops
      BY DEF Loops
    <3>2. Cardinality(Live) \in Nat /\ Cardinality(Live) <= Cardinality(Loops)
      BY <3>1, LoopsFinite, FS_Subset, FS_CardinalityType
    <3> QED
      BY <2>1, <3>2, LoopsFinite DEF Inv, TypeOK, LoopInv, LoopsBounded
  <2> QED
    BY <2>1
<1> QED
  BY <1>1, ScanInvariance, PTL
=============================================================================
