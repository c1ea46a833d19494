----------------------------- MODULE Placement -----------------------------
(***************************************************************************)
(* What the task binding policy promises those who share a machine with     *)
(* it, with no word of loads, CPUs, retries or passes: a task that joins a   *)
(* group goes to the group's place, stays there with the others until it     *)
(* leaves, and a group is given up with its last task.  Places are NUMA      *)
(* nodes; what moves inside one is not seen.  TaskBinding implements this    *)
(* specification (TaskBindingProps!PlacementHolds).                          *)
(***************************************************************************)

CONSTANTS Tasks, Groups, Places,
          NoGroup, NoPlace

VARIABLES member,   \* task -> its group, or NoGroup
          home,     \* task -> its place, or NoPlace
          seat      \* group -> its place, or NoPlace

vars == <<member, home, seat>>

Company(g) == {t \in Tasks : member[t] = g}

Init ==
    /\ member = [t \in Tasks |-> NoGroup]
    /\ home = [t \in Tasks |-> NoPlace]
    /\ seat = [g \in Groups |-> NoPlace]

(* A group may be given a place before it has a task.                       *)
Open(g, p) ==
    /\ seat[g] = NoPlace
    /\ seat' = [seat EXCEPT ![g] = p]
    /\ UNCHANGED <<member, home>>

Join(t, g, p) ==
    /\ member[t] = NoGroup
    /\ seat[g] \in {p, NoPlace}
    /\ seat' = [seat EXCEPT ![g] = p]
    /\ member' = [member EXCEPT ![t] = g]
    /\ home' = [home EXCEPT ![t] = p]

(* Tasks leave one by one or all at once; a group they empty is given up.    *)
Leave(S) ==
    /\ \A t \in S : member[t] # NoGroup
    /\ member' = [t \in Tasks |-> IF t \in S THEN NoGroup ELSE member[t]]
    /\ home' = [t \in Tasks |-> IF t \in S THEN NoPlace ELSE home[t]]
    /\ seat' = [g \in Groups |-> IF Company(g) # {} /\ Company(g) \subseteq S
                                THEN NoPlace ELSE seat[g]]

Next ==
    \/ \E g \in Groups, p \in Places : Open(g, p)
    \/ \E t \in Tasks, g \in Groups, p \in Places : Join(t, g, p)
    \/ \E S \in SUBSET Tasks : Leave(S)

Spec == Init /\ [][Next]_vars

(* A task is where its group is.                                            *)
Together == \A t \in Tasks : member[t] # NoGroup => home[t] = seat[member[t]]
=============================================================================
