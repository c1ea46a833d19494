-------------------------------- MODULE Sums --------------------------------
(***************************************************************************)
(* The sums that loops of the code build up: of the loads of a group's     *)
(* tasks, of the CPUs under a node, of the sizes of CPU groups.            *)
(***************************************************************************)
EXTENDS Integers, FiniteSets, Folds

\* The sum of f over S
SumOf(f, S) ==
    MapThenFoldSet(LAMBDA a, b : a + b, 0, LAMBDA x : f[x], LAMBDA T : CHOOSE x \in T : TRUE, S)

=============================================================================
