--------------------------- MODULE MCTaskBinding ---------------------------
(***************************************************************************)
(* Small machines and workloads for TLC.                                   *)
(***************************************************************************)
EXTENDS TaskBindingProps, TLC

CONSTANTS t1, t2, g1, root, chip, n0, n1, k0, k1, k2, c0, c1, c2, p0, p1, p2

MCTids == {t1, t2}
MCNode == {root, chip, n0, n1, k0, k1, k2, c0, c1, c2, p0, p1, p2}

\* NUMA node n0 with two clusters, n1 with one; a core and an online CPU in each
MCType == root :> 5 @@ chip :> 4 @@ n0 :> 3 @@ n1 :> 3 @@ k0 :> 2 @@ k1 :> 2 @@ k2 :> 2
          @@ c0 :> 1 @@ c1 :> 1 @@ c2 :> 1 @@ p0 :> 0 @@ p1 :> 0 @@ p2 :> 0
MCParent == root :> NoNode @@ chip :> root @@ n0 :> chip @@ n1 :> chip
            @@ k0 :> n0 @@ k1 :> n0 @@ k2 :> n1
            @@ c0 :> k0 @@ c1 :> k1 @@ c2 :> k2 @@ p0 :> c0 @@ p1 :> c1 @@ p2 :> c2
MCRank == root :> 0 @@ chip :> 1 @@ n0 :> 2 @@ k0 :> 3 @@ c0 :> 4 @@ p0 :> 5
          @@ k1 :> 6 @@ c1 :> 7 @@ p1 :> 8 @@ n1 :> 9 @@ k2 :> 10 @@ c2 :> 11 @@ p2 :> 12
\* A cluster's mask always has four bits, whatever CPUs are online
MCWeight == root :> 0 @@ chip :> 3 @@ n0 :> 2 @@ n1 :> 1 @@ k0 :> 4 @@ k1 :> 4 @@ k2 :> 4
            @@ c0 :> 1 @@ c1 :> 1 @@ c2 :> 1 @@ p0 :> 1 @@ p1 :> 1 @@ p2 :> 1

\* One of n0's CPUs is overloaded, by more than the two tasks or by less: groups move
\* to and fro, and some may not
MCMeasurements ==
    {[cpus |-> p0 :> 1700 @@ p1 :> 0 @@ p2 :> 1800, tasks |-> [t \in Tids |-> 800]],
     [cpus |-> p0 :> 0 @@ p1 :> 1300 @@ p2 :> 0, tasks |-> [t \in Tids |-> 800]]}

\* A machine that numbers CPUs across its NUMA nodes and its cores: the clusters hang
\* under the NUMA node of their first CPU, and the other NUMA node has nothing under it;
\* the CPUs of k2 are threads of the cores of the other clusters and hang there
MCBareNode == MCNode \ {c2, p2}
MCBareType == [n \in MCBareNode |-> MCType[n]]
MCBareParent == [n \in MCBareNode |-> IF n = k2 THEN n0 ELSE MCParent[n]]
MCBareRank == [n \in MCBareNode |-> IF n = n1 THEN 13 ELSE MCRank[n]]
MCBareWeight == [n \in MCBareNode |-> MCWeight[n]]
\* n0 is idle, and searches answer k0; or it is loaded, and they answer n1, and groups
\* move to k1, or to k2 when k1 has a little to carry
MCBareMeasurements ==
    {[cpus |-> p0 :> 0 @@ p1 :> 0, tasks |-> [t \in Tids |-> 800]],
     [cpus |-> p0 :> 1700 @@ p1 :> 0, tasks |-> [t \in Tids |-> 800]],
     [cpus |-> p0 :> 1700 @@ p1 :> 1, tasks |-> [t \in Tids |-> 800]]}

MCMembers == g1 :> {t1, t2}
MCDetections == {{{t1, t2}}, {{t1}, {t2}}}

Switches(ccl, perCore, net, auto) == [ccl |-> ccl, perCore |-> perCore, net |-> net, auto |-> auto]
MCNoNetConfs == {Switches(TRUE, TRUE, FALSE, FALSE)}
MCConfs == {Switches(TRUE, TRUE, TRUE, FALSE), Switches(TRUE, FALSE, FALSE, TRUE)}
\* Automatic passes below NUMA nodes, and user passes that bind to whole ones
MCLiveConfs == {Switches(TRUE, TRUE, TRUE, TRUE), Switches(FALSE, FALSE, TRUE, FALSE)}
MCNet == {n0}
\* The network device is on a NUMA node that has no CPU online
MCOffNet == {NoNode}
MCNone == {}
\* The tids are interchangeable in every constant above
TidSymmetry == Permutations(MCTids)
=============================================================================
