---------------------------- MODULE MCPartition ----------------------------
(***************************************************************************)
(* CPUs 0..5 fit the mask, 6 and 7 only the parser.                        *)
(***************************************************************************)
EXTENDS Partition

Span(lo, hi) == [kind |-> "range", lo |-> lo, hi |-> hi]
One(cpu) == [kind |-> "cpu", lo |-> cpu, hi |-> cpu]

MCItems == {Span(0, 2), One(3), Span(5, 6), Span(2, 9)}
MCNumaCpus == {0..2, 3..5}

=============================================================================
