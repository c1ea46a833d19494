---------------------------- MODULE MCDetection ----------------------------
(***************************************************************************)
(* Four threads and two futexes: two ways to pair the threads, a chain,    *)
(* one thread fewer, no common futex, and one futex for all.               *)
(***************************************************************************)
EXTENDS Detection, TLC

CONSTANTS a, b, c, d, f, g

On(fa, fb, fc, fd) == a :> fa @@ b :> fb @@ c :> fc @@ d :> fd

Pairs   == On({f}, {f}, {g}, {g})
Crossed == On({f}, {g}, {f}, {g})
Chain   == On({f, g}, {f}, {g}, {})
Apart   == On({f}, {g}, {}, {})
One     == On({f}, {f}, {f, g}, {f})
Fewer   == a :> {f} @@ b :> {g} @@ c :> {f}

MCTraces == {Pairs, Crossed, Chain, Apart, One, Fewer}

=============================================================================
