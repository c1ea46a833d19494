----------------------------- MODULE MCTracing -----------------------------
(***************************************************************************)
(* A process of a leader and a second thread, which may be there from the   *)
(* start, start later, or not at all.                                       *)
(***************************************************************************)
EXTENDS Tracing
=============================================================================
