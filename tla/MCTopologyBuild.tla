-------------------------- MODULE MCTopologyBuild --------------------------
(***************************************************************************)
(* Machines of five CPUs in clusters of two, four bits to a mask: the last  *)
(* CPU is beyond every mask.  Consecutive and interleaved numberings, one   *)
(* CPU offline, or CPU 0 without a file "online".                           *)
(***************************************************************************)
EXTENDS TopologyBuild

MCOne == [c \in AllCpus |-> 0]
MCHalves == [c \in AllCpus |-> IF c < 2 THEN 0 ELSE 1]
MCParity == [c \in AllCpus |-> c % 2]
MCSingle == [c \in AllCpus |-> c]

MCChips == {MCOne, MCHalves}
MCNumas == {MCHalves, MCParity}
MCCores == {MCSingle, MCHalves, MCParity}
MCStarts == {0..3, {0, 1, 3}, AllCpus}
MCFixed == {{}, {0}}
=============================================================================
