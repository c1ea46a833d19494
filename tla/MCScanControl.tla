--------------------------- MODULE MCScanControl ---------------------------
(***************************************************************************)
(* Requests for TLC: a period is zero, good or above the maximum.          *)
(***************************************************************************)
EXTENDS ScanControl

CONSTANTS r1, r2, r3, r4

Request(op, period, list) == [op |-> op, period |-> period, list |-> list]

Auto  == Request("auto", 1, "ok")
Group == Request("group", 1, "ok")
User  == Request("user", 1, "ok")
Stop  == Request("stop", 1, "ok")
Start == Request("start", 1, "ok")
BadLists   == Request("group", 1, "bad")
ZeroPeriod == Request("auto", 0, "ok")
LongPeriod == Request("group", 3, "ok")

MCAll == {Auto, Group, User, Stop, Start, BadLists, ZeroPeriod, LongPeriod}
MCRestart == {Auto, Stop, Start}

=============================================================================
