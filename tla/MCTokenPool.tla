---------------------------- MODULE MCTokenPool ----------------------------
(* An instance of TokenPool for TLC: one unit of time is the shortest       *)
(* interval, and the longer times differ from each other.                   *)
EXTENDS TokenPool, TLC

CONSTANTS getMembers, usersGet, c1, c2, p1, p2

TwoMethods  == {getMembers, usersGet}
OneMethod   == {getMembers}
TwoCallers  == {c1, c2}
TwoProcesses == {p1, p2}
ProcessOfTwo == c1 :> p1 @@ c2 :> p2
Intervals   == [m \in TwoMethods |-> 1]
Cooldowns   == 9 :> 3 @@ 29 :> 6
=============================================================================
