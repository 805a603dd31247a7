---------------------------- MODULE MCCourierDuty ----------------------------
(* Small instances of CourierDuty for TLC. *)
EXTENDS CourierDuty, TLC

CONSTANTS c1, c2, o1, o2, o3, r1, r2, s1, s2, hub, hub2

OneHub == [s \in Shift |-> hub]
FinishTimes == [s \in Shift |-> IF s = s1 THEN 1 ELSE 2]
Ids == Permutations(Order) \cup Permutations(Route) \cup Permutations(Courier)
=============================================================================
