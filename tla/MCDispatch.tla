----------------------------- MODULE MCDispatch -----------------------------
(* Small instances of Dispatch, of the claims about it and of CourierDuty  *)
(* for TLC.  Orders and routes are interchangeable, couriers too.          *)
EXTENDS DispatchClaims, TLC

CONSTANTS c1, c2, o1, o2, o3, r1, r2, s1, s2, hub, hub2

OneHub == [s \in Shift |-> hub]
OneHubPerShift == [s \in Shift |-> IF s = s1 THEN hub ELSE hub2]
FinishTimes == [s \in Shift |-> IF s = s1 THEN 1 ELSE 2]
OneFinish == [s \in Shift |-> 1]
Ids == Permutations(Order) \cup Permutations(Route) \cup Permutations(Courier)
IdsAndShifts == Ids \cup Permutations(Shift)
=============================================================================
