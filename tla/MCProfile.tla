----------------------------- MODULE MCProfile -----------------------------
(* Instances of Profile for TLC.                                           *)
EXTENDS Profile, TLC

(* Types, values, contents and slots are told apart by nothing.             *)
Symmetries ==
  Permutations(Type) \cup Permutations(Value) \cup Permutations(Upload)
    \cup Permutations(Request)

(* "Vehicle updated with new type" (courier_service.py:198): an edit that   *)
(* writes both rows and that nobody stepped on leaves them with one type.   *)
OneTypeAfterEdit ==
  [][\A q \in Request :
       /\ StoreCourier(q) \/ StoreVehicle(q)
       /\ req[q].both /\ req[q].alone /\ req'[q].pc = "idle"
       => courier' = vehicle'.type]_vars
=============================================================================
