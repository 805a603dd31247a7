--------------------------- MODULE OrderLifecycle ---------------------------
(***************************************************************************)
(* What the back end promises of an order's status, whatever request is    *)
(* served: the abstract specification that Dispatch implements.  "tracked" *)
(* is the set of orders that have ever been given a stop of a route.       *)
(***************************************************************************)
EXTENDS FiniteSets

CONSTANT Order

VARIABLES status, tracked

lifeVars == <<status, tracked>>

Statuses ==
  {"none", "registered", "scheduled", "delivered", "cancelled", "postponed",
   "unassigned", "deleted"}

Absent == {"none", "deleted"}

Init ==
  /\ status = [o \in Order |-> "none"]
  /\ tracked = {}

Plannable(o) == status[o] \in {"registered", "unassigned", "scheduled"}

(* One request may move many orders; each moves as its own past allows.    *)
Move(o) ==
  LET to == status'[o]
  IN \/ to = status[o]
     \/ status[o] = "none" /\ to = "registered"
     \/ status[o] = "registered" /\ o \notin tracked /\ to = "deleted"
     \/ Plannable(o) /\ to \in {"scheduled", "unassigned"}
     \/ o \in tracked /\ to \in {"scheduled", "unassigned", "delivered"}
     \/ status[o] \in {"postponed", "unassigned"} /\ to = "cancelled"
     \/ status[o] \notin Absent /\ to = "postponed"

(* An order is tracked for good, from a request that schedules it.         *)
Track ==
  /\ tracked \subseteq tracked'
  /\ \A o \in tracked' \ tracked : status'[o] = "scheduled"

Next ==
  /\ status' \in [Order -> Statuses]
  /\ tracked' \in SUBSET Order
  /\ \A o \in Order : Move(o)
  /\ Track

Spec == Init /\ [][Next]_lifeVars

(* An order that was never given a stop is neither delivered nor set back  *)
(* to a plannable status once it left them; an absent one is not tracked.  *)
TrackedBeforeDelivered ==
  \A o \in Order : /\ status[o] = "delivered" => o \in tracked
                   /\ o \in tracked => status[o] \notin Absent \cup {"registered"}
=============================================================================
