--------------------------- MODULE DispatchClaims ---------------------------
(***************************************************************************)
(* What comments, docstrings and entity methods of the repository say of   *)
(* orders, routes and missions, stated about Dispatch.  Each is quoted     *)
(* with its place; the README says what the model checker shows of it.     *)
(***************************************************************************)
EXTENDS Dispatch

(* route_service.py:721, "Missions are already created and attached to     *)
(* route": the mission of a scheduled order is on a route still to be run. *)
ScheduledOrderOnOpenRoute ==
  \A o \in Order : order[o].status = "scheduled" /\ HasMission(o) =>
    route[mission[o].route].status \notin {"finished", "cancelled"}

(* entities/_enums.py:94, "Mission status/outcome": a stored status is one *)
(* the enum of mission statuses can read back.                             *)
MissionStatusReadable ==
  \A o \in Order : mission[o].status \in MissionStatusType \cup {"none"}

(* domain_entities.py:449, "Order already delivered": an order is not      *)
(* delivered, and metered, a second time.                                  *)
DeliveredOnce ==
  [][usage' # usage => \E o \in Order : order[o].status # "delivered"
                                       /\ order'[o].status = "delivered"]_vars

(* route_service.py:973, "Handle routes that are still ongoing but their   *)
(* shift time has passed": the sweep reaches each of them.                 *)
SweepReachesOverdue == \A late \in LateSets : Overdue(late) = PastShift(late)

(* route_service.py:853, "Route {route_id} and its {len(missions)} missions *)
(* cancelled": every mission of a cancelled route is.                      *)
CancelReachesStops ==
  [][\A r \in Route : CancelRoute(r) =>
       \A o \in StopsOf(r) : mission'[o].status = "cancelled"]_vars

(* route_service.py:736, "Create or update the mission": an order planned   *)
(* on a new route has its mission scheduled.                               *)
PlanReachesMissions ==
  [][(\E r \in Route : route[r] = NoRoute /\ route'[r] # NoRoute) =>
       \A o \in Order : order'[o].status = "scheduled" /\ order[o].status # "scheduled"
         => mission'[o].status = "scheduled"]_vars
=============================================================================
