----------------------------- MODULE RouteTurns -----------------------------
(***************************************************************************)
(* What the requests of RouteGeneration come to when nobody steps on them, *)
(* and that RouteRequests is what is left of them when they are served one *)
(* after the other to their end: its tables are those of RouteGeneration   *)
(* once the request in progress has made the commits it is bound to make.  *)
(***************************************************************************)
EXTENDS RouteGeneration

(* One request at a time, no report in between, and no request stopped.     *)
InTurn ==
  /\ \A p, q \in Request : req[p].pc # "idle" /\ req[q].pc # "idle" => p = q
  /\ \A p \in Request : req[p].alone
  /\ stops = 0

-----------------------------------------------------------------------------
(* What the request c has still to write                                   *)

Busy == {p \in Request : req[p].pc # "idle"}
Current == IF Busy = {} THEN Idle ELSE req[CHOOSE p \in Busy : TRUE]

Sweeping(c) == c.pc \in {"sweep", "stops", "stop_order"}

DueStops(c) == UNION {ListedStops(r) : r \in c.due}

OrdersToFree(c) ==
  IF Sweeping(c) THEN DueStops(c)
  ELSE IF c.pc = "plan_orders" THEN c.todo \ c.plan
  ELSE IF c.pc = "cancel_stops" THEN c.todo \cup c.kept
  ELSE IF c.pc = "cancel_orders" THEN c.todo ELSE {}

OrdersToPlan(c) == IF c.pc = "plan_orders" THEN c.todo \cap c.plan ELSE {}

StopsToCancel(c) ==
  IF Sweeping(c)
  THEN {o \in DueStops(c) : mission[o].status # "delivered"}
  ELSE IF c.pc = "cancel_stops" THEN c.todo ELSE {}

(* A plan with an insert that will fail is bound to write none of its stops. *)
Unwritable(c, o) == IF o \in Tracked THEN mission[o].reversed ELSE ~c.fresh

StopsToPlan(c) ==
  IF \E o \in c.plan : Unwritable(c, o) THEN {}
  ELSE IF c.pc = "plan_orders" THEN c.plan
  ELSE IF c.pc = "plan_stops" THEN c.todo ELSE {}

(* The rows once it has                                                    *)

OrderOnceDone(c, o) ==
  IF o \in OrdersToFree(c) THEN "unassigned"
  ELSE IF o \in OrdersToPlan(c) THEN "scheduled"
  ELSE IF c.pc \in {"deliver_stop", "deliver_order"} /\ o = c.at THEN "delivered"
  ELSE order[o]

MissionOnceDone(c, o) ==
  IF o \in StopsToCancel(c) THEN [mission[o] EXCEPT !.status = "cancelled"]
  ELSE IF o \in StopsToPlan(c)
    THEN IF o \in Tracked THEN [mission[o] EXCEPT !.status = "scheduled"]
         ELSE [status |-> "scheduled", route |-> c.rt, reversed |-> FALSE]
  ELSE IF c.pc = "deliver_stop" /\ o = c.at THEN [mission[o] EXCEPT !.status = "delivered"]
  ELSE mission[o]

RouteOnceDone(c, r) ==
  IF Sweeping(c) /\ r \in c.due THEN [route[r] EXCEPT !.status = "cancelled"] ELSE route[r]

wholeOrder == [o \in Order |-> OrderOnceDone(Current, o)]
wholeMission == [o \in Order |-> MissionOnceDone(Current, o)]
wholeRoute == [r \in Route |-> RouteOnceDone(Current, r)]

Whole == INSTANCE RouteRequests WITH
           order <- wholeOrder, mission <- wholeMission, route <- wholeRoute

(* The behaviours that keep to the turns, and what they come to.            *)
TurnsSpec == Init /\ [][Next /\ InTurn']_vars
RequestsAreWhole == Whole!Spec

-----------------------------------------------------------------------------
(* Properties of requests that nobody steps on, however others overlap     *)

(* A row that was read before and is written back whole takes nothing back: *)
(* the report of a delivery leaves the route as it is                       *)
(* (courier_state_service.py:112), the sweep only closes it                 *)
(* (route_service.py:984-1000).  A lost write needs an overlap.             *)
LostWritesNeedOverlap ==
  [][\A p \in Request : req[p].alone =>
       /\ req[p].pc = "deliver_route" /\ req'[p].pc # "deliver_route" => UNCHANGED route
       /\ req[p].pc = "stops" /\ req'[p].pc = "sweep" =>
            route' = [route EXCEPT ![req[p].rt].status = "cancelled"]]_vars

(* A generation that comes to its end leaves its whole plan: the route, the *)
(* statuses of all its orders and of all its stops, unless it had one to    *)
(* insert in the place of a route, or for an order that has one already     *)
(* (route_service.py:700-760).                                              *)
PlanEndsWhole ==
  [][\A p \in Request :
       /\ req[p].alone /\ req[p].pc = "plan_stops" /\ req'[p].pc = "idle" /\ stops' = stops
       /\ ~\E o \in req[p].plan : Unwritable(req[p], o)
       => /\ route'[req[p].rt] = Planned
          /\ \A o \in req[p].plan : order'[o] = "scheduled" /\ mission'[o].status = "scheduled"
          /\ \A o \in req[p].gen \ req[p].plan : order'[o] = "unassigned"]_vars

(* An order gets its first stop on a route as it was planned and as a       *)
(* scheduled order, unless the generation that gives it was stepped on.     *)
FirstStopsFit ==
  [][\A o \in Order : mission[o] = NoMission /\ mission'[o] # NoMission =>
       \E p \in Request :
         /\ req[p].pc = "plan_stops"
         /\ req[p].alone => order[o] = "scheduled" /\ route[mission'[o].route] = Planned]_vars

(* Whatever overlaps, a stop stays on the route it was first given, however *)
(* often its order is planned again (mission_repository.py:417).            *)
StopsKeepTheirRoute ==
  [][\A o \in Order : mission[o] # NoMission => mission'[o].route = mission[o].route]_vars
=============================================================================
