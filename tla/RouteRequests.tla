---------------------------- MODULE RouteRequests ----------------------------
(***************************************************************************)
(* What the requests of RouteGeneration come to when they are served one   *)
(* after the other and none is cut off: the abstract specification of the  *)
(* three tables, where a sweep, a plan, a cancellation and a report are    *)
(* one step each.  What is left of the commits is the stops of a plan that *)
(* has one to insert that cannot be: the insert ends the request, so that  *)
(* only some of the other stops are written, each in a step of its own.    *)
(***************************************************************************)
CONSTANTS Order, Route, Nil, Reported

VARIABLES order, mission, route, late

wholeVars == <<order, mission, route, late>>

NoMission == [status |-> "none", route |-> Nil, reversed |-> FALSE]
NoRoute == [status |-> "none", reversed |-> FALSE]
Planned == [status |-> "scheduled", reversed |-> FALSE]

Init ==
  /\ order = [o \in Order |-> "registered"]
  /\ mission = [o \in Order |-> NoMission]
  /\ route = [r \in Route |-> NoRoute]
  /\ late = FALSE

Readable(r) == ~route[r].reversed
Listed(rs) == IF \A r \in rs : Readable(r) THEN rs ELSE {}
Overdue == Listed({r \in Route : late /\ route[r].status \notin {"none", "finished", "cancelled"}})
Known == Listed({r \in Route : route[r].status # "none"})
Scheduled == {r \in Known : route[r].status = "scheduled"}
Tracked == {o \in Order : mission[o] # NoMission}

StopsOn(r) == {o \in Order : mission[o].route = r}
ListedStops(r) ==
  IF \E o \in StopsOn(r) : mission[o].reversed THEN {} ELSE StopsOn(r)
SweptStops == UNION {ListedStops(r) : r \in Overdue}

(* Scheduled orders without a stop that can be read.                       *)
Stopless == {o \in Order : order[o] = "scheduled" /\ (o \in Tracked => mission[o].reversed)}

(* Every read of routes, and the head of every generation.                 *)
Sweep ==
  /\ order' = [o \in Order |->
       IF o \in SweptStops THEN "unassigned" ELSE order[o]]
  /\ mission' = [o \in Order |->
       IF o \in SweptStops /\ mission[o].status # "delivered"
       THEN [mission[o] EXCEPT !.status = "cancelled"] ELSE mission[o]]
  /\ route' = [r \in Route |->
       IF r \in Overdue THEN [route[r] EXCEPT !.status = "cancelled"] ELSE route[r]]
  /\ UNCHANGED late

MayPlan(gen) ==
  /\ \A r \in Known : route[r].status \notin {"loading", "ongoing", "return_to_hub"}
  /\ \A o \in gen : order[o] \in {"registered", "unassigned", "scheduled"}

(* The solver found no route.                                              *)
GenerateNothing(gen) ==
  /\ MayPlan(gen)
  /\ order' = [o \in Order |-> IF o \in gen THEN "unassigned" ELSE order[o]]
  /\ UNCHANGED <<mission, route, late>>

(* The stop of the plan that ends its request.                             *)
Unwritable(o) == IF o \in Tracked THEN mission[o].reversed ELSE Scheduled # {}

(* It planned some of the orders: on a new route, where no mission of them *)
(* may be one that cannot be read, or in the place of a scheduled one,     *)
(* where all of them must have a mission that can.                         *)
Generate(gen, plan, r) ==
  /\ MayPlan(gen)
  /\ IF Scheduled = {} THEN route[r] = NoRoute ELSE r \in Scheduled
  /\ route' = [route EXCEPT ![r] = Planned]
  /\ order' = [o \in Order |-> IF o \in plan THEN "scheduled"
                               ELSE IF o \in gen THEN "unassigned" ELSE order[o]]
  /\ mission' = [o \in Order |->
       IF o \notin plan \/ (\E x \in plan : Unwritable(x)) THEN mission[o]
       ELSE IF o \in Tracked THEN [mission[o] EXCEPT !.status = "scheduled"]
       ELSE [status |-> "scheduled", route |-> r, reversed |-> FALSE]]
  /\ UNCHANGED late

(* A stop that was written before the insert that ended its request: the   *)
(* stop of a plan of which an order is left without one.                   *)
PlanStopAgain(o) ==
  /\ o \in Tracked
  /\ order[o] = "scheduled"
  /\ Stopless # {}
  /\ \E r \in Route : route[r] = Planned
  /\ mission' = [mission EXCEPT ![o].status = "scheduled"]
  /\ UNCHANGED <<order, route, late>>

(* A first stop among them: the route is new, and the insert that will end *)
(* the request is of an order whose mission cannot be read.                *)
PlanFirstStop(o, r) ==
  /\ o \notin Tracked
  /\ order[o] = "scheduled"
  /\ Stopless \cap Tracked # {}
  /\ route[r] = Planned
  /\ mission' = [mission EXCEPT
                   ![o] = [status |-> "scheduled", route |-> r, reversed |-> FALSE]]
  /\ UNCHANGED <<order, route, late>>

CancelRoute(r) ==
  /\ route[r].status # "none"
  /\ Readable(r)
  /\ route' = [route EXCEPT ![r].status = "cancelled"]
  /\ mission' = [o \in Order |->
       IF o \in ListedStops(r) THEN [mission[o] EXCEPT !.status = "cancelled"]
       ELSE mission[o]]
  /\ order' = [o \in Order |-> IF o \in ListedStops(r) THEN "unassigned" ELSE order[o]]
  /\ UNCHANGED late

(* The route row is read and written back, and nothing is lost.            *)
Deliver(o) ==
  /\ mission[o].route # Nil
  /\ ~mission[o].reversed
  /\ Readable(mission[o].route)
  /\ mission' = [mission EXCEPT ![o].status = "delivered"]
  /\ order' = [order EXCEPT ![o] = "delivered"]
  /\ UNCHANGED <<route, late>>

(* A report that completes a stop before the time it was arrived at.       *)
CompletionFails(o) ==
  /\ mission[o].route # Nil
  /\ ~mission[o].reversed
  /\ Readable(mission[o].route)
  /\ mission' = [mission EXCEPT ![o].reversed = TRUE]
  /\ UNCHANGED <<order, route, late>>

ReportRoute(r, status) ==
  /\ route[r].status # "none"
  /\ Readable(r)
  /\ status = "ongoing" => \E o \in StopsOn(r) : ~mission[o].reversed
  /\ \E reversed \in IF status \in {"ongoing", "finished"} THEN BOOLEAN ELSE {FALSE} :
       route' = [route EXCEPT ![r] = [status |-> status, reversed |-> reversed]]
  /\ mission' = [o \in Order |->
       IF status = "ongoing" /\ o \in StopsOn(r)
       THEN [mission[o] EXCEPT !.status = "ongoing"] ELSE mission[o]]
  /\ UNCHANGED <<order, late>>

Clock ==
  /\ late' = ~late
  /\ UNCHANGED <<order, mission, route>>

Next ==
  \/ Sweep
  \/ \E gen \in SUBSET Order :
       \/ GenerateNothing(gen)
       \/ \E plan \in (SUBSET gen) \ {{}}, r \in Route : Generate(gen, plan, r)
  \/ \E o \in Order : PlanStopAgain(o) \/ Deliver(o) \/ CompletionFails(o)
  \/ \E o \in Order, r \in Route : PlanFirstStop(o, r)
  \/ \E r \in Route : CancelRoute(r) \/ \E status \in Reported : ReportRoute(r, status)
  \/ Clock

Spec == Init /\ [][Next]_wholeVars
=============================================================================
