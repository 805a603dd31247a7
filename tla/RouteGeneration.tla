-------------------------- MODULE RouteGeneration --------------------------
(***************************************************************************)
(* Requests that overlap, and requests that are stopped half-way: route    *)
(* generation, the sweep of overdue routes inside every read, route        *)
(* cancellation and delivery reports of core/services/{route,courier_state *)
(* }_service.py, one step per commit of a repository.  One terminal, one   *)
(* shift and one courier: Dispatch has the rest.                           *)
(*                                                                         *)
(* Two commits of a request are two steps; what a request reads without a  *)
(* commit in between is read at one instant.  Reports other than a delivery *)
(* write one row and are one step.                                         *)
(***************************************************************************)
EXTENDS Naturals, FiniteSets

CONSTANTS
  Order, Route,
  Request,     \* slots for requests of any kind
  Reader,      \* the slot of a client that keeps asking for its routes
  Nil,
  Reported,    \* the route statuses that couriers report
  MaxStops     \* bound of the model on the requests that are stopped half-way

ASSUME ReaderIsASlot == Reader \in Request
ASSUME NilIsNoRow == Nil \notin Order \cup Route \cup Request
ASSUME ReportedIsKnown ==
  Reported \subseteq {"loading", "ongoing", "return_to_hub", "finished"}
ASSUME MaxStopsIsNatural == MaxStops \in Nat

VARIABLES
  order,     \* status of each row of orders
  mission,   \* table missions, keyed by its unique order_id
  route,     \* table routes
  late,      \* the clock is past the finish time of the shift
  req,       \* what each request knows and has still to do
  stops      \* how many requests were stopped

tables == <<order, mission, route>>
vars == <<order, mission, route, late, req, stops>>

OrderStatus == {"registered", "scheduled", "delivered", "unassigned"}
MissionStatus == {"none", "scheduled", "ongoing", "delivered", "cancelled"}
Active == {"loading", "ongoing", "return_to_hub"}
Closed == {"finished", "cancelled"}
(* "reversed": the actual times of day are the wrong way round.             *)
MissionRow == [status: MissionStatus, route: Route \cup {Nil}, reversed: BOOLEAN]
RouteRow == [status: {"none", "scheduled"} \cup Active \cup Closed, reversed: BOOLEAN]
NoMission == [status |-> "none", route |-> Nil, reversed |-> FALSE]
NoRoute == [status |-> "none", reversed |-> FALSE]
Planned == [status |-> "scheduled", reversed |-> FALSE]

(* Where a request is, and the rows it has read and will write back.        *)
Step ==
  {"idle", "sweep", "stops", "stop_order", "check", "solve", "plan_route",
   "plan_orders", "plan_stops", "cancel_stops", "cancel_orders",
   "deliver_stop", "deliver_order", "deliver_route"}
Requests ==
  [pc: Step,
   gen: SUBSET Order,         \* the orders of a generation, none for a read
   due: SUBSET Route,         \* overdue routes still to be closed
   rows: [Route -> RouteRow], \* route rows as they were read
   rt: Route \cup {Nil},      \* the route in hand
   fresh: BOOLEAN,            \* that route is a new one
   at: Order \cup {Nil},      \* the order in hand
   todo: SUBSET Order,        \* orders or stops still to be written
   kept: SUBSET Order,        \* stops that were read as delivered
   plan: SUBSET Order,        \* orders the solver gave a stop
   alone: BOOLEAN]            \* nobody else has stepped since the request began

Idle ==
  [pc |-> "idle", gen |-> {}, due |-> {}, rows |-> [r \in Route |-> NoRoute],
   rt |-> Nil, fresh |-> FALSE, at |-> Nil, todo |-> {}, kept |-> {},
   plan |-> {}, alone |-> TRUE]

Init ==
  /\ order = [o \in Order |-> "registered"]
  /\ mission = [o \in Order |-> NoMission]
  /\ route = [r \in Route |-> NoRoute]
  /\ late = FALSE
  /\ req = [p \in Request |-> Idle]
  /\ stops = 0

-----------------------------------------------------------------------------
(* Requests and their records                                              *)

(* What the other requests find changed under them.                         *)
Disturbed(p) ==
  [q \in Request |->
     IF q = p \/ req[q].pc = "idle" THEN req[q] ELSE [req[q] EXCEPT !.alone = FALSE]]

(* A step of p that commits, and one that only reads.                       *)
Goes(p, rec) == req' = [Disturbed(p) EXCEPT ![p] = rec]
Looks(p, rec) == req' = [req EXCEPT ![p] = rec]

Snapshot(rs) == [r \in Route |-> IF r \in rs THEN route[r] ELSE NoRoute]
Cancelled(rs) ==
  [r \in Route |-> IF r \in rs THEN [route[r] EXCEPT !.status = "cancelled"] ELSE NoRoute]

(* A row that the Route entity refuses empties the list it is in.           *)
Readable(r) == ~route[r].reversed
Listed(rs) == IF \A r \in rs : Readable(r) THEN rs ELSE {}

(* Mutant of PastShift: only routes that were started are looked for.       *)
PastShiftStarted == {r \in Route : late /\ route[r].status \in Active}

PastShift == {r \in Route : late /\ route[r].status \notin {"none"} \cup Closed}

Overdue == Listed(PastShift)

(* So is it with missions, and no request can mend one that it cannot read. *)
StopsOn(r) == {o \in Order : mission[o].route = r}
Unlisted(r) == \E o \in StopsOn(r) : mission[o].reversed
ListedStops(r) == IF Unlisted(r) THEN {} ELSE StopsOn(r)

(* A stop is written back as it was read.  If a completion has reversed it  *)
(* since, the columns that were read mend it, unless they were not set.     *)
Rewrite(o, status) ==
  \E reversed \in {FALSE, mission[o].reversed} :
    mission' = [mission EXCEPT
                  ![o] = [mission[o] EXCEPT !.status = status, !.reversed = reversed]]

-----------------------------------------------------------------------------
(* The sweep: handle_routes_with_passed_time_shift                         *)

(* A read of routes, or the generation of a route for the orders gen.       *)
Begin(p, gen) ==
  /\ req[p].pc = "idle"
  /\ gen # {} => p # Reader
  /\ Looks(p, [Idle EXCEPT !.pc = "sweep", !.gen = gen, !.due = Overdue,
                          !.rows = Cancelled(Overdue)])
  /\ UNCHANGED <<tables, late, stops>>

SweepRoute(p, r) ==
  /\ req[p].pc = "sweep"
  /\ r \in req[p].due
  /\ Looks(p, [req[p] EXCEPT !.pc = "stops", !.rt = r, !.todo = ListedStops(r),
                !.kept = {o \in ListedStops(r) : mission[o].status = "delivered"}])
  /\ UNCHANGED <<tables, late, stops>>

(* Mutant of SweepStop: the stop gets the status of its order.              *)
SweepStopUnassigned(p, o) ==
  /\ req[p].pc = "stops"
  /\ o \in req[p].todo
  /\ IF o \in req[p].kept THEN UNCHANGED mission ELSE Rewrite(o, "unassigned")
  /\ Goes(p, [req[p] EXCEPT !.pc = "stop_order", !.at = o, !.todo = @ \ {o}])
  /\ UNCHANGED <<order, route, late, stops>>

SweepStop(p, o) ==
  /\ req[p].pc = "stops"
  /\ o \in req[p].todo
  /\ IF o \in req[p].kept THEN UNCHANGED mission ELSE Rewrite(o, "cancelled")
  /\ Goes(p, [req[p] EXCEPT !.pc = "stop_order", !.at = o, !.todo = @ \ {o}])
  /\ UNCHANGED <<order, route, late, stops>>

SweepOrder(p) ==
  /\ req[p].pc = "stop_order"
  /\ order' = [order EXCEPT ![req[p].at] = "unassigned"]
  /\ Goes(p, [req[p] EXCEPT !.pc = "stops", !.at = Nil])
  /\ UNCHANGED <<mission, route, late, stops>>

(* Mutant of SweepClose: the route is written before its stops.             *)
SweepCloseFirst(p) ==
  /\ req[p].pc = "stops"
  /\ route' = [route EXCEPT ![req[p].rt] = req[p].rows[req[p].rt]]
  /\ Goes(p, [req[p] EXCEPT !.pc = "sweep", !.rt = Nil, !.due = @ \ {req[p].rt},
                !.rows[req[p].rt] = NoRoute, !.todo = {}, !.kept = {}])
  /\ UNCHANGED <<order, mission, late, stops>>

(* The route is written last, with the columns it was read with.            *)
SweepClose(p) ==
  /\ req[p].pc = "stops"
  /\ req[p].todo = {}
  /\ route' = [route EXCEPT ![req[p].rt] = req[p].rows[req[p].rt]]
  /\ Goes(p, [req[p] EXCEPT !.pc = "sweep", !.rt = Nil, !.due = @ \ {req[p].rt},
                !.rows[req[p].rt] = NoRoute, !.kept = {}])
  /\ UNCHANGED <<order, mission, late, stops>>

AfterSweep(p) ==
  IF req[p].gen = {} THEN Idle
  ELSE [Idle EXCEPT !.pc = "check", !.gen = req[p].gen, !.alone = req[p].alone]

SweepEnd(p) ==
  /\ req[p].pc = "sweep"
  /\ req[p].due = {}
  /\ Looks(p, AfterSweep(p))
  /\ UNCHANGED <<tables, late, stops>>

-----------------------------------------------------------------------------
(* generate_route                                                          *)

(* Mutant of Refused: the routes on the road are not looked at.             *)
RefusedOrders(known, orders) ==
  \E o \in orders : order[o] \notin {"registered", "unassigned", "scheduled"}

Refused(known, orders) ==
  \/ \E r \in known : route[r].status \in Active
  \/ \E o \in orders : order[o] \notin {"registered", "unassigned", "scheduled"}

(* The current routes and the orders are read; one scheduled route, if      *)
(* there is one, is taken to be overwritten.                                *)
Check(p) ==
  LET known == Listed({r \in Route : route[r].status # "none"})
      scheduled == {r \in known : route[r].status = "scheduled"}
  IN /\ req[p].pc = "check"
     /\ \/ /\ Refused(known, req[p].gen)
           /\ Looks(p, Idle)
        \/ /\ ~Refused(known, req[p].gen)
           /\ \E r \in IF scheduled = {} THEN {Nil} ELSE scheduled :
                Looks(p, [req[p] EXCEPT !.pc = "solve", !.rt = r, !.fresh = (r = Nil)])
     /\ UNCHANGED <<tables, late, stops>>

(* The solver answers in its own time: with an error, with no route, or     *)
(* with a stop for some of the orders.                                      *)
Solve(p) ==
  /\ req[p].pc = "solve"
  /\ \/ Looks(p, Idle)
     \/ Looks(p, [req[p] EXCEPT !.pc = "plan_orders", !.rt = Nil, !.todo = req[p].gen])
     \/ \E plan \in (SUBSET req[p].gen) \ {{}} :
          Looks(p, [req[p] EXCEPT !.pc = "plan_route", !.plan = plan])
  /\ UNCHANGED <<tables, late, stops>>

(* Mutant of PlanRoute: the stops are inserted before the orders are updated. *)
PlanRouteStops(p, r) ==
  /\ req[p].pc = "plan_route"
  /\ IF req[p].fresh THEN route[r] = NoRoute ELSE r = req[p].rt
  /\ route' = [route EXCEPT ![r] = Planned]
  /\ Goes(p, [req[p] EXCEPT !.pc = "plan_stops", !.rt = r, !.todo = req[p].plan])
  /\ UNCHANGED <<order, mission, late, stops>>

PlanRoute(p, r) ==
  /\ req[p].pc = "plan_route"
  /\ IF req[p].fresh THEN route[r] = NoRoute ELSE r = req[p].rt
  /\ route' = [route EXCEPT ![r] = Planned]
  /\ Goes(p, [req[p] EXCEPT !.pc = "plan_orders", !.rt = r, !.todo = req[p].gen])
  /\ UNCHANGED <<order, mission, late, stops>>

PlanOrder(p, o) ==
  /\ req[p].pc = "plan_orders"
  /\ o \in req[p].todo
  /\ order' = [order EXCEPT ![o] = IF o \in req[p].plan THEN "scheduled" ELSE "unassigned"]
  /\ Goes(p, IF req[p].todo # {o} THEN [req[p] EXCEPT !.todo = @ \ {o}]
             ELSE IF req[p].plan = {} THEN Idle
             ELSE [req[p] EXCEPT !.pc = "plan_stops", !.todo = req[p].plan])
  /\ UNCHANGED <<mission, route, late, stops>>

(* A mission that is found keeps its route.  Another is inserted: that ends *)
(* the request when there is one that cannot be read, as an order has one   *)
(* mission only, and when a scheduled route was reused, as no row has the   *)
(* route id of the solver's answer, which a new mission carries.            *)
PlanStop(p, o) ==
  LET found == mission[o] # NoMission /\ ~mission[o].reversed
      insertable == mission[o] = NoMission /\ req[p].fresh
  IN /\ req[p].pc = "plan_stops"
     /\ o \in req[p].todo
     /\ mission' = [mission EXCEPT ![o] =
          IF found THEN [mission[o] EXCEPT !.status = "scheduled"]
          ELSE IF insertable
            THEN [status |-> "scheduled", route |-> req[p].rt, reversed |-> FALSE]
          ELSE mission[o]]
     /\ Goes(p, IF req[p].todo # {o} /\ (found \/ insertable)
                THEN [req[p] EXCEPT !.todo = @ \ {o}] ELSE Idle)
     /\ UNCHANGED <<order, route, late, stops>>

-----------------------------------------------------------------------------
(* cancel_route                                                            *)

CancelRoute(p, r) ==
  /\ req[p].pc = "idle"
  /\ p # Reader
  /\ route[r].status # "none"
  /\ Readable(r)
  /\ route' = [route EXCEPT ![r].status = "cancelled"]
  /\ Goes(p, IF ListedStops(r) = {} THEN Idle
             ELSE [Idle EXCEPT !.pc = "cancel_stops", !.rt = r, !.todo = ListedStops(r)])
  /\ UNCHANGED <<order, mission, late, stops>>

CancelStop(p, o) ==
  /\ req[p].pc = "cancel_stops"
  /\ o \in req[p].todo
  /\ Rewrite(o, "cancelled")
  /\ Goes(p, [req[p] EXCEPT !.kept = @ \cup {o},
                !.pc = IF req[p].todo = {o} THEN "cancel_orders" ELSE @,
                !.todo = IF req[p].todo = {o} THEN req[p].kept \cup {o} ELSE @ \ {o}])
  /\ UNCHANGED <<order, route, late, stops>>

(* Mutant of CancelOrder: the order is set back to where it began.          *)
CancelOrderRegistered(p, o) ==
  /\ req[p].pc = "cancel_orders"
  /\ o \in req[p].todo
  /\ order' = [order EXCEPT ![o] = "registered"]
  /\ Goes(p, IF req[p].todo = {o} THEN Idle ELSE [req[p] EXCEPT !.todo = @ \ {o}])
  /\ UNCHANGED <<mission, route, late, stops>>

CancelOrder(p, o) ==
  /\ req[p].pc = "cancel_orders"
  /\ o \in req[p].todo
  /\ order' = [order EXCEPT ![o] = "unassigned"]
  /\ Goes(p, IF req[p].todo = {o} THEN Idle ELSE [req[p] EXCEPT !.todo = @ \ {o}])
  /\ UNCHANGED <<mission, route, late, stops>>

-----------------------------------------------------------------------------
(* The courier                                                             *)

Deliver(p, o) ==
  /\ req[p].pc = "idle"
  /\ p # Reader
  /\ mission[o].route # Nil
  /\ ~mission[o].reversed
  /\ Readable(mission[o].route)
  /\ Looks(p, [Idle EXCEPT !.pc = "deliver_stop", !.at = o, !.rt = mission[o].route,
                          !.rows = Snapshot({mission[o].route})])
  /\ UNCHANGED <<tables, late, stops>>

DeliverStop(p) ==
  /\ req[p].pc = "deliver_stop"
  /\ Rewrite(req[p].at, "delivered")
  /\ Goes(p, [req[p] EXCEPT !.pc = "deliver_order"])
  /\ UNCHANGED <<order, route, late, stops>>

DeliverOrder(p) ==
  /\ req[p].pc = "deliver_order"
  /\ order' = [order EXCEPT ![req[p].at] = "delivered"]
  /\ Goes(p, [req[p] EXCEPT !.pc = "deliver_route"])
  /\ UNCHANGED <<mission, route, late, stops>>

(* Every report ends by writing the route back as it was read.  The session *)
(* writes the columns that differ from what it holds: all of them when the  *)
(* row is loaded again for the update, none when it is still held.          *)
DeliverRoute(p) ==
  /\ req[p].pc = "deliver_route"
  /\ route' \in {route, [route EXCEPT ![req[p].rt] = req[p].rows[req[p].rt]]}
  /\ Goes(p, Idle)
  /\ UNCHANGED <<order, mission, late, stops>>

(* The update of a stop that a completion has reversed since it was read is *)
(* committed, and fails when it reads the row back: the sweep gives up, any *)
(* other request ends.  SweepStop, CancelStop and DeliverStop go on: the    *)
(* row was mended, or the session still holds it as it was read.            *)
WriteFails(p, o) ==
  /\ mission[o].reversed
  /\ \/ /\ req[p].pc = "stops"
        /\ o \in req[p].todo \ req[p].kept
        /\ mission' = [mission EXCEPT ![o].status = "cancelled"]
        /\ Goes(p, AfterSweep(p))
     \/ /\ req[p].pc = "cancel_stops"
        /\ o \in req[p].todo
        /\ mission' = [mission EXCEPT ![o].status = "cancelled"]
        /\ Goes(p, Idle)
     \/ /\ req[p].pc = "deliver_stop"
        /\ o = req[p].at
        /\ mission' = [mission EXCEPT ![o].status = "delivered"]
        /\ Goes(p, Idle)
  /\ UNCHANGED <<order, route, late, stops>>

(* A report that completes a stop before the time of day it was arrived at: *)
(* the mission is committed, and the report ends before it writes more.     *)
CompletionFails(o) ==
  /\ mission[o].route # Nil
  /\ ~mission[o].reversed
  /\ Readable(mission[o].route)
  /\ mission' = [mission EXCEPT ![o].reversed = TRUE]
  /\ req' = Disturbed(Nil)
  /\ UNCHANGED <<order, route, late, stops>>

(* The other reports; a route is accepted whatever its status.  A start and *)
(* a finish write a time of day, which may leave the two reversed: Dispatch *)
(* tells when.  A start is reported of a stop and writes all of its route.  *)
ReportRoute(r, status) ==
  /\ route[r].status # "none"
  /\ Readable(r)
  /\ status = "ongoing" => \E o \in StopsOn(r) : ~mission[o].reversed
  /\ \E reversed \in IF status \in {"ongoing", "finished"} THEN BOOLEAN ELSE {FALSE} :
       route' = [route EXCEPT ![r] = [status |-> status, reversed |-> reversed]]
  /\ mission' = [o \in Order |-> IF status = "ongoing" /\ o \in StopsOn(r)
                   THEN [mission[o] EXCEPT !.status = "ongoing"] ELSE mission[o]]
  /\ req' = Disturbed(Nil)
  /\ UNCHANGED <<order, late, stops>>

-----------------------------------------------------------------------------
(* A request ends after any of its commits: the process is restarted, the   *)
(* connection or the database fails.  What was committed stays.             *)
Stop(p) ==
  /\ req[p].pc # "idle"
  /\ stops < MaxStops
  /\ stops' = stops + 1
  /\ req' = [req EXCEPT ![p] = Idle]
  /\ UNCHANGED <<tables, late>>

(* The finish time is a time of day: it is past, and the next day it is not. *)
Clock ==
  /\ late' = ~late
  /\ UNCHANGED <<tables, req, stops>>

Sweeps(p) ==
  \/ \E r \in Route : SweepRoute(p, r)
  \/ \E o \in Order : SweepStop(p, o)
  \/ SweepOrder(p)
  \/ SweepClose(p)
  \/ SweepEnd(p)

Generates(p) ==
  \/ Check(p)
  \/ Solve(p)
  \/ \E r \in Route : PlanRoute(p, r)
  \/ \E o \in Order : PlanOrder(p, o) \/ PlanStop(p, o)

Cancels(p) ==
  \/ \E r \in Route : CancelRoute(p, r)
  \/ \E o \in Order : CancelStop(p, o) \/ CancelOrder(p, o)

Delivers(p) ==
  \/ \E o \in Order : Deliver(p, o)
  \/ DeliverStop(p) \/ DeliverOrder(p) \/ DeliverRoute(p)

Next ==
  \/ \E p \in Request :
       \/ \E gen \in SUBSET Order : Begin(p, gen)
       \/ Sweeps(p) \/ Generates(p) \/ Cancels(p) \/ Delivers(p)
       \/ Stop(p) \/ \E o \in Order : WriteFails(p, o)
  \/ \E o \in Order : CompletionFails(o)
  \/ \E r \in Route, status \in Reported : ReportRoute(r, status)
  \/ Clock

(* The event loop runs on a request that has a commit to make, and a client *)
(* keeps reading its routes.  Nothing is assumed of the solver, which is    *)
(* awaited without a time limit, of couriers or of the other requests.      *)
Fairness == WF_vars(Begin(Reader, {})) /\ WF_vars(Sweeps(Reader))

Spec == Init /\ [][Next]_vars /\ Fairness

-----------------------------------------------------------------------------
(* Properties                                                              *)

(* Rows hold the statuses of the enums, and a request only what it read.    *)
TypeOK ==
  /\ order \in [Order -> OrderStatus]
  /\ mission \in [Order -> MissionRow]
  /\ route \in [Route -> RouteRow]
  /\ late \in BOOLEAN
  /\ req \in [Request -> Requests]
  /\ stops \in 0..MaxStops

(* An order has a stop of a route, and the life that is promised of it.     *)
Tracked == {o \in Order : mission[o] # NoMission}
Life == INSTANCE OrderLifecycle WITH status <- order, tracked <- Tracked

(* However requests overlap and wherever they are stopped, no order is      *)
(* delivered that never had a stop, and none that has one is registered     *)
(* still: a plan writes its orders before their stops                       *)
(* (route_service.py:700-760), and nothing sets an order back.              *)
TrackedFirst == Life!TrackedBeforeDelivered

(* Overlapping requests move an order only as its life allows, and it is    *)
(* given its first stop as a scheduled order.  The second half is lost only *)
(* to a generation that somebody stepped on: it inserts the stop of an      *)
(* order that may be unassigned by then.                                    *)
OrdersMoveOn ==
  [][/\ \A o \in Order : Life!Move(o)
     /\ Life!Track \/ \E p \in Request :
          req[p].pc = "plan_stops" /\ ~req[p].alone /\ req'[p] # req[p]]_vars

(* What a generation checked still holds when it writes its plan, if nobody *)
(* stepped on it while it waited for the solver: no readable route is being *)
(* driven, the plan takes the place of a scheduled route unless there is    *)
(* none, and its orders may be planned (route_service.py:440-475).          *)
UndisturbedPlanFits ==
  [][\A p \in Request : req[p].alone =>
       /\ /\ req[p].pc = "plan_route" /\ req'[p].pc = "plan_orders"
          /\ \A r \in Route : Readable(r)
          => /\ \A r \in Route : route[r].status \notin Active
             /\ \/ route[req'[p].rt].status = "scheduled"
                \/ \A r \in Route : route[r].status # "scheduled"
       /\ req[p].pc = "plan_orders" /\ req'[p] # req[p] =>
            \A o \in req[p].todo : Life!Plannable(o)]_vars

(* A sweep that nobody steps on leaves no open stop on the route it closes, *)
(* and a cancellation neither, however many of both were stopped half-way   *)
(* before: the sweep writes the route last because a closed route is not    *)
(* swept again (route_service.py:984-1000), a cancellation may be repeated  *)
(* although the route is cancelled already (route_service.py:831-843).      *)
(* Both pass by all the stops of a route when one of them cannot be read.   *)
ClosingLeavesNoOpenStop ==
  [][\A p \in Request : req[p].alone /\ ~Unlisted(req[p].rt) =>
       /\ req[p].pc = "stops" /\ req'[p].pc = "sweep" =>
            \A o \in StopsOn(req[p].rt) :
              mission[o].status \in {"cancelled", "delivered"} /\ order[o] = "unassigned"
       /\ req[p].pc = "cancel_stops" /\ req'[p].pc = "cancel_orders" =>
            \A o \in StopsOn(req[p].rt) : mission'[o].status = "cancelled"]_vars

(* Once the clock stays past the finish time, every route is closed again   *)
(* and again, whatever was stopped, cancelled, planned or restarted: no     *)
(* route stays open for good.  A route that cannot be read suspends this,   *)
(* and so do stops that are reversed and mended for ever: each time, one    *)
(* may end a sweep that is under way.                                       *)
OverdueRoutesClose ==
  /\ <>[](late /\ \A r \in Route : Readable(r))
  /\ \A o \in Order : <>[]mission[o].reversed \/ <>[]~mission[o].reversed
  => \A r \in Route : []<>(route[r].status \in {"none"} \cup Closed)
=============================================================================
