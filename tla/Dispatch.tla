------------------------------ MODULE Dispatch ------------------------------
(***************************************************************************)
(* The dispatch core of the Koridor back end: orders, the routes planned   *)
(* for them, the missions (one stop of a route for one order) and the      *)
(* courier's metered deliveries.  CourierDuty adds the state the courier   *)
(* reports.                                                                *)
(*                                                                         *)
(* Every action is one complete API request of                             *)
(* core/services/{order,route,courier_state}_service.py, run without       *)
(* interference from another request; the requests that fail after some of *)
(* their commits leave what they had committed.  Requests that overlap are *)
(* the subject of RouteGeneration.                                         *)
(***************************************************************************)
EXTENDS Naturals, FiniteSets, Functions

CONSTANTS
  Courier, Terminal, Shift, Order, Route,
  Nil,           \* the NULL of a nullable column
  TerminalOf,    \* the hub a shift belongs to
  FinishOf,      \* the time of day a shift finishes at
  Limit,         \* delivery_limit of every courier's usage record
  MaxUsage,      \* bound of the model on the metered deliveries of a courier
  MaxReversed,   \* bound of the model on the missions that cannot be read
  Stamps,        \* the time stamps of a mission that the model tracks
  Outcomes       \* the delivered statuses that the model tracks

ASSUME NilIsNoId == Nil \notin Courier \cup Shift \cup Order \cup Route
ASSUME OrdersAreFinite == IsFiniteSet(Order)
ASSUME ShiftHasTerminal == TerminalOf \in [Shift -> Terminal]
ASSUME ShiftHasFinish == FinishOf \in [Shift -> Nat]
ASSUME BoundsAreNaturals == Limit \in Nat /\ MaxUsage \in Nat /\ MaxReversed \in Nat
ASSUME StampsAreKnown == Stamps \subseteq {"loaded", "arrived", "finished"}
ASSUME OutcomesAreKnown == Outcomes \subseteq {"delivered", "delivered_with_delay"}

VARIABLES
  order,     \* table orders
  mission,   \* table missions, keyed by its unique order_id
  route,     \* table routes
  usage      \* usage_records.delivery_count of the courier's billing customer

vars == <<order, mission, route, usage>>

(* Statuses.  "none" marks an id no row has had yet, "deleted" a row that  *)
(* was removed: ids are UUIDs and are never used again.                    *)
OrderStatusTypes ==
  {"registered", "scheduled", "delivered", "cancelled", "postponed", "unassigned"}
RouteStatesType ==
  {"scheduled", "loading", "ongoing", "return_to_hub", "finished", "cancelled"}
MissionStatusType ==
  {"scheduled", "ongoing", "delivered", "delivered_with_delay",
   "undelivered_unreachable", "cancelled"}
UndeliveredMissionStatus == {"Undelivered_Unreachable"}

OrderRow ==
  [status: OrderStatusTypes \cup {"none", "deleted"},
   courier: Courier \cup {Nil}, shift: Shift \cup {Nil}, movedAs: Order \cup {Nil}]
(* "reversed" is a mission finished at a time of day before that of its     *)
(* arrival: its actual service time is negative.                           *)
MissionRow ==
  [status: MissionStatusType \cup UndeliveredMissionStatus \cup {"none"},
   route: Route \cup {Nil}, position: Nat, stamps: SUBSET Stamps, reversed: BOOLEAN]
(* "shift" is the shift whose finish_time the route row holds; "times" what *)
(* is known of actual_start_time and actual_finish_time: both are times of  *)
(* day, "reversed" when the start is not before the finish.                 *)
ActualTimes == {"blank", "started", "finished", "ordered", "reversed"}
RouteRow ==
  [status: RouteStatesType \cup {"none"}, courier: Courier \cup {Nil},
   shift: Shift \cup {Nil}, current: Order \cup {Nil}, times: ActualTimes]

NoOrder   == [status |-> "none", courier |-> Nil, shift |-> Nil, movedAs |-> Nil]
NoMission == [status |-> "none", route |-> Nil, position |-> 0, stamps |-> {},
              reversed |-> FALSE]
NoRoute   == [status |-> "none", courier |-> Nil, shift |-> Nil, current |-> Nil,
              times |-> "blank"]

Init ==
  /\ order = [o \in Order |-> NoOrder]
  /\ mission = [o \in Order |-> NoMission]
  /\ route = [r \in Route |-> NoRoute]
  /\ usage = [c \in Courier |-> 0]

Exists(o) == order[o].status \notin {"none", "deleted"}
HasMission(o) == mission[o].status # "none"

-----------------------------------------------------------------------------
(* Orders: order_service.py                                                *)

CreateOrder(o, c, s) ==
  /\ order[o] = NoOrder
  /\ order' = [order EXCEPT ![o] = [status |-> "registered", courier |-> c,
                                    shift |-> s, movedAs |-> Nil]]
  /\ UNCHANGED <<mission, route, usage>>

(* Mutant of HardDeleteOrder: the status of the row is not asked.          *)
HardDeleteAnyOrder(o) ==
  /\ Exists(o)
  /\ order' = [order EXCEPT ![o] = [NoOrder EXCEPT !.status = "deleted"]]
  /\ mission' = [mission EXCEPT ![o] = NoMission]
  /\ UNCHANGED <<route, usage>>

(* A registered order is removed, and the mission of the row goes with it. *)
HardDeleteOrder(o) ==
  /\ order[o].status = "registered"
  /\ order' = [order EXCEPT ![o] = [NoOrder EXCEPT !.status = "deleted"]]
  /\ mission' = [mission EXCEPT ![o] = NoMission]
  /\ UNCHANGED <<route, usage>>

SoftDeleteOrder(o) ==
  /\ order[o].status \in {"postponed", "unassigned"}
  /\ order' = [order EXCEPT ![o].status = "cancelled"]
  /\ UNCHANGED <<mission, route, usage>>

(* Each order of the request becomes "postponed", whatever it was, and a   *)
(* registered copy is made for the new date; copyOf maps new ids to them.  *)
PostponeOrders(copyOf, s) ==
  LET copies == DOMAIN copyOf
      originals == {copyOf[n] : n \in copies}
  IN /\ copies # {}
     /\ \A n \in copies : order[n] = NoOrder
     /\ \A o \in originals : Exists(o)
     /\ order' = [o \in Order |->
          IF o \in originals THEN [order[o] EXCEPT !.status = "postponed"]
          ELSE IF o \in copies
            THEN [status |-> "registered", courier |-> order[copyOf[o]].courier,
                  shift |-> s, movedAs |-> copyOf[o]]
            ELSE order[o]]
     /\ UNCHANGED <<mission, route, usage>>

-----------------------------------------------------------------------------
(* Routes: route_service.py                                                *)

(* The clocks a request may meet: a set of shifts that finish earlier.      *)
LateSets ==
  {{}} \cup {{s \in Shift : FinishOf[s] <= FinishOf[t]} : t \in Shift}

(* A row with reversed times fails the validation of the Route entity:      *)
(* a look-up by id then finds no route and a list that holds it is empty.   *)
Readable(rte, r) == rte[r].times # "reversed"

Listed(rte, rows) == IF \A r \in rows : Readable(rte, r) THEN rows ELSE {}

PastShift(late) ==
  {r \in Route : /\ route[r].status \notin {"none", "finished", "cancelled"}
                 /\ route[r].shift \in late}

(* So it is with missions.  A negative service time fails the validation of *)
(* the Mission entity, and no request can mend a row it cannot read: to a   *)
(* look-up there is no such mission, and a list that holds it is empty.     *)
Legible(o) == ~mission[o].reversed

Illegible == {o \in Order : ~Legible(o)}

StopsOf(r) == {o \in Order : mission[o].route = r}

(* Mutant of ListedStops: the rows are listed as they are.                 *)
EveryStop(r) == StopsOf(r)

ListedStops(r) == IF \A o \in StopsOf(r) : Legible(o) THEN StopsOf(r) ELSE {}

(* The sweep that every read of routes and every route generation starts    *)
(* with: "late" is the set of shifts whose finish time the clock is past.   *)
Overdue(late) == Listed(route, PastShift(late))

SweptStops(late) == UNION {ListedStops(r) : r \in Overdue(late)}

SweptMission(late) ==
  [o \in Order |->
     IF o \in SweptStops(late) /\ mission[o].status # "delivered"
     THEN [mission[o] EXCEPT !.status = "cancelled"] ELSE mission[o]]

SweptOrder(late) ==
  [o \in Order |->
     IF o \in SweptStops(late)
     THEN [order[o] EXCEPT !.status = "unassigned"] ELSE order[o]]

SweptRoute(late) ==
  [r \in Route |->
     IF r \in Overdue(late) THEN [route[r] EXCEPT !.status = "cancelled"] ELSE route[r]]

(* Any read of routes, and any route generation that is refused or whose   *)
(* solver fails: the sweep is all it does.                                 *)
ReadRoutes(late) ==
  /\ Overdue(late) # {}
  /\ order' = SweptOrder(late)
  /\ mission' = SweptMission(late)
  /\ route' = SweptRoute(late)
  /\ UNCHANGED usage

AtTerminal(rte, t) ==
  {r \in Route : rte[r].status # "none" /\ TerminalOf[rte[r].shift] = t}

(* The current routes generate_route looks at. *)
KnownAt(rte, t) == Listed(rte, AtTerminal(rte, t))

(* Mutant of ScheduledAt: a finished route is taken for a free one.        *)
FreeAt(rte, t) == {r \in KnownAt(rte, t) : rte[r].status \in {"scheduled", "finished"}}

ScheduledAt(rte, t) == {r \in KnownAt(rte, t) : rte[r].status = "scheduled"}

(* Mutant of MayGenerate: the courier of an order is not asked.            *)
MayGenerateForAnyone(c, s, req, late) ==
  /\ usage[c] + Cardinality(req) <= Limit
  /\ \A r \in KnownAt(SweptRoute(late), TerminalOf[s]) :
       SweptRoute(late)[r].status \notin {"ongoing", "loading", "return_to_hub"}
  /\ \A o \in req :
       /\ SweptOrder(late)[o].status \in {"registered", "unassigned", "scheduled"}
       /\ order[o].shift = s

(* What generate_route checks before it asks the solver, on the tables the *)
(* sweep left.                                                             *)
MayGenerate(c, s, req, late) ==
  /\ usage[c] + Cardinality(req) <= Limit
  /\ \A r \in KnownAt(SweptRoute(late), TerminalOf[s]) :
       SweptRoute(late)[r].status \notin {"ongoing", "loading", "return_to_hub"}
  /\ \A o \in req :
       /\ SweptOrder(late)[o].status \in {"registered", "unassigned", "scheduled"}
       /\ order[o].courier = c
       /\ order[o].shift = s

PlannedOrder(req, assigned, late) ==
  [o \in Order |->
     IF o \in req
     THEN [SweptOrder(late)[o] EXCEPT
             !.status = IF o \in assigned THEN "scheduled" ELSE "unassigned"]
     ELSE SweptOrder(late)[o]]

(* Mutant of Replanned: the whole row is written, not a few columns of it. *)
Overwritten(m, pos) ==
  [m EXCEPT !.status = "scheduled", !.position = pos, !.stamps = {}]

(* mission_repository.update: status and position are written, the route   *)
(* and the time stamps of the existing row are kept.                       *)
Replanned(m, pos) == [m EXCEPT !.status = "scheduled", !.position = pos]

(* The stops whose missions are written: those before the first that fails. *)
Reached(pos, failing) ==
  {o \in DOMAIN pos : \A p \in DOMAIN pos : pos[p] <= pos[o] => p \notin failing}

(* The rows of the stops that are written: new ones on r for the orders     *)
(* without a mission, an update of those that exist.                        *)
PlannedMission(pos, written, late, r) ==
  [o \in Order |->
     IF o \notin written THEN SweptMission(late)[o]
     ELSE IF HasMission(o) THEN Replanned(SweptMission(late)[o], pos[o])
     ELSE [NoMission EXCEPT !.status = "scheduled", !.route = r, !.position = pos[o]]]

(* The solver found no route: every order of the request is unassigned.    *)
GenerateNothing(c, s, req, late) ==
  /\ MayGenerate(c, s, req, late)
  /\ order' = PlannedOrder(req, {}, late)
  /\ mission' = SweptMission(late)
  /\ route' = SweptRoute(late)
  /\ UNCHANGED usage

(* Mutant of GenerateNew: the scheduled route is looked up by its shift.   *)
GenerateNewPerShift(c, s, req, late, pos, r) ==
  /\ MayGenerate(c, s, req, late)
  /\ \A q \in ScheduledAt(SweptRoute(late), TerminalOf[s]) : route[q].shift # s
  /\ route[r] = NoRoute
  /\ route' = [SweptRoute(late) EXCEPT
                 ![r] = [status |-> "scheduled", courier |-> c, shift |-> s,
                         current |-> Nil, times |-> "blank"]]
  /\ order' = PlannedOrder(req, DOMAIN pos, late)
  /\ mission' = PlannedMission(pos, Reached(pos, Illegible), late, r)
  /\ UNCHANGED usage

(* No scheduled route at the terminal: a new one.  A mission that cannot   *)
(* be read is taken for a missing one: the insert of a second one breaks    *)
(* the unique key and ends the request, after the route, the orders and the *)
(* missions of the earlier stops were committed.                           *)
GenerateNew(c, s, req, late, pos, r) ==
  /\ MayGenerate(c, s, req, late)
  /\ ScheduledAt(SweptRoute(late), TerminalOf[s]) = {}
  /\ route[r] = NoRoute
  /\ route' = [SweptRoute(late) EXCEPT
                 ![r] = [status |-> "scheduled", courier |-> c, shift |-> s,
                         current |-> Nil, times |-> "blank"]]
  /\ order' = PlannedOrder(req, DOMAIN pos, late)
  /\ mission' = PlannedMission(pos, Reached(pos, Illegible), late, r)
  /\ UNCHANGED usage

(* A scheduled route of the terminal, of any courier, is planned anew.     *)
(* The missions carry the fresh route id of the solver's answer and not    *)
(* the id of the reused route, so the first insert breaks the foreign key  *)
(* and ends the request after the route, the orders and the missions of    *)
(* the earlier stops were committed.                                       *)
GenerateReuse(c, s, req, late, pos, r) ==
  LET untracked == {o \in Order : ~HasMission(o)}
  IN /\ MayGenerate(c, s, req, late)
     /\ r \in ScheduledAt(SweptRoute(late), TerminalOf[s])
     /\ route' = [SweptRoute(late) EXCEPT
                    ![r].status = "scheduled", ![r].shift = s,
                    ![r].current = Nil, ![r].times = "blank"]
     /\ order' = PlannedOrder(req, DOMAIN pos, late)
     /\ mission' = PlannedMission(pos, Reached(pos, Illegible \cup untracked), late, r)
     /\ UNCHANGED usage

(* Mutant of CancelRoute: the orders start over as registered ones.        *)
CancelRouteToRegistered(r) ==
  /\ route[r].status # "none"
  /\ Readable(route, r)
  /\ route' = [route EXCEPT ![r].status = "cancelled"]
  /\ mission' = [o \in Order |->
       IF o \in ListedStops(r) THEN [mission[o] EXCEPT !.status = "cancelled"]
       ELSE mission[o]]
  /\ order' = [o \in Order |->
       IF o \in ListedStops(r) THEN [order[o] EXCEPT !.status = "registered"]
       ELSE order[o]]
  /\ UNCHANGED usage

(* Without a list of its stops the route is cancelled and nothing else.    *)
CancelRoute(r) ==
  /\ route[r].status # "none"
  /\ Readable(route, r)
  /\ route' = [route EXCEPT ![r].status = "cancelled"]
  /\ mission' = [o \in Order |->
       IF o \in ListedStops(r) THEN [mission[o] EXCEPT !.status = "cancelled"]
       ELSE mission[o]]
  /\ order' = [o \in Order |->
       IF o \in ListedStops(r) THEN [order[o] EXCEPT !.status = "unassigned"]
       ELSE order[o]]
  /\ UNCHANGED usage

-----------------------------------------------------------------------------
(* The courier's requests: courier_state_service.py.  Waypoints (idle,     *)
(* arrived at hub) change nothing here.                                    *)

(* Mutant of AcceptRoute: any courier may report on any route.             *)
AcceptAnyCourier(c, r) == route[r].status # "none" /\ Readable(route, r)

AcceptRoute(c, r) ==
  /\ route[r].status # "none"
  /\ Readable(route, r)
  /\ route[r].courier = c

AcceptStop(c, r, o) ==
  /\ AcceptRoute(c, r)
  /\ Exists(o)
  /\ mission[o].route = r
  /\ Legible(o)

Stamped(m, what) == [m EXCEPT !.stamps = @ \cup ({what} \cap Stamps)]

AfterStart(times) ==
  IF times \in {"blank", "started"} THEN {"started"} ELSE {"ordered", "reversed"}

AfterFinish(times) ==
  IF times \in {"blank", "finished"} THEN {"finished"} ELSE {"ordered", "reversed"}

StartLoading(c, r) ==
  /\ AcceptRoute(c, r)
  /\ route' = [route EXCEPT ![r].status = "loading"]
  /\ UNCHANGED <<order, mission, usage>>

(* The missions m of the route all become ongoing.  A start at a time of   *)
(* day past an earlier finish is committed like any other.                 *)
Started(m, r) ==
  [o \in Order |-> IF m[o].route = r THEN [m[o] EXCEPT !.status = "ongoing"] ELSE m[o]]

RouteStarted(r, o, times) ==
  [route EXCEPT ![r] = [@ EXCEPT !.status = "ongoing", !.current = o, !.times = times]]

StartRoute(c, r, o, times) ==
  /\ AcceptStop(c, r, o)
  /\ times \in AfterStart(route[r].times)
  /\ mission' = Started(mission, r)
  /\ route' = RouteStarted(r, o, times)
  /\ UNCHANGED <<order, usage>>

ArrivedAtDelivery(c, r, o) ==
  /\ AcceptStop(c, r, o)
  /\ mission' = [mission EXCEPT ![o] = Stamped(@, "arrived")]
  /\ UNCHANGED <<order, route, usage>>

Delivered(c, r, o, outcome) ==
  /\ AcceptStop(c, r, o)
  /\ usage[c] < MaxUsage
  /\ mission' = [mission EXCEPT ![o].status = outcome]
  /\ order' = [order EXCEPT ![o].status = "delivered"]
  /\ usage' = [usage EXCEPT ![c] = @ + 1]
  /\ UNCHANGED route

Undelivered(c, r, o, reason) ==
  /\ AcceptStop(c, r, o)
  /\ mission' = [mission EXCEPT ![o].status = reason]
  /\ order' = [order EXCEPT ![o].status = "postponed"]
  /\ UNCHANGED <<route, usage>>

(* Mutant of NextStops: the query forgets the route.                       *)
NextAnywhere(r, o) ==
  {p \in Order : HasMission(p) /\ mission[p].position = mission[o].position + 1}

(* Replanned missions may share a position of the route.                   *)
NextStops(r, o) ==
  {p \in Order : mission[p].route = r /\ mission[p].position = mission[o].position + 1}

StartNextDelivery(c, r, o) ==
  /\ AcceptStop(c, r, o)
  /\ mission' = [mission EXCEPT ![o] = Stamped(@, "finished")]
  /\ \/ /\ NextStops(r, o) = {}
        /\ UNCHANGED route
     \/ \E p \in Order :
          /\ NextStops(r, o) = {p}
          /\ Legible(p)
          /\ route' = [route EXCEPT ![r].current = p]
  /\ UNCHANGED <<order, usage>>

(* Two stops at the next position, or one that cannot be read: the query    *)
(* for one row fails after the mission was committed.                      *)
NextFails(r, o) ==
  \/ Cardinality(NextStops(r, o)) > 1
  \/ \E p \in NextStops(r, o) : ~Legible(p)

StartNextDeliveryFails(c, r, o) ==
  /\ AcceptStop(c, r, o)
  /\ NextFails(r, o)
  /\ mission' = [mission EXCEPT ![o] = Stamped(@, "finished")]
  /\ UNCHANGED <<order, route, usage>>

ReturnToHub(c, r, o) ==
  /\ AcceptStop(c, r, o)
  /\ mission' = [mission EXCEPT ![o] = Stamped(@, "finished")]
  /\ route' = [route EXCEPT ![r].status = "return_to_hub"]
  /\ UNCHANGED <<order, usage>>

(* _complete_mission of a stop that has an arrival time, at a time of day   *)
(* before it: the negative service time is committed, reading the row back *)
(* fails, and with it the request before anything else is written.         *)
CompletedInReverse(o) ==
  /\ "arrived" \in Stamps => "arrived" \in mission[o].stamps
  /\ Cardinality(Illegible) < MaxReversed
  /\ mission' = [mission EXCEPT ![o] = [Stamped(@, "finished") EXCEPT !.reversed = TRUE]]
  /\ UNCHANGED <<order, route, usage>>

(* StartNextDelivery or ReturnToHub, ended by it.                          *)
CompletionFails(c, r, o) == AcceptStop(c, r, o) /\ CompletedInReverse(o)

(* The current mission is completed if it can be read.                     *)
Completed(o, r) == o = route[r].current /\ Legible(o)

(* Mutant of FinishRoute: the state of the courier is stored for the route. *)
FinishRouteAsReported(c, r, times) ==
  /\ AcceptRoute(c, r)
  /\ times \in AfterFinish(route[r].times)
  /\ mission' = [o \in Order |->
       IF Completed(o, r) THEN Stamped(mission[o], "finished") ELSE mission[o]]
  /\ route' = [route EXCEPT ![r].status = "finish_route", ![r].times = times]
  /\ UNCHANGED <<order, usage>>

FinishRoute(c, r, times) ==
  /\ AcceptRoute(c, r)
  /\ times \in AfterFinish(route[r].times)
  /\ mission' = [o \in Order |->
       IF Completed(o, r) THEN Stamped(mission[o], "finished") ELSE mission[o]]
  /\ route' = [route EXCEPT ![r].status = "finished", ![r].times = times]
  /\ UNCHANGED <<order, usage>>

FinishFails(c, r, o) ==
  /\ AcceptRoute(c, r)
  /\ Completed(o, r)
  /\ "finished" \notin mission[o].stamps
  /\ CompletedInReverse(o)

(* start_route_self_managed: scan every parcel of the request, then start  *)
(* the route at its first order.  Scanning never asks whose route it is.   *)
Parcels(req) == {o \in req : Exists(o)}

Loadable(r) ==
  {o \in Order : /\ Exists(o)
                 /\ order[o].status # "cancelled"
                 /\ mission[o].route = r
                 /\ Legible(o)}

Scanned(loaded) ==
  [o \in Order |-> IF o \in loaded THEN Stamped(mission[o], "loaded") ELSE mission[o]]

StartSelfManaged(c, r, req, first, times) ==
  /\ first \in req
  /\ Parcels(req) \subseteq Loadable(r)
  /\ AcceptStop(c, r, first)
  /\ times \in AfterStart(route[r].times)
  /\ mission' = Started(Scanned(Parcels(req)), r)
  /\ route' = RouteStarted(r, first, times)
  /\ UNCHANGED <<order, usage>>

(* A parcel that cannot be loaded ends the request after those whose rows  *)
(* came before it.                                                         *)
LoadingFails(r, req, loaded) ==
  /\ route[r].status # "none"
  /\ Readable(route, r)
  /\ Parcels(req) \ Loadable(r) # {}
  /\ loaded \subseteq Parcels(req) \cap Loadable(r)
  /\ mission' = Scanned(loaded)
  /\ UNCHANGED <<order, route, usage>>

(* Every parcel is loaded and then the start is turned down.               *)
LoadedStartFails(c, r, req, first) ==
  /\ route[r].status # "none"
  /\ Readable(route, r)
  /\ first \in req
  /\ Parcels(req) # {}
  /\ Parcels(req) \subseteq Loadable(r)
  /\ ~AcceptStop(c, r, first)
  /\ mission' = Scanned(Parcels(req))
  /\ UNCHANGED <<order, route, usage>>

-----------------------------------------------------------------------------
ManageOrder ==
  \/ \E o \in Order, c \in Courier, s \in Shift : CreateOrder(o, c, s)
  \/ \E o \in Order : HardDeleteOrder(o) \/ SoftDeleteOrder(o)
  \/ \E originals \in SUBSET Order, s \in Shift :
       \E copies \in SUBSET (Order \ originals) :
         \E copyOf \in Bijection(copies, originals) : PostponeOrders(copyOf, s)

ManageRoute ==
  \/ \E late \in LateSets :
       \/ ReadRoutes(late)
       \/ \E c \in Courier, s \in Shift, req \in (SUBSET Order) \ {{}} :
            \/ GenerateNothing(c, s, req, late)
            \/ \E assigned \in (SUBSET req) \ {{}}, r \in Route :
                 \E pos \in Bijection(assigned, 1..Cardinality(assigned)) :
                   \/ GenerateNew(c, s, req, late, pos, r)
                   \/ GenerateReuse(c, s, req, late, pos, r)
  \/ \E r \in Route : CancelRoute(r)

CourierOnRoute(c, r) ==
  \/ StartLoading(c, r)
  \/ \E o \in Order, times \in ActualTimes : StartRoute(c, r, o, times)
  \/ \E o \in Order : ReturnToHub(c, r, o)
  \/ \E times \in ActualTimes : FinishRoute(c, r, times)
  \/ \E req \in SUBSET Order, times \in ActualTimes : \E first \in req :
       StartSelfManaged(c, r, req, first, times)
  \/ \E req \in SUBSET Order : \E loaded \in SUBSET req : LoadingFails(r, req, loaded)
  \/ \E req \in SUBSET Order : \E first \in req : LoadedStartFails(c, r, req, first)

CourierAtStop(c, r, o) ==
  \/ ArrivedAtDelivery(c, r, o)
  \/ \E outcome \in Outcomes : Delivered(c, r, o, outcome)
  \/ \E reason \in UndeliveredMissionStatus : Undelivered(c, r, o, reason)
  \/ StartNextDelivery(c, r, o)
  \/ StartNextDeliveryFails(c, r, o)
  \/ CompletionFails(c, r, o)
  \/ FinishFails(c, r, o)

Next ==
  \/ ManageOrder
  \/ ManageRoute
  \/ \E c \in Courier, r \in Route :
       CourierOnRoute(c, r) \/ \E o \in Order : CourierAtStop(c, r, o)

Spec == Init /\ [][Next]_vars

-----------------------------------------------------------------------------
(* Safety                                                                  *)

(* Every table holds rows of its declared types: the statuses of the enums *)
(* (UndeliveredMissionStatus included), known ids, time stamps of the model.*)
TypeOK ==
  /\ order \in [Order -> OrderRow]
  /\ mission \in [Order -> MissionRow]
  /\ route \in [Route -> RouteRow]
  /\ usage \in [Courier -> Nat]

(* delete_order removes a registered order, and the database cascades to   *)
(* its mission.  No order is "registered" once it has a mission, however   *)
(* often it was planned, swept, cancelled or postponed, so a deletion never *)
(* takes a stop out of a courier's route.                                  *)
RegisteredHasNoMission ==
  \A o \in Order : order[o].status \in {"none", "registered", "deleted"} => ~HasMission(o)

(* A mission belongs to an order and to a route that exist, and the three  *)
(* tables agree on the courier: what set_courier_state relies on when it   *)
(* checks the courier of the route only.                                   *)
MissionOwnership ==
  \A o \in Order : HasMission(o) =>
    /\ Exists(o)
    /\ mission[o].route \in Route
    /\ route[mission[o].route].status # "none"
    /\ route[mission[o].route].courier = order[o].courier

(* The current mission of a route is a mission of that route.              *)
CurrentMissionOnRoute ==
  \A r \in Route : route[r].current # Nil =>
    /\ HasMission(route[r].current)
    /\ mission[route[r].current].route = r

(* While the routes of a terminal can be listed, route generation keeps a  *)
(* single scheduled route there: a second request reuses it.               *)
OneScheduledRoute ==
  \A r, q \in Route :
    /\ route[r].status = "scheduled"
    /\ route[q].status = "scheduled"
    /\ TerminalOf[route[r].shift] = TerminalOf[route[q].shift]
    /\ KnownAt(route, TerminalOf[route[r].shift]) # {}
    => r = q

(* No delivery goes unmetered: a courier's delivered orders, moved copies  *)
(* included, are never more than its metered deliveries.                   *)
DeliveriesMetered ==
  \A c \in Courier :
    Cardinality({o \in Order : order[o].status = "delivered" /\ order[o].courier = c})
      <= usage[c]

(* A route that a courier has begun, or that ended, is never planned anew. *)
NeverBackToScheduled ==
  [][\A r \in Route : route[r].status \notin {"none", "scheduled"}
       => route'[r].status # "scheduled"]_vars

(* A mission is permanent: it stays on the route it was created for and    *)
(* keeps every time stamp, through replanning, sweeps and cancellations.   *)
MissionPinned ==
  [][\A o \in Order : HasMission(o) =>
       /\ mission'[o].status # "none"
       /\ mission'[o].route = mission[o].route
       /\ mission[o].stamps \subseteq mission'[o].stamps]_vars

(* A mission that cannot be read stays as it is for good, whatever is      *)
(* planned, swept, cancelled, postponed or deleted: only the start of its  *)
(* route, which writes every status of it in one statement, changes it.    *)
(* Its order is never delivered from then on.                              *)
UnreadableForGood ==
  [][\A o \in Order : mission[o].reversed =>
       /\ mission'[o] \in {mission[o], [mission[o] EXCEPT !.status = "ongoing"]}
       /\ order'[o].status = "delivered" => order[o].status = "delivered"]_vars

(* The life cycle of OrderLifecycle: what the requests do to the statuses  *)
(* of orders, taken together with which orders have a mission.             *)
Lifecycle == INSTANCE OrderLifecycle WITH
  status <- [o \in Order |-> order[o].status],
  tracked <- {o \in Order : HasMission(o)}

(* Dispatch implements it: an order is deleted only before it has a stop,  *)
(* delivered only with one, cancelled only from postponed or unassigned.   *)
ImplementsLifecycle == Lifecycle!Spec
=============================================================================
