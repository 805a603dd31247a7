----------------------- MODULE RouteGenerationProofs -----------------------
(***************************************************************************)
(* Theorems about RouteGeneration for any orders, routes and number of     *)
(* requests: its tables are well typed, what a sweep or a cancellation     *)
(* closes has no open stop, orders move as OrderLifecycle allows, and a    *)
(* plan that nobody stepped on is written as it was checked.               *)
(***************************************************************************)
EXTENDS RouteGeneration, TLAPS

-----------------------------------------------------------------------------
(* Types                                                                   *)

LEMMA IdleTyped == Idle \in Requests /\ Idle.pc = "idle" /\ Idle.alone
BY DEF Idle, Requests, Step, NoRoute, RouteRow

LEMMA RowsTyped ==
  /\ NoRoute \in RouteRow /\ Planned \in RouteRow /\ NoMission \in MissionRow
  /\ {"none", "scheduled", "loading", "ongoing", "return_to_hub", "finished", "cancelled"}
       = {"none", "scheduled"} \cup Active \cup Closed
BY DEF NoRoute, Planned, RouteRow, NoMission, MissionRow, MissionStatus, Active, Closed

(* The rows a request reads are rows of the table.                          *)
LEMMA SnapshotsTyped ==
  ASSUME TypeOK, NEW rs
  PROVE  Snapshot(rs) \in [Route -> RouteRow] /\ Cancelled(rs) \in [Route -> RouteRow]
<1>1. \A r \in Route : route[r] \in RouteRow
  BY DEF TypeOK
<1>2. \A r \in Route : [route[r] EXCEPT !.status = "cancelled"] \in RouteRow
  BY <1>1, RowsTyped DEF RouteRow
<1> QED BY <1>1, <1>2, RowsTyped DEF Snapshot, Cancelled

(* Requests stay typed in a step that goes on with a typed record.          *)
LEMMA DisturbedTyped ==
  ASSUME TypeOK, NEW p
  PROVE  Disturbed(p) \in [Request -> Requests]
<1>1. \A q \in Request : req[q] \in Requests /\ [req[q] EXCEPT !.alone = FALSE] \in Requests
  BY DEF TypeOK, Requests
<1> QED BY <1>1 DEF Disturbed

LEMMA RequestsTyped ==
  ASSUME TypeOK, NEW p \in Request, NEW rec \in Requests, Goes(p, rec) \/ Looks(p, rec)
  PROVE  req' \in [Request -> Requests]
BY DisturbedTyped DEF TypeOK, Goes, Looks

LEMMA AfterSweepTyped ==
  ASSUME TypeOK, NEW p \in Request
  PROVE  /\ AfterSweep(p) \in Requests
         /\ AfterSweep(p).pc \in {"idle", "check"}
         /\ AfterSweep(p).due = {} /\ AfterSweep(p).plan = {}
         /\ AfterSweep(p).pc = "check" => AfterSweep(p).alone = req[p].alone
<1>1. req[p] \in Requests
  BY DEF TypeOK
<1>2. CASE req[p].gen = {}
  BY <1>2, IdleTyped DEF AfterSweep, Idle
<1>3. CASE req[p].gen # {}
  <2> DEFINE rec == [Idle EXCEPT !.pc = "check", !.gen = req[p].gen, !.alone = req[p].alone]
  <2>1. /\ rec \in Requests /\ rec.pc = "check" /\ rec.due = {} /\ rec.plan = {}
        /\ rec.alone = req[p].alone
    BY <1>1, IdleTyped DEF Requests, Step, Idle
  <2>2. AfterSweep(p) = rec
    BY <1>3 DEF AfterSweep
  <2> HIDE DEF rec
  <2> QED BY <2>1, <2>2
<1> QED BY <1>2, <1>3

(* What a stop keeps when it is written back, and all that a stop that can  *)
(* be read keeps.                                                           *)
LEMMA Rewritten ==
  ASSUME TypeOK, NEW o, NEW status \in {"cancelled", "delivered"}, Rewrite(o, status)
  PROVE  /\ mission' \in [Order -> MissionRow]
         /\ \A x \in Order : /\ mission'[x].route = mission[x].route
                             /\ x # o => mission'[x] = mission[x]
                             /\ ~mission[x].reversed => ~mission'[x].reversed
         /\ o \in Order => mission'[o].status = status
<1>1. PICK reversed \in {FALSE, mission[o].reversed} :
        mission' = [mission EXCEPT
                     ![o] = [mission[o] EXCEPT !.status = status, !.reversed = reversed]]
  BY DEF Rewrite
<1>2. mission \in [Order -> MissionRow]
  BY DEF TypeOK
<1>3. \A x \in Order :
        mission'[x] = IF x = o
          THEN [mission[x] EXCEPT !.status = status, !.reversed = reversed] ELSE mission[x]
  BY <1>1, <1>2
<1>4. \A x \in Order : mission'[x] \in MissionRow
  <2>1. status \in MissionStatus
    BY DEF MissionStatus
  <2>2. SUFFICES ASSUME NEW x \in Order
                 PROVE  mission'[x] \in MissionRow
    OBVIOUS
  <2>3. mission[x] \in MissionRow
    BY <1>2
  <2>4. mission[x].reversed \in BOOLEAN
    BY <2>3 DEF MissionRow
  <2>5. \A b \in BOOLEAN :
          [mission[x] EXCEPT !.status = status, !.reversed = b] \in MissionRow
    BY <2>1, <2>3 DEF MissionRow
  <2>6. CASE x = o
    BY <1>1, <1>3, <2>4, <2>5, <2>6
  <2>7. CASE x # o
    BY <1>3, <2>3, <2>7
  <2> QED BY <2>6, <2>7
<1>5. mission' \in [Order -> MissionRow]
  BY <1>1, <1>2, <1>4
<1> QED BY <1>1, <1>2, <1>3, <1>5 DEF MissionRow

LEMMA RewrittenAsRead ==
  ASSUME TypeOK, NEW o \in Order, NEW status, Rewrite(o, status), ~mission[o].reversed
  PROVE  mission'[o] = [mission[o] EXCEPT !.status = status]
<1>1. mission \in [Order -> MissionRow]
  BY DEF TypeOK
<1>2. mission' = [mission EXCEPT
                   ![o] = [mission[o] EXCEPT !.status = status, !.reversed = FALSE]]
  BY <1>1 DEF Rewrite, MissionRow
<1> QED BY <1>1, <1>2 DEF MissionRow

LEMMA SweepTyped ==
  ASSUME TypeOK, NEW p \in Request,
         Sweeps(p) \/ \E gen \in SUBSET Order : Begin(p, gen)
  PROVE  TypeOK'
<1>1. req[p] \in Requests
  BY DEF TypeOK
<1>2. ASSUME NEW gen \in SUBSET Order, Begin(p, gen) PROVE TypeOK'
  <2>1. [Idle EXCEPT !.pc = "sweep", !.gen = gen, !.due = Overdue, !.rows = Cancelled(Overdue)]
          \in Requests
    <3>1. Overdue \subseteq Route
      BY DEF Overdue, Listed, PastShift
    <3> QED BY <3>1, SnapshotsTyped, IdleTyped DEF Requests, Step
  <2>2. req' \in [Request -> Requests]
    BY <1>2, <2>1, RequestsTyped DEF Begin
  <2> QED BY <1>2, <2>2 DEF Begin, tables, TypeOK
<1>3. ASSUME NEW r \in Route, SweepRoute(p, r) PROVE TypeOK'
  <2>1. [req[p] EXCEPT !.pc = "stops", !.rt = r, !.todo = ListedStops(r),
           !.kept = {o \in ListedStops(r) : mission[o].status = "delivered"}] \in Requests
    BY <1>1 DEF Requests, Step, ListedStops, StopsOn
  <2>2. req' \in [Request -> Requests]
    BY <1>3, <2>1, RequestsTyped DEF SweepRoute
  <2> QED BY <1>3, <2>2 DEF SweepRoute, tables, TypeOK
<1>4. ASSUME NEW o \in Order, SweepStop(p, o) PROVE TypeOK'
  <2>1. [req[p] EXCEPT !.pc = "stop_order", !.at = o, !.todo = @ \ {o}] \in Requests
    BY <1>1 DEF Requests, Step
  <2>2. req' \in [Request -> Requests]
    BY <1>4, <2>1, RequestsTyped DEF SweepStop
  <2>3. mission' \in [Order -> MissionRow]
    BY <1>4, Rewritten DEF SweepStop, TypeOK
  <2> QED BY <1>4, <2>2, <2>3 DEF SweepStop, TypeOK
<1>5. CASE SweepOrder(p)
  <2>1. [req[p] EXCEPT !.pc = "stops", !.at = Nil] \in Requests
    BY <1>1 DEF Requests, Step
  <2>2. req' \in [Request -> Requests]
    BY <1>5, <2>1, RequestsTyped DEF SweepOrder
  <2>3. order' \in [Order -> OrderStatus]
    BY <1>5 DEF SweepOrder, TypeOK, OrderStatus
  <2> QED BY <1>5, <2>2, <2>3 DEF SweepOrder, TypeOK
<1>6. CASE SweepClose(p)
  <2>1. [req[p] EXCEPT !.pc = "sweep", !.rt = Nil, !.due = @ \ {req[p].rt},
           !.rows[req[p].rt] = NoRoute, !.kept = {}] \in Requests
    <3>1. [req[p].rows EXCEPT ![req[p].rt] = NoRoute] \in [Route -> RouteRow]
      BY <1>1, RowsTyped DEF Requests
    <3> QED BY <1>1, <3>1 DEF Requests, Step
  <2>2. req' \in [Request -> Requests]
    BY <1>6, <2>1, RequestsTyped DEF SweepClose
  <2>3. route' \in [Route -> RouteRow]
    <3>1. \A r \in Route : req[p].rows[r] \in RouteRow
      BY <1>1 DEF Requests
    <3> QED BY <1>6, <3>1 DEF SweepClose, TypeOK
  <2> QED BY <1>6, <2>2, <2>3 DEF SweepClose, TypeOK
<1>7. CASE SweepEnd(p)
  <2>1. req' \in [Request -> Requests]
    BY <1>7, AfterSweepTyped, RequestsTyped DEF SweepEnd
  <2> QED BY <1>7, <2>1 DEF SweepEnd, tables, TypeOK
<1> QED BY <1>2, <1>3, <1>4, <1>5, <1>6, <1>7 DEF Sweeps

LEMMA GenerateTyped ==
  ASSUME TypeOK, NEW p \in Request, Generates(p)
  PROVE  TypeOK'
<1>1. req[p] \in Requests
  BY DEF TypeOK
<1>2. CASE Check(p)
  <2>1. \A r \in Route \cup {Nil} :
          [req[p] EXCEPT !.pc = "solve", !.rt = r, !.fresh = (r = Nil)] \in Requests
    BY <1>1 DEF Requests, Step
  <2>2. req' \in [Request -> Requests]
    <3>1. CASE Looks(p, Idle)
      BY <3>1, IdleTyped, RequestsTyped
    <3>2. CASE \E r \in Route \cup {Nil} :
                 Looks(p, [req[p] EXCEPT !.pc = "solve", !.rt = r, !.fresh = (r = Nil)])
      BY <2>1, <3>2, RequestsTyped
    <3>3. \A rs \in SUBSET Route : Listed(rs) \subseteq Route
      BY DEF Listed
    <3> DEFINE known == Listed({r \in Route : route[r].status # "none"})
    <3>4. known \subseteq Route
      BY <3>3
    <3>5. {r \in known : route[r].status = "scheduled"} \subseteq Route
      BY <3>4
    <3> QED BY <1>2, <3>1, <3>2, <3>5 DEF Check
  <2> QED BY <1>2, <2>2 DEF Check, tables, TypeOK
<1>3. CASE Solve(p)
  <2>1. [req[p] EXCEPT !.pc = "plan_orders", !.rt = Nil, !.todo = req[p].gen] \in Requests
    BY <1>1 DEF Requests, Step
  <2>2. \A plan \in SUBSET req[p].gen :
          [req[p] EXCEPT !.pc = "plan_route", !.plan = plan] \in Requests
    BY <1>1 DEF Requests, Step
  <2>3. req' \in [Request -> Requests]
    BY <1>3, <2>1, <2>2, IdleTyped, RequestsTyped DEF Solve
  <2> QED BY <1>3, <2>3 DEF Solve, tables, TypeOK
<1>4. ASSUME NEW r \in Route, PlanRoute(p, r) PROVE TypeOK'
  <2>1. [req[p] EXCEPT !.pc = "plan_orders", !.rt = r, !.todo = req[p].gen] \in Requests
    BY <1>1 DEF Requests, Step
  <2>2. req' \in [Request -> Requests]
    BY <1>4, <2>1, RequestsTyped DEF PlanRoute
  <2>3. route' \in [Route -> RouteRow]
    BY <1>4, RowsTyped DEF PlanRoute, TypeOK
  <2> QED BY <1>4, <2>2, <2>3 DEF PlanRoute, TypeOK
<1>5. ASSUME NEW o \in Order, PlanOrder(p, o) PROVE TypeOK'
  <2>1. /\ [req[p] EXCEPT !.todo = @ \ {o}] \in Requests
        /\ [req[p] EXCEPT !.pc = "plan_stops", !.todo = req[p].plan] \in Requests
    BY <1>1 DEF Requests, Step
  <2>2. req' \in [Request -> Requests]
    BY <1>5, <2>1, IdleTyped, RequestsTyped DEF PlanOrder
  <2>3. order' \in [Order -> OrderStatus]
    BY <1>5 DEF PlanOrder, TypeOK, OrderStatus
  <2> QED BY <1>5, <2>2, <2>3 DEF PlanOrder, TypeOK
<1>6. ASSUME NEW o \in Order, PlanStop(p, o) PROVE TypeOK'
  <2>1. [req[p] EXCEPT !.todo = @ \ {o}] \in Requests
    BY <1>1 DEF Requests, Step
  <2>2. req' \in [Request -> Requests]
    BY <1>6, <2>1, IdleTyped, RequestsTyped DEF PlanStop
  <2>3. mission' \in [Order -> MissionRow]
    <3>1. [status |-> "scheduled", route |-> req[p].rt, reversed |-> FALSE] \in MissionRow
      BY <1>1 DEF Requests, MissionRow, MissionStatus
    <3>2. [mission[o] EXCEPT !.status = "scheduled"] \in MissionRow
      BY DEF TypeOK, MissionRow, MissionStatus
    <3> QED BY <1>6, <3>1, <3>2 DEF PlanStop, TypeOK
  <2> QED BY <1>6, <2>2, <2>3 DEF PlanStop, TypeOK
<1> QED BY <1>2, <1>3, <1>4, <1>5, <1>6 DEF Generates

LEMMA CancelTyped ==
  ASSUME TypeOK, NEW p \in Request, Cancels(p)
  PROVE  TypeOK'
<1>1. req[p] \in Requests
  BY DEF TypeOK
<1>2. ASSUME NEW r \in Route, CancelRoute(p, r) PROVE TypeOK'
  <2>1. [Idle EXCEPT !.pc = "cancel_stops", !.rt = r, !.todo = ListedStops(r)] \in Requests
    BY IdleTyped DEF Requests, Step, ListedStops, StopsOn
  <2>2. req' \in [Request -> Requests]
    BY <1>2, <2>1, IdleTyped, RequestsTyped DEF CancelRoute
  <2>3. route' \in [Route -> RouteRow]
    BY <1>2 DEF CancelRoute, TypeOK, RouteRow, Closed
  <2> QED BY <1>2, <2>2, <2>3 DEF CancelRoute, TypeOK
<1>3. ASSUME NEW o \in Order, CancelStop(p, o) PROVE TypeOK'
  <2>1. [req[p] EXCEPT !.kept = @ \cup {o},
           !.pc = IF req[p].todo = {o} THEN "cancel_orders" ELSE @,
           !.todo = IF req[p].todo = {o} THEN req[p].kept \cup {o} ELSE @ \ {o}]
          \in Requests
    BY <1>1 DEF Requests, Step
  <2>2. req' \in [Request -> Requests]
    BY <1>3, <2>1, RequestsTyped DEF CancelStop
  <2>3. mission' \in [Order -> MissionRow]
    BY <1>3, Rewritten DEF CancelStop
  <2> QED BY <1>3, <2>2, <2>3 DEF CancelStop, TypeOK
<1>4. ASSUME NEW o \in Order, CancelOrder(p, o) PROVE TypeOK'
  <2>1. [req[p] EXCEPT !.todo = @ \ {o}] \in Requests
    BY <1>1 DEF Requests, Step
  <2>2. req' \in [Request -> Requests]
    BY <1>4, <2>1, IdleTyped, RequestsTyped DEF CancelOrder
  <2>3. order' \in [Order -> OrderStatus]
    BY <1>4 DEF CancelOrder, TypeOK, OrderStatus
  <2> QED BY <1>4, <2>2, <2>3 DEF CancelOrder, TypeOK
<1> QED BY <1>2, <1>3, <1>4 DEF Cancels

LEMMA DeliverTyped ==
  ASSUME TypeOK, NEW p \in Request, Delivers(p) \/ Stop(p)
  PROVE  TypeOK'
<1>1. req[p] \in Requests
  BY DEF TypeOK
<1>2. ASSUME NEW o \in Order, Deliver(p, o) PROVE TypeOK'
  <2>1. mission[o].route \in Route
    BY <1>2 DEF Deliver, TypeOK, MissionRow
  <2>2. [Idle EXCEPT !.pc = "deliver_stop", !.at = o, !.rt = mission[o].route,
                     !.rows = Snapshot({mission[o].route})] \in Requests
    BY <2>1, IdleTyped, SnapshotsTyped DEF Requests, Step
  <2>3. req' \in [Request -> Requests]
    BY <1>2, <2>2, RequestsTyped DEF Deliver
  <2> QED BY <1>2, <2>3 DEF Deliver, tables, TypeOK
<1>3. CASE DeliverStop(p)
  <2>1. [req[p] EXCEPT !.pc = "deliver_order"] \in Requests
    BY <1>1 DEF Requests, Step
  <2>2. req' \in [Request -> Requests]
    BY <1>3, <2>1, RequestsTyped DEF DeliverStop
  <2>3. mission' \in [Order -> MissionRow]
    BY <1>3, Rewritten DEF DeliverStop
  <2> QED BY <1>3, <2>2, <2>3 DEF DeliverStop, TypeOK
<1>4. CASE DeliverOrder(p)
  <2>1. [req[p] EXCEPT !.pc = "deliver_route"] \in Requests
    BY <1>1 DEF Requests, Step
  <2>2. req' \in [Request -> Requests]
    BY <1>4, <2>1, RequestsTyped DEF DeliverOrder
  <2>3. order' \in [Order -> OrderStatus]
    BY <1>4 DEF DeliverOrder, TypeOK, OrderStatus
  <2> QED BY <1>4, <2>2, <2>3 DEF DeliverOrder, TypeOK
<1>5. CASE DeliverRoute(p)
  <2>1. req' \in [Request -> Requests]
    BY <1>5, IdleTyped, RequestsTyped DEF DeliverRoute
  <2>2. route' \in [Route -> RouteRow]
    <3>1. \A r \in Route : req[p].rows[r] \in RouteRow
      BY <1>1 DEF Requests
    <3> QED BY <1>5, <3>1 DEF DeliverRoute, TypeOK
  <2> QED BY <1>5, <2>1, <2>2 DEF DeliverRoute, TypeOK
<1>6. CASE Stop(p)
  <2>1. req' \in [Request -> Requests]
    BY <1>6, IdleTyped DEF Stop, TypeOK
  <2>2. stops' \in 0..MaxStops
    BY <1>6, MaxStopsIsNatural DEF Stop, TypeOK
  <2> QED BY <1>6, <2>1, <2>2 DEF Stop, tables, TypeOK
<1> QED BY <1>2, <1>3, <1>4, <1>5, <1>6 DEF Delivers

LEMMA ReportTyped ==
  ASSUME TypeOK, NEW r \in Route, NEW status \in Reported, ReportRoute(r, status)
  PROVE  TypeOK'
<1>1. req' \in [Request -> Requests]
  BY DisturbedTyped DEF ReportRoute
<1>2. \A reversed \in BOOLEAN : [status |-> status, reversed |-> reversed] \in RouteRow
  BY ReportedIsKnown DEF RouteRow, Active, Closed
<1>3. route' \in [Route -> RouteRow]
  BY <1>2 DEF ReportRoute, TypeOK
<1>4. mission' \in [Order -> MissionRow]
  <2>1. \A o \in Order : /\ mission[o] \in MissionRow
                         /\ [mission[o] EXCEPT !.status = "ongoing"] \in MissionRow
    BY DEF TypeOK, MissionRow, MissionStatus
  <2>2. mission' = [o \in Order |-> IF status = "ongoing" /\ o \in StopsOn(r)
                      THEN [mission[o] EXCEPT !.status = "ongoing"] ELSE mission[o]]
    BY DEF ReportRoute
  <2> QED BY <2>1, <2>2
<1> QED BY <1>1, <1>3, <1>4 DEF ReportRoute, TypeOK

LEMMA FailureTyped ==
  ASSUME TypeOK, NEW o \in Order,
         CompletionFails(o) \/ \E p \in Request : WriteFails(p, o)
  PROVE  TypeOK'
<1>1. req' \in [Request -> Requests]
  BY IdleTyped, AfterSweepTyped, RequestsTyped, DisturbedTyped DEF WriteFails, CompletionFails
<1>2. mission' \in [Order -> MissionRow]
  <2>1. /\ [mission[o] EXCEPT !.status = "cancelled"] \in MissionRow
        /\ [mission[o] EXCEPT !.status = "delivered"] \in MissionRow
        /\ [mission[o] EXCEPT !.reversed = TRUE] \in MissionRow
    BY DEF TypeOK, MissionRow, MissionStatus
  <2> QED BY <2>1 DEF WriteFails, CompletionFails, TypeOK
<1> QED BY <1>1, <1>2 DEF WriteFails, CompletionFails, TypeOK

LEMMA InitTyped == Init => TypeOK
<1> SUFFICES ASSUME Init PROVE TypeOK
  OBVIOUS
<1>1. /\ order \in [Order -> OrderStatus] /\ mission \in [Order -> MissionRow]
      /\ route \in [Route -> RouteRow]
  BY RowsTyped DEF Init, OrderStatus
<1>2. req \in [Request -> Requests]
  BY IdleTyped DEF Init
<1>3. late \in BOOLEAN
  BY DEF Init
<1>4. stops \in 0..MaxStops
  <2>1. stops = 0
    BY DEF Init
  <2> QED BY <2>1, MaxStopsIsNatural
<1> QED BY <1>1, <1>2, <1>3, <1>4 DEF TypeOK

LEMMA NextTyped ==
  ASSUME TypeOK, [Next]_vars
  PROVE  TypeOK'
<1>1. CASE UNCHANGED vars \/ Clock
  BY <1>1 DEF vars, Clock, tables, TypeOK
<1>2. CASE Next
  BY <1>1, <1>2, SweepTyped, GenerateTyped, CancelTyped, DeliverTyped, ReportTyped, FailureTyped
     DEF Next
<1> QED BY <1>1, <1>2

(* Rows hold the statuses of the enums, whatever overlaps or is stopped.    *)
THEOREM GenerationTypeCorrect == Spec => []TypeOK
<1> QED BY InitTyped, NextTyped, PTL DEF Spec

-----------------------------------------------------------------------------
(* What a request closes has no open stop.  The induction follows one that  *)
(* nobody steps on: the stops of its route that are not left to be written  *)
(* are closed, and those it read as delivered still are.  It has none to    *)
(* write while one of them cannot be read.                                  *)

SweptSoFar(p) ==
  /\ \A o \in StopsOn(req[p].rt) \ req[p].todo :
       /\ mission[o].status \in {"cancelled", "delivered"}
       /\ order[o] = "unassigned" \/ (req[p].pc = "stop_order" /\ o = req[p].at)
  /\ \A o \in req[p].kept : mission[o].status = "delivered"

CancelledSoFar(p) ==
  \A o \in StopsOn(req[p].rt) \ req[p].todo : mission[o].status = "cancelled"

Closing(p) ==
  req[p].alone =>
    /\ req[p].pc \in {"stops", "stop_order"} =>
         IF Unlisted(req[p].rt) THEN req[p].todo = {} ELSE SweptSoFar(p)
    /\ req[p].pc = "cancel_stops" =>
         IF Unlisted(req[p].rt) THEN req[p].todo = {} ELSE CancelledSoFar(p)

ClosingInv == TypeOK /\ \A p \in Request : Closing(p)

(* Another request that commits is stepped on, one that only reads leaves   *)
(* everything as it is.                                                     *)
LEMMA OthersClosing ==
  ASSUME ClosingInv, NEW p \in Request, NEW q \in Request \ {p}, NEW rec,
         Goes(q, rec) \/ (Looks(q, rec) /\ UNCHANGED tables)
  PROVE  Closing(p)'
<1>1. req[p] \in Requests
  BY DEF ClosingInv, TypeOK
<1>2. CASE Goes(q, rec)
  <2>1. req'[p] = Disturbed(q)[p]
    BY <1>2 DEF Goes, Disturbed
  <2>2. req'[p].pc = "idle" \/ ~req'[p].alone
    BY <1>1, <2>1 DEF Disturbed, Requests
  <2> QED BY <2>2 DEF Closing
<1>3. CASE Looks(q, rec) /\ UNCHANGED tables
  <2>1. req'[p] = req[p]
    BY <1>3 DEF Looks, ClosingInv, TypeOK
  <2> QED BY <1>3, <2>1
          DEF ClosingInv, Closing, SweptSoFar, CancelledSoFar, Unlisted, StopsOn, tables
<1> QED BY <1>2, <1>3

(* A request that is not closing anything has nothing to show.              *)
LEMMA NotClosing ==
  ASSUME ClosingInv, NEW q \in Request, NEW rec, Goes(q, rec) \/ Looks(q, rec),
         rec.pc \notin {"stops", "stop_order", "cancel_stops"}
  PROVE  Closing(q)'
<1>1. req'[q] = rec
  BY DEF Goes, Looks, Disturbed, ClosingInv, TypeOK
<1> QED BY <1>1 DEF Closing

LEMMA SweepClosing ==
  ASSUME ClosingInv, NEW q \in Request,
         Sweeps(q) \/ \E gen \in SUBSET Order : Begin(q, gen)
  PROVE  \A p \in Request : Closing(p)'
<1>0. req[q] \in Requests /\ TypeOK
  BY DEF ClosingInv, TypeOK
<1> SUFFICES ASSUME NEW p \in Request PROVE Closing(p)'
  OBVIOUS
<1>1. ASSUME NEW gen \in SUBSET Order, Begin(q, gen) PROVE Closing(p)'
  <2>1. PICK rec : Looks(q, rec) /\ rec.pc = "sweep"
    <3>1. [Idle EXCEPT !.pc = "sweep", !.gen = gen, !.due = Overdue,
                       !.rows = Cancelled(Overdue)].pc = "sweep"
      BY DEF Idle
    <3> QED BY <1>1, <3>1 DEF Begin
  <2> QED BY <1>1, <2>1, OthersClosing, NotClosing DEF Begin
<1>2. ASSUME NEW r \in Route, SweepRoute(q, r) PROVE Closing(p)'
  <2> DEFINE rec == [req[q] EXCEPT !.pc = "stops", !.rt = r, !.todo = ListedStops(r),
                       !.kept = {o \in ListedStops(r) : mission[o].status = "delivered"}]
  <2>1. Looks(q, rec) /\ UNCHANGED tables
    BY <1>2 DEF SweepRoute
  <2>2. CASE p = q
    <3>1. req'[q] = rec
      BY <1>0, <2>1 DEF Looks, TypeOK
    <3>2. /\ req'[q].pc = "stops" /\ req'[q].rt = r /\ req'[q].todo = ListedStops(r)
          /\ req'[q].kept = {o \in ListedStops(r) : mission[o].status = "delivered"}
      BY <1>0, <3>1 DEF Requests
    <3>3. UNCHANGED mission
      BY <2>1 DEF tables
    <3> QED BY <2>2, <3>2, <3>3 DEF Closing, SweptSoFar, ListedStops, Unlisted, StopsOn
  <2> HIDE DEF rec
  <2> QED BY <2>1, <2>2, OthersClosing
<1>3. ASSUME NEW o \in Order, SweepStop(q, o) PROVE Closing(p)'
  <2> DEFINE rec == [req[q] EXCEPT !.pc = "stop_order", !.at = o, !.todo = @ \ {o}]
  <2>1. Goes(q, rec)
    BY <1>3 DEF SweepStop
  <2>2. CASE p = q
    <3>1. req'[q] = rec
      BY <1>0, <2>1 DEF Goes, Disturbed, TypeOK
    <3>2. /\ req'[q].pc = "stop_order" /\ req'[q].rt = req[q].rt /\ req'[q].at = o
          /\ req'[q].todo = req[q].todo \ {o} /\ req'[q].kept = req[q].kept
          /\ req'[q].alone = req[q].alone
      BY <1>0, <3>1 DEF Requests
    <3>3. req[q].alone => SweptSoFar(q) /\ ~Unlisted(req[q].rt)
      BY <1>3 DEF SweepStop, ClosingInv, Closing
    <3>4. /\ \A x \in Order : /\ mission'[x].route = mission[x].route
                              /\ x # o => mission'[x] = mission[x]
                              /\ ~mission[x].reversed => ~mission'[x].reversed
          /\ mission'[o].status = IF o \in req[q].kept THEN mission[o].status ELSE "cancelled"
      BY <1>0, <1>3, Rewritten DEF SweepStop
    <3>5. mission'[o].status = IF o \in req[q].kept THEN mission[o].status ELSE "cancelled"
      BY <3>4
    <3>6. /\ StopsOn(req[q].rt)' = StopsOn(req[q].rt)
          /\ req[q].alone => ~Unlisted(req[q].rt)'
      BY <3>2, <3>3, <3>4 DEF StopsOn, Unlisted
    <3>7. ASSUME req[q].alone PROVE SweptSoFar(q)'
      <4>1. \A x \in StopsOn(req[q].rt) \ req[q].todo :
              mission[x].status \in {"cancelled", "delivered"} /\ order[x] = "unassigned"
        BY <1>3, <3>3, <3>7 DEF SweptSoFar, SweepStop
      <4>2. \A x \in req[q].kept : x \in Order /\ mission[x].status = "delivered"
        BY <1>0, <3>3, <3>7 DEF SweptSoFar, Requests
      <4>3. \A x \in req'[q].kept : mission'[x].status = "delivered"
        BY <3>2, <3>4, <3>5, <4>2
      <4>4. ASSUME NEW x \in StopsOn(req[q].rt), x \notin req'[q].todo
            PROVE  /\ mission'[x].status \in {"cancelled", "delivered"}
                   /\ order'[x] = "unassigned" \/ x = o
        <5>1. x \in Order /\ UNCHANGED order
          BY <1>3 DEF SweepStop, StopsOn
        <5>2. CASE x = o
          BY <3>5, <4>2, <5>2
        <5>3. CASE x # o
          BY <3>2, <3>4, <4>1, <4>4, <5>1, <5>3
        <5> QED BY <5>2, <5>3
      <4> QED BY <3>2, <3>6, <4>3, <4>4 DEF SweptSoFar
    <3> QED BY <2>2, <3>2, <3>6, <3>7 DEF Closing, Unlisted
  <2> HIDE DEF rec
  <2> QED BY <2>1, <2>2, OthersClosing
<1>4. CASE SweepOrder(q)
  <2> DEFINE rec == [req[q] EXCEPT !.pc = "stops", !.at = Nil]
  <2>1. Goes(q, rec)
    BY <1>4 DEF SweepOrder
  <2>2. CASE p = q
    <3>1. req'[q] = rec
      BY <1>0, <2>1 DEF Goes, Disturbed, TypeOK
    <3>2. /\ req'[q].pc = "stops" /\ req'[q].rt = req[q].rt
          /\ req'[q].todo = req[q].todo /\ req'[q].kept = req[q].kept
          /\ req'[q].alone = req[q].alone
      BY <1>0, <3>1 DEF Requests
    <3>3. req[q].alone => IF Unlisted(req[q].rt) THEN req[q].todo = {} ELSE SweptSoFar(q)
      BY <1>4 DEF SweepOrder, ClosingInv, Closing
    <3>4. \A x \in Order : order'[x] = IF x = req[q].at THEN "unassigned" ELSE order[x]
      BY <1>0, <1>4 DEF SweepOrder, TypeOK
    <3>5. UNCHANGED mission
      BY <1>4 DEF SweepOrder
    <3> QED BY <2>2, <3>2, <3>3, <3>4, <3>5 DEF Closing, SweptSoFar, Unlisted, StopsOn
  <2> HIDE DEF rec
  <2> QED BY <2>1, <2>2, OthersClosing
<1>5. CASE SweepClose(q)
  <2>1. PICK rec : Goes(q, rec) /\ rec.pc = "sweep"
    <3>1. [req[q] EXCEPT !.pc = "sweep", !.rt = Nil, !.due = @ \ {req[q].rt},
             !.rows[req[q].rt] = NoRoute, !.kept = {}].pc = "sweep"
      BY <1>0 DEF Requests
    <3> QED BY <1>5, <3>1 DEF SweepClose
  <2> QED BY <2>1, OthersClosing, NotClosing
<1>6. CASE SweepEnd(q)
  <2>1. PICK rec : Looks(q, rec) /\ rec.pc \in {"idle", "check"}
    BY <1>0, <1>6, AfterSweepTyped DEF SweepEnd
  <2> QED BY <1>6, <2>1, OthersClosing, NotClosing DEF SweepEnd
<1> QED BY <1>1, <1>2, <1>3, <1>4, <1>5, <1>6 DEF Sweeps

LEMMA GenerateClosing ==
  ASSUME ClosingInv, NEW q \in Request, Generates(q)
  PROVE  \A p \in Request : Closing(p)'
<1>0. req[q] \in Requests
  BY DEF ClosingInv, TypeOK
<1>1. ASSUME NEW rec, rec.pc \notin {"stops", "stop_order", "cancel_stops"},
             Goes(q, rec) \/ (Looks(q, rec) /\ UNCHANGED tables)
      PROVE  \A p \in Request : Closing(p)'
  BY <1>1, OthersClosing, NotClosing
<1>2. CASE Check(q)
  <2>1. \A r : [req[q] EXCEPT !.pc = "solve", !.rt = r, !.fresh = (r = Nil)].pc = "solve"
    BY <1>0 DEF Requests
  <2>2. UNCHANGED tables
    BY <1>2 DEF Check
  <2>3. PICK rec : Looks(q, rec) /\ rec.pc \in {"idle", "solve"}
    BY <1>2, <2>1, IdleTyped DEF Check
  <2> QED BY <1>1, <2>2, <2>3
<1>3. CASE Solve(q)
  <2>1. /\ [req[q] EXCEPT !.pc = "plan_orders", !.rt = Nil, !.todo = req[q].gen].pc
             = "plan_orders"
        /\ \A plan : [req[q] EXCEPT !.pc = "plan_route", !.plan = plan].pc = "plan_route"
    BY <1>0 DEF Requests
  <2>2. UNCHANGED tables
    BY <1>3 DEF Solve
  <2>3. PICK rec : Looks(q, rec) /\ rec.pc \in {"idle", "plan_orders", "plan_route"}
    BY <1>3, <2>1, IdleTyped DEF Solve
  <2> QED BY <1>1, <2>2, <2>3
<1>4. ASSUME NEW r \in Route, PlanRoute(q, r) PROVE \A p \in Request : Closing(p)'
  <2>1. [req[q] EXCEPT !.pc = "plan_orders", !.rt = r, !.todo = req[q].gen].pc
          = "plan_orders"
    BY <1>0 DEF Requests
  <2>2. PICK rec : Goes(q, rec) /\ rec.pc = "plan_orders"
    BY <1>4, <2>1 DEF PlanRoute
  <2> QED BY <1>1, <2>2
<1>5. ASSUME NEW o \in Order, PlanOrder(q, o) PROVE \A p \in Request : Closing(p)'
  <2>1. /\ [req[q] EXCEPT !.todo = @ \ {o}].pc = req[q].pc
        /\ [req[q] EXCEPT !.pc = "plan_stops", !.todo = req[q].plan].pc = "plan_stops"
    BY <1>0 DEF Requests
  <2>2. PICK rec : Goes(q, rec) /\ rec.pc \in {"idle", "plan_orders", "plan_stops"}
    BY <1>5, <2>1, IdleTyped DEF PlanOrder
  <2> QED BY <1>1, <2>2
<1>6. ASSUME NEW o \in Order, PlanStop(q, o) PROVE \A p \in Request : Closing(p)'
  <2>1. [req[q] EXCEPT !.todo = @ \ {o}].pc = req[q].pc
    BY <1>0 DEF Requests
  <2>2. PICK rec : Goes(q, rec) /\ rec.pc \in {"idle", "plan_stops"}
    BY <1>6, <2>1, IdleTyped DEF PlanStop
  <2> QED BY <1>1, <2>2
<1> QED BY <1>2, <1>3, <1>4, <1>5, <1>6 DEF Generates

LEMMA CancelClosing ==
  ASSUME ClosingInv, NEW q \in Request, Cancels(q)
  PROVE  \A p \in Request : Closing(p)'
<1>0. req[q] \in Requests /\ TypeOK
  BY DEF ClosingInv, TypeOK
<1> SUFFICES ASSUME NEW p \in Request PROVE Closing(p)'
  OBVIOUS
<1>1. ASSUME NEW r \in Route, CancelRoute(q, r) PROVE Closing(p)'
  <2> DEFINE rec == [Idle EXCEPT !.pc = "cancel_stops", !.rt = r, !.todo = ListedStops(r)]
  <2>1. Goes(q, IF ListedStops(r) = {} THEN Idle ELSE rec) /\ UNCHANGED mission
    BY <1>1 DEF CancelRoute
  <2>2. rec.pc = "cancel_stops" /\ rec.rt = r /\ rec.todo = ListedStops(r)
    BY DEF Idle
  <2>3. req'[q] = IF ListedStops(r) = {} THEN Idle ELSE rec
    BY <1>0, <2>1 DEF Goes, Disturbed, TypeOK
  <2> HIDE DEF rec
  <2>4. CASE p = q /\ ListedStops(r) # {}
    <3>1. StopsOn(r)' = StopsOn(r) /\ ListedStops(r) = StopsOn(r) /\ ~Unlisted(r)'
      BY <2>1, <2>4 DEF ListedStops, Unlisted, StopsOn
    <3> QED BY <2>2, <2>3, <2>4, <3>1 DEF Closing, CancelledSoFar
  <2>5. CASE p = q /\ ListedStops(r) = {}
    BY <2>3, <2>5, IdleTyped DEF Closing
  <2> QED BY <2>1, <2>4, <2>5, OthersClosing
<1>2. ASSUME NEW o \in Order, CancelStop(q, o) PROVE Closing(p)'
  <2> DEFINE rec == [req[q] EXCEPT !.kept = @ \cup {o},
                !.pc = IF req[q].todo = {o} THEN "cancel_orders" ELSE @,
                !.todo = IF req[q].todo = {o} THEN req[q].kept \cup {o} ELSE @ \ {o}]
  <2>1. Goes(q, rec) /\ req[q].pc = "cancel_stops"
    BY <1>2 DEF CancelStop
  <2>2. CASE p = q
    <3>1. req'[q] = rec
      BY <1>0, <2>1 DEF Goes, Disturbed, TypeOK
    <3>2. /\ req'[q].pc = IF req[q].todo = {o} THEN "cancel_orders" ELSE "cancel_stops"
          /\ req'[q].rt = req[q].rt /\ req'[q].alone = req[q].alone
          /\ req[q].todo # {o} => req'[q].todo = req[q].todo \ {o}
      BY <1>0, <2>1, <3>1 DEF Requests
    <3>3. req[q].alone => CancelledSoFar(q) /\ ~Unlisted(req[q].rt)
      BY <1>2, <2>1 DEF ClosingInv, Closing, CancelStop
    <3>4. \A x \in Order :
            /\ mission'[x].route = mission[x].route
            /\ mission'[x].status = IF x = o THEN "cancelled" ELSE mission[x].status
            /\ ~mission[x].reversed => ~mission'[x].reversed
      BY <1>0, <1>2, Rewritten DEF CancelStop
    <3>5. /\ StopsOn(req[q].rt)' = StopsOn(req[q].rt)
          /\ req[q].alone => ~Unlisted(req[q].rt)'
      BY <3>2, <3>3, <3>4 DEF StopsOn, Unlisted
    <3>6. ASSUME req[q].alone, req'[q].pc = "cancel_stops" PROVE CancelledSoFar(q)'
      BY <3>2, <3>3, <3>4, <3>5, <3>6 DEF CancelledSoFar, StopsOn
    <3> QED BY <2>2, <3>2, <3>5, <3>6 DEF Closing, Unlisted
  <2> HIDE DEF rec
  <2> QED BY <2>1, <2>2, OthersClosing
<1>3. ASSUME NEW o \in Order, CancelOrder(q, o) PROVE Closing(p)'
  <2>1. [req[q] EXCEPT !.todo = @ \ {o}].pc = req[q].pc
    BY <1>0 DEF Requests
  <2>2. PICK rec : Goes(q, rec) /\ rec.pc \in {"idle", "cancel_orders"}
    BY <1>3, <2>1, IdleTyped DEF CancelOrder
  <2> QED BY <2>2, OthersClosing, NotClosing
<1> QED BY <1>1, <1>2, <1>3 DEF Cancels

LEMMA DeliverClosing ==
  ASSUME ClosingInv, NEW q \in Request, Delivers(q)
  PROVE  \A p \in Request : Closing(p)'
<1>0. req[q] \in Requests
  BY DEF ClosingInv, TypeOK
<1>1. ASSUME NEW rec, rec.pc \notin {"stops", "stop_order", "cancel_stops"},
             Goes(q, rec) \/ (Looks(q, rec) /\ UNCHANGED tables)
      PROVE  \A p \in Request : Closing(p)'
  BY <1>1, OthersClosing, NotClosing
<1>2. ASSUME NEW o \in Order, Deliver(q, o) PROVE \A p \in Request : Closing(p)'
  <2>1. [Idle EXCEPT !.pc = "deliver_stop", !.at = o, !.rt = mission[o].route,
           !.rows = Snapshot({mission[o].route})].pc = "deliver_stop"
    BY DEF Idle
  <2>2. PICK rec : Looks(q, rec) /\ rec.pc = "deliver_stop"
    BY <1>2, <2>1 DEF Deliver
  <2> QED BY <1>1, <1>2, <2>2 DEF Deliver
<1>3. CASE DeliverStop(q) \/ DeliverOrder(q)
  <2>1. /\ [req[q] EXCEPT !.pc = "deliver_order"].pc = "deliver_order"
        /\ [req[q] EXCEPT !.pc = "deliver_route"].pc = "deliver_route"
    BY <1>0 DEF Requests
  <2>2. PICK rec : Goes(q, rec) /\ rec.pc \in {"deliver_order", "deliver_route"}
    BY <1>3, <2>1 DEF DeliverStop, DeliverOrder
  <2> QED BY <1>1, <2>2
<1>4. CASE DeliverRoute(q)
  BY <1>1, <1>4, IdleTyped DEF DeliverRoute
<1> QED BY <1>2, <1>3, <1>4 DEF Delivers

(* A report steps on every request, one that is stopped or fails is through, *)
(* and the clock touches nothing.                                           *)
LEMMA RestClosing ==
  ASSUME ClosingInv,
         \/ UNCHANGED vars \/ Clock
         \/ \E q \in Request : Stop(q) \/ \E o \in Order : WriteFails(q, o)
         \/ \E o \in Order : CompletionFails(o)
         \/ \E r \in Route, status \in Reported : ReportRoute(r, status)
  PROVE  \A p \in Request : Closing(p)'
<1> SUFFICES ASSUME NEW p \in Request PROVE Closing(p)'
  OBVIOUS
<1>1. CASE UNCHANGED <<tables, req>>
  BY <1>1 DEF tables, ClosingInv, Closing, SweptSoFar, CancelledSoFar, Unlisted, StopsOn
<1>2. ASSUME NEW q \in Request, Stop(q) PROVE Closing(p)'
  <2>1. Looks(q, Idle) /\ UNCHANGED tables
    BY <1>2 DEF Stop, Looks
  <2> QED BY <2>1, IdleTyped, OthersClosing, NotClosing
<1>3. ASSUME \/ \E o \in Order : CompletionFails(o)
             \/ \E r \in Route, status \in Reported : ReportRoute(r, status)
      PROVE  Closing(p)'
  <2>1. req[p] \in Requests /\ p # Nil
    BY NilIsNoRow DEF ClosingInv, TypeOK
  <2>2. req'[p] = Disturbed(Nil)[p]
    BY <1>3 DEF ReportRoute, CompletionFails, Disturbed
  <2>3. req'[p].pc = "idle" \/ ~req'[p].alone
    BY <2>1, <2>2 DEF Disturbed, Requests
  <2> QED BY <2>3 DEF Closing
<1>4. CASE UNCHANGED vars \/ Clock
  BY <1>1, <1>4 DEF vars, Clock, tables
<1>5. ASSUME NEW q \in Request, NEW o \in Order, WriteFails(q, o) PROVE Closing(p)'
  <2>1. PICK rec : Goes(q, rec) /\ rec.pc \in {"idle", "check"}
    BY <1>5, IdleTyped, AfterSweepTyped DEF WriteFails, ClosingInv
  <2> QED BY <2>1, OthersClosing, NotClosing
<1> QED BY <1>2, <1>3, <1>4, <1>5

LEMMA InitClosing == Init => ClosingInv
<1> SUFFICES ASSUME Init PROVE ClosingInv
  OBVIOUS
<1>1. \A p \in Request : req[p].pc = "idle"
  BY IdleTyped DEF Init
<1> QED BY <1>1, InitTyped DEF ClosingInv, Closing

LEMMA NextClosing ==
  ASSUME ClosingInv, [Next]_vars
  PROVE  ClosingInv'
<1>1. TypeOK'
  BY NextTyped DEF ClosingInv
<1>2. \A p \in Request : Closing(p)'
  <2>1. CASE UNCHANGED vars
    BY <2>1, RestClosing
  <2>2. CASE Next
    BY <2>2, SweepClosing, GenerateClosing, CancelClosing, DeliverClosing, RestClosing
       DEF Next
  <2> QED BY <2>1, <2>2
<1> QED BY <1>1, <1>2 DEF ClosingInv

-----------------------------------------------------------------------------
(* Only the request itself goes on with its work, and it is through with    *)
(* the stops of its route when nothing is left.                             *)

LEMMA OthersStay ==
  ASSUME TypeOK, NEW p \in Request, NEW q \in Request \ {p}, NEW rec,
         Goes(q, rec) \/ Looks(q, rec)
  PROVE  req'[p].pc = req[p].pc
<1>1. req[p] \in Requests
  BY DEF TypeOK
<1>2. [req[p] EXCEPT !.alone = FALSE].pc = req[p].pc
  BY <1>1 DEF Requests
<1> QED BY <1>2 DEF Goes, Looks, Disturbed, TypeOK

LEMMA SelfGoes ==
  ASSUME TypeOK, NEW p \in Request, NEW rec, Goes(p, rec) \/ Looks(p, rec)
  PROVE  req'[p] = rec
BY DEF TypeOK, Goes, Looks, Disturbed

LEMMA OnlyItself ==
  ASSUME TypeOK, [Next]_vars, NEW p \in Request, req'[p].pc # req[p].pc
  PROVE  \/ \E gen \in SUBSET Order : Begin(p, gen)
         \/ Sweeps(p) \/ Generates(p) \/ Cancels(p) \/ Delivers(p) \/ Stop(p)
         \/ \E o \in Order : WriteFails(p, o)
<1>0. req[p] \in Requests
  BY DEF TypeOK
<1>1. ASSUME NEW q \in Request \ {p},
             \/ \E gen \in SUBSET Order : Begin(q, gen)
             \/ Sweeps(q) \/ Generates(q) \/ Cancels(q) \/ Delivers(q) \/ Stop(q)
             \/ \E o \in Order : WriteFails(q, o)
      PROVE  FALSE
  <2>1. CASE \E rec : Goes(q, rec) \/ Looks(q, rec)
    BY <2>1, OthersStay
  <2>2. CASE (\E gen \in SUBSET Order : Begin(q, gen)) \/ Stop(q)
    BY <2>1, <2>2 DEF Begin, Stop, Looks
  <2>3. CASE Sweeps(q)
    BY <2>1, <2>3 DEF Sweeps, SweepRoute, SweepStop, SweepOrder, SweepClose, SweepEnd
  <2>4. CASE Generates(q)
    BY <2>1, <2>4 DEF Generates, Check, Solve, PlanRoute, PlanOrder, PlanStop
  <2>5. CASE Cancels(q)
    BY <2>1, <2>5 DEF Cancels, CancelRoute, CancelStop, CancelOrder
  <2>6. CASE Delivers(q)
    BY <2>1, <2>6 DEF Delivers, Deliver, DeliverStop, DeliverOrder, DeliverRoute
  <2>7. CASE \E o \in Order : WriteFails(q, o)
    BY <2>1, <2>7 DEF WriteFails
  <2> QED BY <1>1, <2>2, <2>3, <2>4, <2>5, <2>6, <2>7
<1>2. CASE \/ \E o \in Order : CompletionFails(o)
           \/ \E r \in Route, status \in Reported : ReportRoute(r, status)
  <2>1. req' = Disturbed(Nil)
    BY <1>2 DEF ReportRoute, CompletionFails
  <2>2. [req[p] EXCEPT !.alone = FALSE].pc = req[p].pc
    BY <1>0 DEF Requests
  <2> QED BY <2>1, <2>2 DEF Disturbed
<1>3. ~(UNCHANGED vars \/ Clock)
  BY DEF vars, Clock
<1> QED BY <1>1, <1>2, <1>3 DEF Next

LEMMA Through ==
  ASSUME TypeOK, [Next]_vars, NEW p \in Request
  PROVE  /\ req[p].pc = "stops" /\ req'[p].pc = "sweep" =>
              req[p].todo = {} /\ SweepClose(p)
         /\ req[p].pc = "cancel_stops" /\ req'[p].pc = "cancel_orders" =>
              \E o \in Order : CancelStop(p, o) /\ req[p].todo = {o}
<1>0. req[p] \in Requests
  BY DEF TypeOK
<1> SUFFICES ASSUME req'[p].pc # req[p].pc PROVE
         /\ req[p].pc = "stops" /\ req'[p].pc = "sweep" =>
              req[p].todo = {} /\ SweepClose(p)
         /\ req[p].pc = "cancel_stops" /\ req'[p].pc = "cancel_orders" =>
              \E o \in Order : CancelStop(p, o) /\ req[p].todo = {o}
  OBVIOUS
<1>4. ASSUME \/ \E gen \in SUBSET Order : Begin(p, gen)
             \/ Generates(p) \/ Delivers(p)
      PROVE  req[p].pc \notin {"stops", "cancel_stops"}
  BY <1>4 DEF Begin, Generates, Check, Solve, PlanRoute, PlanOrder, PlanStop,
              Delivers, Deliver, DeliverStop, DeliverOrder, DeliverRoute
<1>5. CASE Stop(p) \/ \E o \in Order : WriteFails(p, o)
  <2>1. req'[p].pc \in {"idle", "check"}
    BY <1>5, IdleTyped, AfterSweepTyped, SelfGoes DEF Stop, WriteFails, TypeOK
  <2> QED BY <2>1
<1>6. CASE Sweeps(p)
  <2>1. req[p].pc # "cancel_stops"
    BY <1>6 DEF Sweeps, SweepRoute, SweepStop, SweepOrder, SweepClose, SweepEnd
  <2>2. ASSUME NEW o \in Order, SweepStop(p, o) PROVE req'[p].pc = "stop_order"
    <3>1. req'[p] = [req[p] EXCEPT !.pc = "stop_order", !.at = o, !.todo = @ \ {o}]
      BY <2>2, SelfGoes DEF SweepStop
    <3> QED BY <1>0, <3>1 DEF Requests
  <2>3. ASSUME req[p].pc = "stops" PROVE SweepClose(p) \/ \E o \in Order : SweepStop(p, o)
    BY <1>6, <2>3 DEF Sweeps, SweepRoute, SweepOrder, SweepEnd
  <2> QED BY <2>1, <2>2, <2>3 DEF SweepClose
<1>7. CASE Cancels(p)
  <2>1. req[p].pc # "stops"
    BY <1>7 DEF Cancels, CancelRoute, CancelStop, CancelOrder
  <2>2. ASSUME NEW o \in Order, CancelStop(p, o), req'[p].pc = "cancel_orders"
        PROVE  req[p].todo = {o}
    <3> DEFINE rec == [req[p] EXCEPT !.kept = @ \cup {o},
                !.pc = IF req[p].todo = {o} THEN "cancel_orders" ELSE @,
                !.todo = IF req[p].todo = {o} THEN req[p].kept \cup {o} ELSE @ \ {o}]
    <3>1. Goes(p, rec) /\ req[p].pc = "cancel_stops"
      BY <2>2 DEF CancelStop
    <3>2. rec.pc = IF req[p].todo = {o} THEN "cancel_orders" ELSE req[p].pc
      BY <1>0 DEF Requests
    <3>3. req'[p] = rec
      BY <3>1, SelfGoes
    <3> HIDE DEF rec
    <3> QED BY <2>2, <3>1, <3>2, <3>3
  <2>3. ASSUME req[p].pc = "cancel_stops" PROVE \E o \in Order : CancelStop(p, o)
    BY <1>7, <2>3 DEF Cancels, CancelRoute, CancelOrder
  <2> QED BY <2>1, <2>2, <2>3
<1> QED BY <1>4, <1>5, <1>6, <1>7, OnlyItself

LEMMA NothingLeftOpen ==
  ASSUME ClosingInv, [Next]_vars, NEW p \in Request, req[p].alone, ~Unlisted(req[p].rt)
  PROVE  /\ req[p].pc = "stops" /\ req'[p].pc = "sweep" =>
              \A o \in StopsOn(req[p].rt) :
                mission[o].status \in {"cancelled", "delivered"} /\ order[o] = "unassigned"
         /\ req[p].pc = "cancel_stops" /\ req'[p].pc = "cancel_orders" =>
              \A o \in StopsOn(req[p].rt) : mission'[o].status = "cancelled"
<1>0. TypeOK /\ Closing(p)
  BY DEF ClosingInv
<1>1. ASSUME req[p].pc = "stops", req'[p].pc = "sweep", NEW o \in StopsOn(req[p].rt)
      PROVE  mission[o].status \in {"cancelled", "delivered"} /\ order[o] = "unassigned"
  BY <1>0, <1>1, Through DEF Closing, SweptSoFar
<1>2. ASSUME req[p].pc = "cancel_stops", req'[p].pc = "cancel_orders",
             NEW o \in StopsOn(req[p].rt)
      PROVE  mission'[o].status = "cancelled"
  <2>1. PICK x \in Order : CancelStop(p, x) /\ req[p].todo = {x}
    BY <1>0, <1>2, Through
  <2>2. \A y \in Order :
          mission'[y].status = IF y = x THEN "cancelled" ELSE mission[y].status
    BY <1>0, <2>1, Rewritten DEF CancelStop
  <2>3. CancelledSoFar(p) /\ o \in Order
    BY <1>0, <1>2 DEF Closing, StopsOn
  <2> QED BY <1>2, <2>1, <2>2, <2>3 DEF CancelledSoFar
<1> QED BY <1>1, <1>2

(* However many requests overlap or are stopped half-way, a sweep and a     *)
(* cancellation that nobody steps on leave no open stop behind, unless one  *)
(* of the stops cannot be read.                                             *)
THEOREM NothingStaysOpen == Spec => ClosingLeavesNoOpenStop
<1>1. Spec => []ClosingInv
  BY InitClosing, NextClosing, PTL DEF Spec
<1>2. ASSUME ClosingInv, [Next]_vars
      PROVE  [\A p \in Request : req[p].alone /\ ~Unlisted(req[p].rt) =>
               /\ req[p].pc = "stops" /\ req'[p].pc = "sweep" =>
                    \A o \in StopsOn(req[p].rt) :
                      mission[o].status \in {"cancelled", "delivered"}
                        /\ order[o] = "unassigned"
               /\ req[p].pc = "cancel_stops" /\ req'[p].pc = "cancel_orders" =>
                    \A o \in StopsOn(req[p].rt) : mission'[o].status = "cancelled"]_vars
  BY <1>2, NothingLeftOpen
<1> QED BY <1>1, <1>2, PTL DEF Spec, ClosingLeavesNoOpenStop

-----------------------------------------------------------------------------
(* What a request has in hand.  Orders that are still to be swept,          *)
(* cancelled or delivered have a stop, orders whose stop is still to be     *)
(* written were written themselves, and a route that is being closed was    *)
(* read as cancelled.  A generation that nobody steps on finds its check    *)
(* as true as it was.                                                       *)

Written(p, o) ==
  order[o] # "registered" /\ (req[p].alone => order[o] = "scheduled")

Grounded(p) ==
  /\ req[p].pc \in {"stops", "stop_order", "cancel_stops", "cancel_orders"} =>
       req[p].todo \subseteq Tracked
  /\ req[p].pc = "cancel_stops" => req[p].kept \subseteq Tracked
  /\ req[p].pc \in {"stop_order", "deliver_stop", "deliver_order"} => req[p].at \in Tracked
  /\ req[p].plan \subseteq req[p].gen
  /\ req[p].pc = "plan_orders" => \A o \in req[p].plan \ req[p].todo : Written(p, o)
  /\ req[p].pc = "plan_stops" => \A o \in req[p].todo : Written(p, o)

Swept(p) ==
  /\ \A r \in req[p].due : req[p].rows[r].status = "cancelled"
  /\ req[p].pc \in {"stops", "stop_order"} => req[p].rt \in req[p].due

Fits(p) ==
  /\ req[p].pc = "plan_orders" => req[p].todo \subseteq req[p].gen
  /\ req[p].pc \in {"solve", "plan_route", "plan_orders"} =>
       \A o \in req[p].gen : Life!Plannable(o)
  /\ req[p].pc \in {"solve", "plan_route"} /\ (\A r \in Route : Readable(r)) =>
       /\ \A r \in Route : route[r].status \notin Active
       /\ IF req[p].fresh THEN \A r \in Route : route[r].status # "scheduled"
          ELSE req[p].rt \in Route /\ route[req[p].rt].status = "scheduled"

Flow(p) == Grounded(p) /\ Swept(p) /\ (req[p].alone => Fits(p))

FlowInv ==
  /\ TypeOK
  /\ TrackedFirst
  /\ \A p \in Request : Flow(p)

(* A stop is never taken away, and no order is registered again.            *)
Onward ==
  /\ \A o \in Order : mission[o] # NoMission => mission'[o] # NoMission
  /\ \A o \in Order : order'[o] = "registered" => order[o] = "registered"

LEMMA IdleFlows ==
  ASSUME TypeOK, NEW p \in Request, req'[p] = Idle
  PROVE  Flow(p)'
<1>1. /\ Idle.pc = "idle" /\ Idle.due = {} /\ Idle.plan = {} /\ Idle.gen = {}
  BY DEF Idle
<1> QED BY <1>1 DEF Flow, Grounded, Swept, Fits

(* Whoever is stepped on keeps what it has in hand; its check is void.      *)
LEMMA OthersFlow ==
  ASSUME FlowInv, NEW p \in Request, Onward,
         \/ req'[p] = [req[p] EXCEPT !.alone = FALSE]
         \/ (req[p].pc = "idle" /\ req'[p] = req[p])
         \/ (req'[p] = req[p] /\ UNCHANGED tables)
  PROVE  Flow(p)'
<1>1. req[p] \in Requests /\ Flow(p) /\ TypeOK
  BY DEF FlowInv, TypeOK
<1>2. CASE req'[p] = [req[p] EXCEPT !.alone = FALSE]
  <2>1. /\ ~req'[p].alone /\ req'[p].pc = req[p].pc /\ req'[p].todo = req[p].todo
        /\ req'[p].kept = req[p].kept /\ req'[p].at = req[p].at
        /\ req'[p].plan = req[p].plan /\ req'[p].gen = req[p].gen
        /\ req'[p].due = req[p].due /\ req'[p].rows = req[p].rows /\ req'[p].rt = req[p].rt
    BY <1>1, <1>2 DEF Requests
  <2>2. Tracked \subseteq Tracked'
    BY DEF Onward, Tracked
  <2>3. req[p].todo \subseteq Order /\ req[p].plan \subseteq Order
    BY <1>1 DEF Requests
  <2>4. \A o \in Order : Written(p, o) => Written(p, o)'
    BY <2>1 DEF Onward, Written
  <2>5. Grounded(p)'
    BY <1>1, <2>1, <2>2, <2>3, <2>4 DEF Flow, Grounded
  <2> QED BY <1>1, <2>1, <2>5 DEF Flow, Swept
<1>3. CASE req[p].pc = "idle" /\ req'[p] = req[p]
  BY <1>1, <1>3 DEF Flow, Grounded, Swept, Fits
<1>4. CASE req'[p] = req[p] /\ UNCHANGED tables
  BY <1>1, <1>4
     DEF Flow, Grounded, Swept, Fits, Written, Tracked, Readable, Life!Plannable, tables
<1> QED BY <1>2, <1>3, <1>4

(* So a step of q has only q left to account for.                           *)
LEMMA FlowOfStep ==
  ASSUME FlowInv, NEW q \in Request, NEW rec, Onward,
         Goes(q, rec) \/ (Looks(q, rec) /\ UNCHANGED tables),
         Flow(q)'
  PROVE  \A p \in Request : Flow(p)'
<1> SUFFICES ASSUME NEW p \in Request \ {q} PROVE Flow(p)'
  OBVIOUS
<1>1. \/ req'[p] = [req[p] EXCEPT !.alone = FALSE]
      \/ (req[p].pc = "idle" /\ req'[p] = req[p])
      \/ (req'[p] = req[p] /\ UNCHANGED tables)
  BY DEF Goes, Looks, Disturbed, FlowInv, TypeOK
<1> QED BY <1>1, OthersFlow

LEMMA FlowOfIdle ==
  ASSUME FlowInv, NEW q \in Request, Onward, Goes(q, Idle) \/ (Looks(q, Idle) /\ UNCHANGED tables)
  PROVE  \A p \in Request : Flow(p)'
<1>1. req'[q] = Idle
  BY SelfGoes DEF FlowInv
<1>2. Flow(q)'
  BY <1>1, IdleFlows DEF FlowInv
<1> QED BY <1>2, FlowOfStep

(* The table of orders and the table of stops, action by action.            *)
LEMMA TablesOnward ==
  ASSUME TypeOK, NEW q \in Request,
         \/ UNCHANGED <<order, mission>>
         \/ Sweeps(q) \/ Generates(q) \/ Cancels(q) \/ Delivers(q)
         \/ \E o \in Order : WriteFails(q, o) \/ CompletionFails(o)
         \/ \E r \in Route, status \in Reported : ReportRoute(r, status)
  PROVE  Onward
<1>0. \A o \in Order : mission[o] \in MissionRow
  BY DEF TypeOK
<1>a. ASSUME NEW o, NEW status \in {"cancelled", "delivered"}, Rewrite(o, status),
             UNCHANGED order
      PROVE  Onward
  <2>1. \A x \in Order : IF x = o THEN mission'[x].status = status
                         ELSE mission'[x] = mission[x]
    BY <1>a, Rewritten
  <2> QED BY <1>a, <2>1 DEF Onward, NoMission
<1>1. CASE UNCHANGED <<order, mission>>
  BY <1>1 DEF Onward
<1>2. CASE Sweeps(q)
  <2>1. ASSUME NEW o \in Order, SweepStop(q, o) PROVE Onward
    BY <1>a, <2>1 DEF SweepStop, Onward
  <2>2. ASSUME SweepOrder(q) PROVE Onward
    BY <2>2 DEF SweepOrder, Onward, TypeOK
  <2>3. ASSUME (\E r \in Route : SweepRoute(q, r)) \/ SweepClose(q) \/ SweepEnd(q)
        PROVE  UNCHANGED <<order, mission>>
    BY <2>3 DEF SweepRoute, SweepClose, SweepEnd, tables
  <2> QED BY <1>1, <1>2, <2>1, <2>2, <2>3 DEF Sweeps
<1>3. CASE Generates(q)
  <2>1. ASSUME NEW o \in Order, PlanOrder(q, o) PROVE Onward
    BY <2>1 DEF PlanOrder, Onward, TypeOK
  <2>2. ASSUME NEW o \in Order, PlanStop(q, o) PROVE Onward
    BY <1>0, <2>2 DEF PlanStop, Onward, NoMission, MissionRow, TypeOK
  <2>3. ASSUME Check(q) \/ Solve(q) \/ \E r \in Route : PlanRoute(q, r)
        PROVE  UNCHANGED <<order, mission>>
    BY <2>3 DEF Check, Solve, PlanRoute, tables
  <2> QED BY <1>1, <1>3, <2>1, <2>2, <2>3 DEF Generates
<1>4. CASE Cancels(q)
  <2>1. ASSUME NEW o \in Order, CancelStop(q, o) PROVE Onward
    BY <1>a, <2>1 DEF CancelStop
  <2>2. ASSUME NEW o \in Order, CancelOrder(q, o) PROVE Onward
    BY <2>2 DEF CancelOrder, Onward, TypeOK
  <2> QED BY <1>1, <1>4, <2>1, <2>2 DEF Cancels, CancelRoute
<1>5. CASE Delivers(q)
  <2>1. ASSUME DeliverStop(q) PROVE Onward
    BY <1>a, <2>1 DEF DeliverStop
  <2>2. ASSUME DeliverOrder(q) PROVE Onward
    BY <2>2 DEF DeliverOrder, Onward, TypeOK
  <2> QED BY <1>1, <1>5, <2>1, <2>2 DEF Delivers, Deliver, DeliverRoute, tables
<1>6. ASSUME NEW r \in Route, NEW status \in Reported, ReportRoute(r, status)
      PROVE  Onward
  <2>1. \A o \in Order : mission[o] # NoMission =>
          [mission[o] EXCEPT !.status = "ongoing"] # NoMission
    BY <1>0 DEF NoMission, MissionRow
  <2> QED BY <1>6, <2>1 DEF ReportRoute, Onward
<1>7. ASSUME NEW o \in Order, WriteFails(q, o) \/ CompletionFails(o) PROVE Onward
  <2>1. /\ UNCHANGED order
        /\ mission' \in {[mission EXCEPT ![o].status = "cancelled"],
                         [mission EXCEPT ![o].status = "delivered"],
                         [mission EXCEPT ![o].reversed = TRUE]}
    BY <1>7 DEF WriteFails, CompletionFails
  <2>2. \A x \in Order : x # o => mission'[x] = mission[x]
    BY <2>1 DEF TypeOK
  <2>3. mission'[o].status # "none" \/ mission'[o].reversed
    BY <1>0, <2>1 DEF TypeOK, MissionRow
  <2> QED BY <2>1, <2>2, <2>3 DEF Onward, NoMission
<1> QED BY <1>1, <1>2, <1>3, <1>4, <1>5, <1>6, <1>7

LEMMA StopsTracked ==
  ASSUME NEW r \in Route
  PROVE  StopsOn(r) \subseteq Tracked /\ ListedStops(r) \subseteq Tracked
BY NilIsNoRow DEF ListedStops, StopsOn, Tracked, NoMission

LEMMA FlowOfSwept ==
  ASSUME FlowInv, NEW q \in Request, Onward,
         \/ Goes(q, AfterSweep(q))
         \/ Looks(q, AfterSweep(q)) /\ UNCHANGED tables
  PROVE  \A p \in Request : Flow(p)'
<1>1. req'[q] = AfterSweep(q)
  BY SelfGoes DEF FlowInv
<1>2. Flow(q)'
  BY <1>1, AfterSweepTyped DEF FlowInv, Flow, Grounded, Swept, Fits
<1> QED BY <1>2, FlowOfStep

LEMMA SweepFlow ==
  ASSUME FlowInv, NEW q \in Request, Onward,
         Sweeps(q) \/ \E gen \in SUBSET Order : Begin(q, gen)
  PROVE  \A p \in Request : Flow(p)'
<1>0. req[q] \in Requests /\ TypeOK /\ Flow(q)
  BY DEF FlowInv, TypeOK
<1>1. ASSUME NEW gen \in SUBSET Order, Begin(q, gen) PROVE \A p \in Request : Flow(p)'
  <2> DEFINE rec == [Idle EXCEPT !.pc = "sweep", !.gen = gen, !.due = Overdue,
                                 !.rows = Cancelled(Overdue)]
  <2>1. Looks(q, rec) /\ UNCHANGED tables
    BY <1>1 DEF Begin
  <2>2. req'[q] = rec
    BY <1>0, <2>1, SelfGoes
  <2>3. /\ req'[q].pc = "sweep" /\ req'[q].plan = {}
        /\ req'[q].due = Overdue /\ req'[q].rows = Cancelled(Overdue)
    BY <2>2 DEF Idle
  <2>4. \A r \in Overdue : r \in Route /\ Cancelled(Overdue)[r].status = "cancelled"
    <3>1. Overdue \subseteq Route
      BY DEF Overdue, Listed, PastShift
    <3>2. \A r \in Route : route[r] \in RouteRow
      BY <1>0 DEF TypeOK
    <3> QED BY <3>1, <3>2 DEF Cancelled, RouteRow
  <2>5. Flow(q)'
    BY <2>3, <2>4 DEF Flow, Grounded, Swept, Fits
  <2> HIDE DEF rec
  <2> QED BY <2>1, <2>5, FlowOfStep
<1>2. ASSUME NEW r \in Route, SweepRoute(q, r) PROVE \A p \in Request : Flow(p)'
  <2> DEFINE rec == [req[q] EXCEPT !.pc = "stops", !.rt = r, !.todo = ListedStops(r),
                       !.kept = {o \in ListedStops(r) : mission[o].status = "delivered"}]
  <2>1. Looks(q, rec) /\ UNCHANGED tables /\ r \in req[q].due
    BY <1>2 DEF SweepRoute
  <2>2. req'[q] = rec
    BY <1>0, <2>1, SelfGoes
  <2>3. /\ req'[q].pc = "stops" /\ req'[q].rt = r /\ req'[q].todo = ListedStops(r)
        /\ req'[q].plan = req[q].plan /\ req'[q].gen = req[q].gen
        /\ req'[q].due = req[q].due /\ req'[q].rows = req[q].rows
    BY <1>0, <2>2 DEF Requests
  <2>4. ListedStops(r) \subseteq Tracked'
    BY <2>1, StopsTracked DEF tables, Tracked
  <2>5. Flow(q)'
    BY <1>0, <2>1, <2>3, <2>4 DEF Flow, Grounded, Swept, Fits
  <2> HIDE DEF rec
  <2> QED BY <2>1, <2>5, FlowOfStep
<1>3. ASSUME NEW o \in Order, SweepStop(q, o) PROVE \A p \in Request : Flow(p)'
  <2> DEFINE rec == [req[q] EXCEPT !.pc = "stop_order", !.at = o, !.todo = @ \ {o}]
  <2>1. Goes(q, rec) /\ req[q].pc = "stops" /\ o \in req[q].todo
    BY <1>3 DEF SweepStop
  <2>2. req'[q] = rec
    BY <1>0, <2>1, SelfGoes
  <2>3. /\ req'[q].pc = "stop_order" /\ req'[q].rt = req[q].rt /\ req'[q].at = o
        /\ req'[q].todo = req[q].todo \ {o}
        /\ req'[q].plan = req[q].plan /\ req'[q].gen = req[q].gen
        /\ req'[q].due = req[q].due /\ req'[q].rows = req[q].rows
    BY <1>0, <2>2 DEF Requests
  <2>4. req[q].todo \subseteq Tracked'
    BY <1>0, <2>1 DEF Flow, Grounded, Onward, Tracked
  <2>5. Flow(q)'
    BY <1>0, <2>1, <2>3, <2>4 DEF Flow, Grounded, Swept, Fits
  <2> HIDE DEF rec
  <2> QED BY <2>1, <2>5, FlowOfStep
<1>4. CASE SweepOrder(q)
  <2> DEFINE rec == [req[q] EXCEPT !.pc = "stops", !.at = Nil]
  <2>1. Goes(q, rec) /\ req[q].pc = "stop_order"
    BY <1>4 DEF SweepOrder
  <2>2. req'[q] = rec
    BY <1>0, <2>1, SelfGoes
  <2>3. /\ req'[q].pc = "stops" /\ req'[q].rt = req[q].rt /\ req'[q].todo = req[q].todo
        /\ req'[q].plan = req[q].plan /\ req'[q].gen = req[q].gen
        /\ req'[q].due = req[q].due /\ req'[q].rows = req[q].rows
    BY <1>0, <2>2 DEF Requests
  <2>4. req[q].todo \subseteq Tracked'
    BY <1>0, <2>1 DEF Flow, Grounded, Onward, Tracked
  <2>5. Flow(q)'
    BY <1>0, <2>1, <2>3, <2>4 DEF Flow, Grounded, Swept, Fits
  <2> HIDE DEF rec
  <2> QED BY <2>1, <2>5, FlowOfStep
<1>5. CASE SweepClose(q)
  <2> DEFINE rec == [req[q] EXCEPT !.pc = "sweep", !.rt = Nil, !.due = @ \ {req[q].rt},
                       !.rows[req[q].rt] = NoRoute, !.kept = {}]
  <2>1. Goes(q, rec) /\ req[q].pc = "stops"
    BY <1>5 DEF SweepClose
  <2>2. req'[q] = rec
    BY <1>0, <2>1, SelfGoes
  <2>3. /\ req'[q].pc = "sweep"
        /\ req'[q].plan = req[q].plan /\ req'[q].gen = req[q].gen
        /\ req'[q].due = req[q].due \ {req[q].rt}
        /\ req'[q].rows = [req[q].rows EXCEPT ![req[q].rt] = NoRoute]
    BY <1>0, <2>2 DEF Requests
  <2>4. \A r \in req'[q].due : req'[q].rows[r] = req[q].rows[r]
    BY <1>0, <2>3 DEF Requests
  <2>5. Flow(q)'
    BY <1>0, <2>3, <2>4 DEF Flow, Grounded, Swept, Fits
  <2> HIDE DEF rec
  <2> QED BY <2>1, <2>5, FlowOfStep
<1>6. CASE SweepEnd(q)
  BY <1>6, FlowOfSwept DEF SweepEnd
<1> QED BY <1>1, <1>2, <1>3, <1>4, <1>5, <1>6 DEF Sweeps

LEMMA GenerateFlow ==
  ASSUME FlowInv, NEW q \in Request, Onward, Generates(q)
  PROVE  \A p \in Request : Flow(p)'
<1>0. req[q] \in Requests /\ TypeOK /\ Flow(q)
  BY DEF FlowInv, TypeOK
<1>1. CASE Check(q)
  <2> DEFINE known == Listed({r \in Route : route[r].status # "none"})
             scheduled == {r \in known : route[r].status = "scheduled"}
  <2>1. UNCHANGED tables
    BY <1>1 DEF Check
  <2>2. ASSUME NEW r \in IF scheduled = {} THEN {Nil} ELSE scheduled,
               ~Refused(known, req[q].gen),
               Looks(q, [req[q] EXCEPT !.pc = "solve", !.rt = r, !.fresh = (r = Nil)])
        PROVE  \A p \in Request : Flow(p)'
    <3> DEFINE rec == [req[q] EXCEPT !.pc = "solve", !.rt = r, !.fresh = (r = Nil)]
    <3>1. req'[q] = rec
      BY <1>0, <2>2, SelfGoes
    <3>2. /\ req'[q].pc = "solve" /\ req'[q].rt = r /\ req'[q].fresh = (r = Nil)
          /\ req'[q].plan = req[q].plan /\ req'[q].gen = req[q].gen
          /\ req'[q].due = req[q].due /\ req'[q].rows = req[q].rows
      BY <1>0, <3>1 DEF Requests
    <3>3. \A o \in req[q].gen : Life!Plannable(o)
      BY <2>2 DEF Refused, Life!Plannable
    <3>4. ASSUME \A x \in Route : Readable(x)
          PROVE  /\ \A x \in Route : route[x].status \notin Active
                 /\ IF r = Nil THEN \A x \in Route : route[x].status # "scheduled"
                    ELSE r \in Route /\ route[r].status = "scheduled"
      <4>1. known = {x \in Route : route[x].status # "none"}
        BY <3>4 DEF Listed
      <4>2. \A x \in Route : route[x].status \in Active => x \in known
        BY <4>1 DEF Active
      <4>3. \A x \in Route : route[x].status = "scheduled" <=> x \in scheduled
        BY <4>1
      <4>4. \A x \in Route : x # Nil
        BY NilIsNoRow
      <4>5. scheduled \subseteq Route
        BY <4>1
      <4> QED BY <2>2, <4>2, <4>3, <4>4, <4>5 DEF Refused
    <3>5. Flow(q)'
      BY <1>0, <2>1, <3>2, <3>3, <3>4
         DEF Flow, Grounded, Swept, Fits, Readable, Life!Plannable, tables
    <3> HIDE DEF rec
    <3> QED BY <2>1, <2>2, <3>5, FlowOfStep
  <2> QED BY <1>1, <2>1, <2>2, FlowOfIdle DEF Check
<1>2. CASE Solve(q)
  <2>1. UNCHANGED tables /\ req[q].pc = "solve"
    BY <1>2 DEF Solve
  <2>2. ASSUME Looks(q, [req[q] EXCEPT !.pc = "plan_orders", !.rt = Nil, !.todo = req[q].gen])
        PROVE  \A p \in Request : Flow(p)'
    <3> DEFINE rec == [req[q] EXCEPT !.pc = "plan_orders", !.rt = Nil, !.todo = req[q].gen]
    <3>1. req'[q] = rec
      BY <1>0, <2>2, SelfGoes
    <3>2. /\ req'[q].pc = "plan_orders" /\ req'[q].todo = req[q].gen
          /\ req'[q].plan = req[q].plan /\ req'[q].gen = req[q].gen
          /\ req'[q].due = req[q].due /\ req'[q].rows = req[q].rows
          /\ req'[q].alone = req[q].alone
      BY <1>0, <3>1 DEF Requests
    <3>3. Flow(q)'
      BY <1>0, <2>1, <3>2 DEF Flow, Grounded, Swept, Fits, Life!Plannable, tables
    <3> HIDE DEF rec
    <3> QED BY <2>1, <2>2, <3>3, FlowOfStep
  <2>3. ASSUME NEW plan \in SUBSET req[q].gen,
               Looks(q, [req[q] EXCEPT !.pc = "plan_route", !.plan = plan])
        PROVE  \A p \in Request : Flow(p)'
    <3> DEFINE rec == [req[q] EXCEPT !.pc = "plan_route", !.plan = plan]
    <3>1. req'[q] = rec
      BY <1>0, <2>3, SelfGoes
    <3>2. /\ req'[q].pc = "plan_route" /\ req'[q].plan = plan /\ req'[q].gen = req[q].gen
          /\ req'[q].rt = req[q].rt /\ req'[q].fresh = req[q].fresh
          /\ req'[q].due = req[q].due /\ req'[q].rows = req[q].rows
          /\ req'[q].alone = req[q].alone
      BY <1>0, <3>1 DEF Requests
    <3>3. Flow(q)'
      BY <1>0, <2>1, <3>2
         DEF Flow, Grounded, Swept, Fits, Readable, Life!Plannable, tables
    <3> HIDE DEF rec
    <3> QED BY <2>1, <2>3, <3>3, FlowOfStep
  <2> QED BY <1>2, <2>1, <2>2, <2>3, FlowOfIdle DEF Solve
<1>3. ASSUME NEW r \in Route, PlanRoute(q, r) PROVE \A p \in Request : Flow(p)'
  <2> DEFINE rec == [req[q] EXCEPT !.pc = "plan_orders", !.rt = r, !.todo = req[q].gen]
  <2>1. Goes(q, rec) /\ req[q].pc = "plan_route" /\ UNCHANGED <<order, mission>>
    BY <1>3 DEF PlanRoute
  <2>2. req'[q] = rec
    BY <1>0, <2>1, SelfGoes
  <2>3. /\ req'[q].pc = "plan_orders" /\ req'[q].todo = req[q].gen
        /\ req'[q].plan = req[q].plan /\ req'[q].gen = req[q].gen
        /\ req'[q].due = req[q].due /\ req'[q].rows = req[q].rows
        /\ req'[q].alone = req[q].alone
    BY <1>0, <2>2 DEF Requests
  <2>4. Flow(q)'
    BY <1>0, <2>1, <2>3 DEF Flow, Grounded, Swept, Fits, Life!Plannable
  <2> HIDE DEF rec
  <2> QED BY <2>1, <2>4, FlowOfStep
<1>4. ASSUME NEW o \in Order, PlanOrder(q, o) PROVE \A p \in Request : Flow(p)'
  <2> DEFINE on == [req[q] EXCEPT !.todo = @ \ {o}]
             stops_next == [req[q] EXCEPT !.pc = "plan_stops", !.todo = req[q].plan]
             rec == IF req[q].todo # {o} THEN on
                    ELSE IF req[q].plan = {} THEN Idle ELSE stops_next
  <2>1. Goes(q, rec) /\ req[q].pc = "plan_orders" /\ o \in req[q].todo
    BY <1>4 DEF PlanOrder
  <2>2. req'[q] = rec
    BY <1>0, <2>1, SelfGoes
  <2>3. \A x \in Order : order'[x] = IF x # o THEN order[x]
                                     ELSE IF o \in req[q].plan THEN "scheduled" ELSE "unassigned"
    BY <1>0, <1>4 DEF PlanOrder, TypeOK
  <2>4. req[q].plan \subseteq Order /\ req[q].gen \subseteq Order
    BY <1>0 DEF Requests
  <2>5. CASE req[q].todo # {o}
    <3>1. /\ req'[q].pc = "plan_orders" /\ req'[q].todo = req[q].todo \ {o}
          /\ req'[q].plan = req[q].plan /\ req'[q].gen = req[q].gen
          /\ req'[q].due = req[q].due /\ req'[q].rows = req[q].rows
          /\ req'[q].alone = req[q].alone
      BY <1>0, <2>1, <2>2, <2>5 DEF Requests
    <3>2. \A x \in req[q].plan \ req'[q].todo : Written(q, x)'
      BY <1>0, <2>1, <2>3, <2>4, <3>1 DEF Flow, Grounded, Written
    <3>3. req[q].alone => \A x \in req[q].gen : Life!Plannable(x)'
      BY <1>0, <2>1, <2>3, <2>4 DEF Flow, Fits, Life!Plannable
    <3>4. Flow(q)'
      BY <1>0, <2>1, <3>1, <3>2, <3>3 DEF Flow, Grounded, Swept, Fits
    <3> HIDE DEF rec
    <3> QED BY <2>1, <3>4, FlowOfStep
  <2>6. CASE req[q].todo = {o} /\ req[q].plan # {}
    <3>1. /\ req'[q].pc = "plan_stops" /\ req'[q].todo = req[q].plan
          /\ req'[q].plan = req[q].plan /\ req'[q].gen = req[q].gen
          /\ req'[q].due = req[q].due /\ req'[q].rows = req[q].rows
          /\ req'[q].alone = req[q].alone
      BY <1>0, <2>1, <2>2, <2>6 DEF Requests
    <3>2. \A x \in req[q].plan : Written(q, x)'
      BY <1>0, <2>1, <2>3, <2>4, <2>6, <3>1 DEF Flow, Grounded, Written
    <3>3. Flow(q)'
      BY <1>0, <2>1, <3>1, <3>2 DEF Flow, Grounded, Swept, Fits
    <3> HIDE DEF rec
    <3> QED BY <2>1, <3>3, FlowOfStep
  <2>7. CASE req[q].todo = {o} /\ req[q].plan = {}
    BY <2>1, <2>7, FlowOfIdle
  <2> QED BY <2>5, <2>6, <2>7
<1>5. ASSUME NEW o \in Order, PlanStop(q, o) PROVE \A p \in Request : Flow(p)'
  <2> DEFINE rec == [req[q] EXCEPT !.todo = @ \ {o}]
  <2>1. /\ Goes(q, Idle) \/ Goes(q, rec)
        /\ req[q].pc = "plan_stops" /\ UNCHANGED order
    BY <1>5 DEF PlanStop
  <2>2. CASE Goes(q, rec)
    <3>1. req'[q] = rec
      BY <1>0, <2>2, SelfGoes
    <3>2. /\ req'[q].pc = "plan_stops" /\ req'[q].todo = req[q].todo \ {o}
          /\ req'[q].plan = req[q].plan /\ req'[q].gen = req[q].gen
          /\ req'[q].due = req[q].due /\ req'[q].rows = req[q].rows
          /\ req'[q].alone = req[q].alone
      BY <1>0, <2>1, <3>1 DEF Requests
    <3>3. Flow(q)'
      BY <1>0, <2>1, <3>2 DEF Flow, Grounded, Swept, Fits, Written
    <3> HIDE DEF rec
    <3> QED BY <2>2, <3>3, FlowOfStep
  <2> HIDE DEF rec
  <2> QED BY <2>1, <2>2, FlowOfIdle
<1> QED BY <1>1, <1>2, <1>3, <1>4, <1>5 DEF Generates

LEMMA CancelFlow ==
  ASSUME FlowInv, NEW q \in Request, Onward, Cancels(q)
  PROVE  \A p \in Request : Flow(p)'
<1>0. req[q] \in Requests /\ TypeOK /\ Flow(q)
  BY DEF FlowInv, TypeOK
<1>1. ASSUME NEW r \in Route, CancelRoute(q, r) PROVE \A p \in Request : Flow(p)'
  <2> DEFINE rec == [Idle EXCEPT !.pc = "cancel_stops", !.rt = r, !.todo = ListedStops(r)]
  <2>1. (Goes(q, Idle) \/ Goes(q, rec)) /\ UNCHANGED mission
    BY <1>1 DEF CancelRoute
  <2>2. CASE Goes(q, rec)
    <3>1. req'[q] = rec
      BY <1>0, <2>2, SelfGoes
    <3>2. /\ req'[q].pc = "cancel_stops" /\ req'[q].todo = ListedStops(r)
          /\ req'[q].kept = {} /\ req'[q].plan = {} /\ req'[q].gen = {} /\ req'[q].due = {}
      BY <3>1 DEF Idle
    <3>3. ListedStops(r) \subseteq Tracked'
      BY <2>1, StopsTracked DEF Tracked
    <3>4. Flow(q)'
      BY <3>2, <3>3 DEF Flow, Grounded, Swept, Fits
    <3> HIDE DEF rec
    <3> QED BY <2>2, <3>4, FlowOfStep
  <2> HIDE DEF rec
  <2> QED BY <2>1, <2>2, FlowOfIdle
<1>2. ASSUME NEW o \in Order, CancelStop(q, o) PROVE \A p \in Request : Flow(p)'
  <2> DEFINE rec == [req[q] EXCEPT !.kept = @ \cup {o},
                !.pc = IF req[q].todo = {o} THEN "cancel_orders" ELSE @,
                !.todo = IF req[q].todo = {o} THEN req[q].kept \cup {o} ELSE @ \ {o}]
  <2>1. Goes(q, rec) /\ req[q].pc = "cancel_stops" /\ o \in req[q].todo
    BY <1>2 DEF CancelStop
  <2>2. req'[q] = rec
    BY <1>0, <2>1, SelfGoes
  <2>3. /\ req'[q].pc \in {"cancel_stops", "cancel_orders"}
        /\ req'[q].kept = req[q].kept \cup {o}
        /\ req'[q].todo \subseteq req[q].todo \cup req[q].kept
        /\ req'[q].plan = req[q].plan /\ req'[q].gen = req[q].gen
        /\ req'[q].due = req[q].due /\ req'[q].rows = req[q].rows
    BY <1>0, <2>1, <2>2 DEF Requests
  <2>4. req[q].todo \cup req[q].kept \subseteq Tracked'
    BY <1>0, <2>1 DEF Flow, Grounded, Onward, Tracked
  <2>5. Flow(q)'
    BY <1>0, <2>1, <2>3, <2>4 DEF Flow, Grounded, Swept, Fits
  <2> HIDE DEF rec
  <2> QED BY <2>1, <2>5, FlowOfStep
<1>3. ASSUME NEW o \in Order, CancelOrder(q, o) PROVE \A p \in Request : Flow(p)'
  <2> DEFINE rec == [req[q] EXCEPT !.todo = @ \ {o}]
  <2>1. (Goes(q, Idle) \/ Goes(q, rec)) /\ req[q].pc = "cancel_orders"
    BY <1>3 DEF CancelOrder
  <2>2. CASE Goes(q, rec)
    <3>1. req'[q] = rec
      BY <1>0, <2>2, SelfGoes
    <3>2. /\ req'[q].pc = "cancel_orders" /\ req'[q].todo = req[q].todo \ {o}
          /\ req'[q].plan = req[q].plan /\ req'[q].gen = req[q].gen
          /\ req'[q].due = req[q].due /\ req'[q].rows = req[q].rows
      BY <1>0, <2>1, <3>1 DEF Requests
    <3>3. req[q].todo \subseteq Tracked'
      BY <1>0, <2>1 DEF Flow, Grounded, Onward, Tracked
    <3>4. Flow(q)'
      BY <1>0, <3>2, <3>3 DEF Flow, Grounded, Swept, Fits
    <3> HIDE DEF rec
    <3> QED BY <2>2, <3>4, FlowOfStep
  <2> HIDE DEF rec
  <2> QED BY <2>1, <2>2, FlowOfIdle
<1> QED BY <1>1, <1>2, <1>3 DEF Cancels

LEMMA DeliverFlow ==
  ASSUME FlowInv, NEW q \in Request, Onward, Delivers(q)
  PROVE  \A p \in Request : Flow(p)'
<1>0. req[q] \in Requests /\ TypeOK /\ Flow(q)
  BY DEF FlowInv, TypeOK
<1>1. ASSUME NEW o \in Order, Deliver(q, o) PROVE \A p \in Request : Flow(p)'
  <2> DEFINE rec == [Idle EXCEPT !.pc = "deliver_stop", !.at = o, !.rt = mission[o].route,
                                 !.rows = Snapshot({mission[o].route})]
  <2>1. Looks(q, rec) /\ UNCHANGED tables /\ mission[o].route # Nil
    BY <1>1 DEF Deliver
  <2>2. req'[q] = rec
    BY <1>0, <2>1, SelfGoes
  <2>3. /\ req'[q].pc = "deliver_stop" /\ req'[q].at = o
        /\ req'[q].plan = {} /\ req'[q].gen = {} /\ req'[q].due = {}
    BY <2>2 DEF Idle
  <2>4. o \in Tracked'
    BY <2>1 DEF tables, Tracked, NoMission
  <2>5. Flow(q)'
    BY <2>3, <2>4 DEF Flow, Grounded, Swept, Fits
  <2> HIDE DEF rec
  <2> QED BY <2>1, <2>5, FlowOfStep
<1>2. ASSUME NEW pc \in {"deliver_order", "deliver_route"},
             Goes(q, [req[q] EXCEPT !.pc = pc]),
             req[q].pc \in {"deliver_stop", "deliver_order"}
      PROVE  \A p \in Request : Flow(p)'
  <2> DEFINE rec == [req[q] EXCEPT !.pc = pc]
  <2>1. req'[q] = rec
    BY <1>0, <1>2, SelfGoes
  <2>2. /\ req'[q].pc = pc /\ req'[q].at = req[q].at
        /\ req'[q].plan = req[q].plan /\ req'[q].gen = req[q].gen
        /\ req'[q].due = req[q].due /\ req'[q].rows = req[q].rows
    BY <1>0, <2>1 DEF Requests
  <2>3. req[q].at \in Tracked'
    BY <1>0, <1>2 DEF Flow, Grounded, Onward, Tracked
  <2>4. Flow(q)'
    BY <1>0, <2>2, <2>3 DEF Flow, Grounded, Swept, Fits
  <2> HIDE DEF rec
  <2> QED BY <1>2, <2>4, FlowOfStep
<1>3. CASE DeliverStop(q) \/ DeliverOrder(q)
  BY <1>2, <1>3 DEF DeliverStop, DeliverOrder
<1>4. CASE DeliverRoute(q)
  BY <1>4, FlowOfIdle DEF DeliverRoute
<1> QED BY <1>1, <1>3, <1>4 DEF Delivers

LEMMA RestFlow ==
  ASSUME FlowInv, Onward,
         \/ UNCHANGED vars \/ Clock
         \/ \E q \in Request : Stop(q) \/ \E o \in Order : WriteFails(q, o)
         \/ \E o \in Order : CompletionFails(o)
         \/ \E r \in Route, status \in Reported : ReportRoute(r, status)
  PROVE  \A p \in Request : Flow(p)'
<1>1. CASE UNCHANGED vars \/ Clock
  BY <1>1, OthersFlow DEF vars, Clock, tables
<1>2. ASSUME NEW q \in Request, Stop(q) PROVE \A p \in Request : Flow(p)'
  BY <1>2, FlowOfIdle DEF Stop, Looks, tables
<1>3. ASSUME \/ \E o \in Order : CompletionFails(o)
             \/ \E r \in Route, status \in Reported : ReportRoute(r, status),
             NEW p \in Request
      PROVE  Flow(p)'
  <2>1. p # Nil
    BY NilIsNoRow
  <2>2. req'[p] = IF req[p].pc = "idle" THEN req[p] ELSE [req[p] EXCEPT !.alone = FALSE]
    BY <1>3, <2>1 DEF ReportRoute, CompletionFails, Disturbed
  <2> QED BY <2>2, OthersFlow
<1>4. ASSUME NEW q \in Request, NEW o \in Order, WriteFails(q, o)
      PROVE  \A p \in Request : Flow(p)'
  BY <1>4, FlowOfIdle, FlowOfSwept DEF WriteFails
<1> QED BY <1>1, <1>2, <1>3, <1>4

(* An order is written as delivered by a request that holds a stop of it,   *)
(* and a stop is inserted by one that has written its order.                *)
LEMMA DeliveredByItsStop ==
  ASSUME FlowInv, [Next]_vars, NEW o \in Order, order'[o] = "delivered", order[o] # "delivered"
  PROVE  o \in Tracked
<1>0. TypeOK /\ \A q \in Request : Flow(q)
  BY DEF FlowInv
<1>1. PICK q \in Request : DeliverOrder(q)
  <2>1. ASSUME NEW q \in Request, Sweeps(q) PROVE FALSE
    BY <1>0, <2>1 DEF Sweeps, SweepRoute, SweepStop, SweepOrder, SweepClose, SweepEnd, tables,
                      TypeOK
  <2>2. ASSUME NEW q \in Request, Generates(q) PROVE FALSE
    <3>1. ASSUME NEW x \in Order, PlanOrder(q, x) PROVE FALSE
      BY <1>0, <3>1 DEF PlanOrder, TypeOK
    <3> QED BY <2>2, <3>1 DEF Generates, Check, Solve, PlanRoute, PlanStop, tables
  <2>3. ASSUME NEW q \in Request, Cancels(q) PROVE FALSE
    BY <1>0, <2>3 DEF Cancels, CancelRoute, CancelStop, CancelOrder, TypeOK
  <2>4. ASSUME NEW q \in Request, Delivers(q) PROVE DeliverOrder(q)
    BY <2>4 DEF Delivers, Deliver, DeliverStop, DeliverRoute, tables
  <2>5. ASSUME \/ UNCHANGED vars \/ Clock
               \/ \E q \in Request : Stop(q) \/ \E gen \in SUBSET Order : Begin(q, gen)
        PROVE  FALSE
    BY <2>5 DEF vars, Clock, Stop, Begin, tables
  <2>6. ASSUME \/ \E q \in Request, x \in Order : WriteFails(q, x) \/ CompletionFails(x)
               \/ \E r \in Route, status \in Reported : ReportRoute(r, status)
        PROVE  FALSE
    BY <2>6 DEF WriteFails, CompletionFails, ReportRoute
  <2> QED BY <2>1, <2>2, <2>3, <2>4, <2>5, <2>6, ReaderIsASlot DEF Next
<1>2. o = req[q].at /\ req[q].pc = "deliver_order"
  BY <1>0, <1>1 DEF DeliverOrder, TypeOK
<1> QED BY <1>0, <1>2 DEF Flow, Grounded

LEMMA TrackedByItsPlan ==
  ASSUME FlowInv, [Next]_vars, NEW o \in Order, mission[o] = NoMission, mission'[o] # NoMission
  PROVE  \E q \in Request : /\ PlanStop(q, o)
                            /\ Written(q, o)
<1>0. TypeOK /\ \A q \in Request : Flow(q) /\ req[q] \in Requests
  BY DEF FlowInv, TypeOK
<1>1. o \notin Tracked /\ \A r \in Route : o \notin StopsOn(r)
  BY StopsTracked DEF Tracked
<1>2. PICK q \in Request : PlanStop(q, o)
  <2>1. ASSUME NEW q \in Request, Sweeps(q) PROVE FALSE
    <3>1. ASSUME NEW x \in Order, SweepStop(q, x) PROVE FALSE
      <4>1. x = o
        BY <1>0, <3>1, Rewritten DEF SweepStop
      <4> QED BY <1>0, <1>1, <3>1, <4>1 DEF SweepStop, Flow, Grounded
    <3> QED BY <2>1, <3>1 DEF Sweeps, SweepRoute, SweepOrder, SweepClose, SweepEnd, tables
  <2>2. ASSUME NEW q \in Request, Generates(q) PROVE PlanStop(q, o)
    <3>1. ASSUME NEW x \in Order, PlanStop(q, x) PROVE x = o
      BY <1>0, <3>1 DEF PlanStop, TypeOK
    <3> QED BY <2>2, <3>1 DEF Generates, Check, Solve, PlanRoute, PlanOrder, tables
  <2>3. ASSUME NEW q \in Request, Cancels(q) PROVE FALSE
    <3>1. ASSUME NEW x \in Order, CancelStop(q, x) PROVE FALSE
      <4>1. x = o
        BY <1>0, <3>1, Rewritten DEF CancelStop
      <4> QED BY <1>0, <1>1, <3>1, <4>1 DEF CancelStop, Flow, Grounded
    <3> QED BY <2>3, <3>1 DEF Cancels, CancelRoute, CancelOrder
  <2>4. ASSUME NEW q \in Request, Delivers(q) PROVE FALSE
    <3>1. ASSUME DeliverStop(q) PROVE FALSE
      <4>1. req[q].at = o
        BY <1>0, <3>1, Rewritten DEF DeliverStop
      <4> QED BY <1>0, <1>1, <3>1, <4>1 DEF DeliverStop, Flow, Grounded
    <3> QED BY <2>4, <3>1 DEF Delivers, Deliver, DeliverOrder, DeliverRoute, tables
  <2>5. ASSUME NEW r \in Route, NEW status \in Reported, ReportRoute(r, status) PROVE FALSE
    BY <1>1, <2>5 DEF ReportRoute
  <2>6. ASSUME \/ UNCHANGED vars \/ Clock
               \/ \E q \in Request : Stop(q) \/ \E gen \in SUBSET Order : Begin(q, gen)
        PROVE  FALSE
    BY <2>6 DEF vars, Clock, Stop, Begin, tables
  <2>7. ASSUME NEW q \in Request, NEW x \in Order, WriteFails(q, x) \/ CompletionFails(x)
        PROVE  FALSE
    <3>1. mission[x].reversed \/ mission[x].route # Nil
      BY <2>7 DEF WriteFails, CompletionFails
    <3>2. x = o
      BY <1>0, <2>7 DEF WriteFails, CompletionFails, TypeOK
    <3> QED BY <3>1, <3>2 DEF NoMission
  <2> QED BY <2>1, <2>2, <2>3, <2>4, <2>5, <2>6, <2>7, ReaderIsASlot DEF Next
<1>3. Written(q, o)
  BY <1>0, <1>2 DEF PlanStop, Flow, Grounded
<1> QED BY <1>2, <1>3

LEMMA StepOnward ==
  ASSUME TypeOK, [Next]_vars
  PROVE  Onward
<1>1. CASE UNCHANGED vars \/ Clock
  BY <1>1 DEF vars, Clock, tables, Onward
<1>2. CASE \E q \in Request : Stop(q) \/ \E gen \in SUBSET Order : Begin(q, gen)
  BY <1>2 DEF Stop, Begin, tables, Onward
<1> QED BY <1>1, <1>2, TablesOnward, ReaderIsASlot DEF Next

LEMMA NextFlow ==
  ASSUME FlowInv, [Next]_vars
  PROVE  FlowInv'
<1>1. Onward /\ TypeOK'
  BY StepOnward, NextTyped DEF FlowInv
<1>2. TrackedFirst'
  <2>1. ASSUME NEW o \in Order, order'[o] = "delivered" PROVE o \in Tracked'
    BY <1>1, <2>1, DeliveredByItsStop
       DEF FlowInv, TrackedFirst, Life!TrackedBeforeDelivered, Onward, Tracked
  <2>2. ASSUME NEW o \in Order, o \in Tracked' PROVE order'[o] # "registered"
    <3>1. CASE o \in Tracked
      BY <1>1, <3>1 DEF FlowInv, TrackedFirst, Life!TrackedBeforeDelivered, Onward
    <3>2. CASE o \notin Tracked
      BY <1>1, <2>2, <3>2, TrackedByItsPlan DEF Written, Onward, Tracked
    <3> QED BY <3>1, <3>2
  <2>3. \A o \in Order : order'[o] \in OrderStatus
    BY <1>1 DEF TypeOK
  <2> QED BY <2>1, <2>2, <2>3
          DEF TrackedFirst, Life!TrackedBeforeDelivered, Life!Absent, OrderStatus
<1>3. \A p \in Request : Flow(p)'
  BY <1>1, SweepFlow, GenerateFlow, CancelFlow, DeliverFlow, RestFlow DEF Next
<1> QED BY <1>1, <1>2, <1>3 DEF FlowInv

LEMMA InitFlow == Init => FlowInv
<1> SUFFICES ASSUME Init PROVE FlowInv
  OBVIOUS
<1>1. TypeOK
  BY InitTyped
<1>2. TrackedFirst
  BY DEF Init, TrackedFirst, Life!TrackedBeforeDelivered, Tracked
<1>3. ASSUME NEW p \in Request PROVE Flow(p)
  <2>1. req[p].pc = "idle" /\ req[p].due = {} /\ req[p].plan = {}
    BY <1>3 DEF Init, Idle
  <2> QED BY <2>1 DEF Flow, Grounded, Swept, Fits
<1> QED BY <1>1, <1>2, <1>3 DEF FlowInv

LEMMA AlwaysFlow == Spec => []FlowInv
<1> QED BY InitFlow, NextFlow, PTL DEF Spec

(* Whatever overlaps and wherever it is stopped: a delivered order has a    *)
(* stop, and an order with a stop is not registered any more.               *)
THEOREM StopsComeFirst == Spec => []TrackedFirst
<1>1. FlowInv => TrackedFirst
  BY DEF FlowInv
<1> QED BY <1>1, AlwaysFlow, PTL

LEMMA MovesOn ==
  ASSUME FlowInv, [Next]_vars, NEW o \in Order
  PROVE  Life!Move(o)
<1>1. /\ order[o] \in OrderStatus /\ order'[o] \in OrderStatus
      /\ order'[o] = "registered" => order[o] = "registered"
      /\ order[o] = "delivered" => o \in Tracked
  BY NextTyped, StepOnward
     DEF FlowInv, TypeOK, Onward, TrackedFirst, Life!TrackedBeforeDelivered
<1>2. order'[o] = "delivered" => order[o] = "delivered" \/ o \in Tracked
  BY DeliveredByItsStop
<1> QED BY <1>1, <1>2 DEF Life!Move, Life!Plannable, OrderStatus

LEMMA TracksOn ==
  ASSUME FlowInv, [Next]_vars
  PROVE  \/ Life!Track
         \/ \E p \in Request :
              req[p].pc = "plan_stops" /\ ~req[p].alone /\ req'[p] # req[p]
<1>1. Tracked \subseteq Tracked'
  BY StepOnward DEF FlowInv, Onward, Tracked
<1>2. ASSUME NEW o \in Tracked' \ Tracked
      PROVE  \/ order'[o] = "scheduled"
             \/ \E p \in Request :
                  req[p].pc = "plan_stops" /\ ~req[p].alone /\ req'[p] # req[p]
  <2>1. o \in Order /\ mission[o] = NoMission /\ mission'[o] # NoMission
    BY DEF Tracked
  <2>2. PICK q \in Request : PlanStop(q, o) /\ Written(q, o)
    BY <2>1, TrackedByItsPlan
  <2>3. req[q].pc = "plan_stops" /\ o \in req[q].todo /\ UNCHANGED order
    BY <2>2 DEF PlanStop
  <2>4. req'[q] # req[q]
    <3> DEFINE rec == [req[q] EXCEPT !.todo = @ \ {o}]
    <3>1. req[q] \in Requests
      BY DEF FlowInv, TypeOK
    <3>2. o \notin rec.todo
      BY <3>1 DEF Requests
    <3>3. req'[q] = Idle \/ req'[q] = rec
      BY <2>2, SelfGoes DEF PlanStop, FlowInv
    <3> HIDE DEF rec
    <3> QED BY <2>3, <3>2, <3>3, IdleTyped
  <2> QED BY <2>2, <2>3, <2>4 DEF Written
<1> QED BY <1>1, <1>2 DEF Life!Track

(* Overlapping and interrupted requests move the orders as the life cycle   *)
(* of OrderLifecycle allows; what a first stop asks of its order is lost    *)
(* only to a generation that somebody stepped on.                           *)
THEOREM OrdersKeepTheirLife == Spec => OrdersMoveOn
<1>1. ASSUME FlowInv, [Next]_vars
      PROVE  [/\ \A o \in Order : Life!Move(o)
              /\ Life!Track \/ \E p \in Request :
                   req[p].pc = "plan_stops" /\ ~req[p].alone /\ req'[p] # req[p]]_vars
  BY <1>1, MovesOn, TracksOn
<1> QED BY <1>1, AlwaysFlow, PTL DEF Spec, OrdersMoveOn

(* Only the request itself writes its plan.                                 *)
LEMMA PlanWritten ==
  ASSUME TypeOK, [Next]_vars, NEW p \in Request,
         req[p].pc = "plan_route", req'[p].pc = "plan_orders"
  PROVE  \E r \in Route : PlanRoute(p, r) /\ req'[p].rt = r
<1>0. req[p] \in Requests
  BY DEF TypeOK
<1>1. /\ ~Sweeps(p) /\ ~Cancels(p) /\ ~Delivers(p) /\ ~Stop(p)
      /\ ~\E gen \in SUBSET Order : Begin(p, gen)
      /\ ~\E o \in Order : WriteFails(p, o)
  <2>1. Stop(p) => req'[p].pc = "idle"
    BY IdleTyped DEF Stop, TypeOK
  <2> QED BY <2>1 DEF Sweeps, SweepRoute, SweepStop, SweepOrder, SweepClose, SweepEnd,
             Cancels, CancelRoute, CancelStop, CancelOrder,
             Delivers, Deliver, DeliverStop, DeliverOrder, DeliverRoute, Begin,
             WriteFails
<1>2. Generates(p)
  BY <1>1, OnlyItself
<1>3. PICK r \in Route : PlanRoute(p, r)
  BY <1>2 DEF Generates, Check, Solve, PlanOrder, PlanStop
<1>4. req'[p] = [req[p] EXCEPT !.pc = "plan_orders", !.rt = r, !.todo = req[p].gen]
  BY <1>3, SelfGoes DEF PlanRoute
<1>5. req'[p].rt = r
  BY <1>0, <1>4 DEF Requests
<1> QED BY <1>3, <1>5

LEMMA PlanFits ==
  ASSUME FlowInv, [Next]_vars, NEW p \in Request, req[p].alone
  PROVE  /\ /\ req[p].pc = "plan_route" /\ req'[p].pc = "plan_orders"
            /\ \A r \in Route : Readable(r)
            => /\ \A r \in Route : route[r].status \notin Active
               /\ \/ route[req'[p].rt].status = "scheduled"
                  \/ \A r \in Route : route[r].status # "scheduled"
         /\ req[p].pc = "plan_orders" /\ req'[p] # req[p] =>
             \A o \in req[p].todo : Life!Plannable(o)
<1>1. TypeOK /\ Fits(p)
  BY DEF FlowInv, Flow
<1>2. ASSUME req[p].pc = "plan_route", req'[p].pc = "plan_orders"
      PROVE  \E r \in Route : /\ req'[p].rt = r
                              /\ ~req[p].fresh => r = req[p].rt
  BY <1>1, <1>2, PlanWritten DEF PlanRoute
<1> QED BY <1>1, <1>2 DEF Fits

(* What a generation checked before it waited for the solver still holds    *)
(* when its plan is written, unless a commit of another request came        *)
(* between.                                                                 *)
THEOREM ChecksOutliveTheSolver == Spec => UndisturbedPlanFits
<1>1. ASSUME FlowInv, [Next]_vars
      PROVE  [\A p \in Request : req[p].alone =>
               /\ /\ req[p].pc = "plan_route" /\ req'[p].pc = "plan_orders"
                  /\ \A r \in Route : Readable(r)
                  => /\ \A r \in Route : route[r].status \notin Active
                     /\ \/ route[req'[p].rt].status = "scheduled"
                        \/ \A r \in Route : route[r].status # "scheduled"
               /\ req[p].pc = "plan_orders" /\ req'[p] # req[p] =>
                    \A o \in req[p].todo : Life!Plannable(o)]_vars
  BY <1>1, PlanFits
<1> QED BY <1>1, AlwaysFlow, PTL DEF Spec, UndisturbedPlanFits

(* A sweep that is through with the stops of a route always writes it as    *)
(* cancelled, whatever happened to the row since it was read: the safety    *)
(* that OverdueRoutesClose rests on, the rest of which is progress.         *)
THEOREM SweepsClose ==
  Spec => [][\A p \in Request : req[p].pc = "stops" /\ req'[p].pc = "sweep" =>
               route'[req[p].rt].status = "cancelled"]_vars
<1>1. ASSUME FlowInv, [Next]_vars, NEW p \in Request,
             req[p].pc = "stops", req'[p].pc = "sweep"
      PROVE  route'[req[p].rt].status = "cancelled"
  <2>1. TypeOK /\ Swept(p) /\ req[p] \in Requests
    BY <1>1 DEF FlowInv, Flow, TypeOK
  <2>2. req[p].rt \in req[p].due /\ req[p].rt \in Route
    BY <1>1, <2>1 DEF Swept, Requests
  <2>3. SweepClose(p)
    BY <1>1, <2>1, Through
  <2>4. route'[req[p].rt] = req[p].rows[req[p].rt]
    BY <2>1, <2>2, <2>3 DEF SweepClose, TypeOK
  <2> QED BY <2>1, <2>2, <2>4 DEF Swept
<1>2. ASSUME FlowInv, [Next]_vars
      PROVE  [\A p \in Request : req[p].pc = "stops" /\ req'[p].pc = "sweep" =>
                route'[req[p].rt].status = "cancelled"]_vars
  BY <1>1, <1>2
<1> QED BY <1>2, AlwaysFlow, PTL DEF Spec

=============================================================================
