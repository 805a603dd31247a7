-------------------------- MODULE RouteTurnsProofs --------------------------
(***************************************************************************)
(* Theorems about requests of RouteGeneration that nobody steps on: what   *)
(* they have in hand is what the tables hold, so that no write is lost, a  *)
(* plan ends whole, and requests in turn implement RouteRequests.          *)
(***************************************************************************)
EXTENDS RouteTurns, RouteGenerationProofs

-----------------------------------------------------------------------------
(* What a request in progress has in hand, and what it has written so far,  *)
(* while nobody steps on it                                                 *)

Known == Listed({r \in Route : route[r].status # "none"})
Scheduled == {r \in Known : route[r].status = "scheduled"}

(* The rows that will be written back.                                      *)
RowsAreTrue(c) ==
  /\ Sweeping(c) => \A r \in c.due : c.rows[r] = [route[r] EXCEPT !.status = "cancelled"]
  /\ c.pc \in {"deliver_stop", "deliver_order", "deliver_route"} =>
       c.rt \in Route /\ c.rows[c.rt] = route[c.rt]

(* The stops still to be written can be read.                               *)
LoopIsTrue(c) ==
  /\ c.pc \in {"stops", "stop_order"} =>
       /\ c.todo \subseteq ListedStops(c.rt)
       /\ \A o \in c.todo : o \in c.kept <=> mission[o].status = "delivered"
  /\ c.pc = "stop_order" => c.at \in ListedStops(c.rt)
  /\ c.pc = "cancel_stops" => c.todo \subseteq ListedStops(c.rt)
  /\ c.pc = "deliver_stop" => c.at \in Order /\ ~mission[c.at].reversed

(* What a generation checked.                                               *)
CheckIsTrue(c) ==
  c.pc \in {"solve", "plan_route"} =>
    /\ ~Refused(Known, c.gen)
    /\ c.fresh <=> Scheduled = {}
    /\ ~c.fresh => c.rt \in Scheduled

(* How much of its plan it has written.                                     *)
PlannedStatus(c, o) == IF o \in c.plan THEN "scheduled" ELSE "unassigned"
PlanIsTrue(c) ==
  /\ c.pc \in {"sweep", "stops", "stop_order", "check", "solve"} => c.plan = {}
  /\ c.plan \subseteq c.gen
  /\ c.pc = "plan_route" => c.plan # {}
  /\ c.pc \in {"plan_orders", "plan_stops"} /\ c.plan # {} =>
       c.rt \in Route /\ route[c.rt] = Planned
  /\ c.pc = "plan_orders" =>
       /\ c.todo \subseteq c.gen
       /\ \A o \in c.gen \ c.todo : order[o] = PlannedStatus(c, o)
  /\ c.pc = "plan_stops" =>
       /\ c.todo \subseteq c.plan /\ c.plan # {}
       /\ \A o \in c.gen : order[o] = PlannedStatus(c, o)
       /\ \A o \in c.plan \ c.todo : mission[o].status = "scheduled"

InHand(c) == RowsAreTrue(c) /\ LoopIsTrue(c) /\ CheckIsTrue(c) /\ PlanIsTrue(c)

Hand(p) == req[p].pc # "idle" /\ req[p].alone => InHand(req[p])

HandInv == TypeOK /\ \A p \in Request : Hand(p)

(* Who sees no change keeps what it has.                                    *)
LEMMA HandKept ==
  ASSUME NEW p \in Request, Hand(p), req'[p] = req[p], UNCHANGED tables
  PROVE  Hand(p)'
<1>1. UNCHANGED <<order, mission, route>>
  BY DEF tables
<1>2. \A r : ListedStops(r)' = ListedStops(r)
  BY <1>1 DEF ListedStops, Unlisted, StopsOn
<1>3. LoopIsTrue(req[p]) => LoopIsTrue(req[p])'
  BY <1>1, <1>2 DEF LoopIsTrue
<1>4. /\ RowsAreTrue(req[p]) => RowsAreTrue(req[p])'
      /\ CheckIsTrue(req[p]) => CheckIsTrue(req[p])'
      /\ PlanIsTrue(req[p]) => PlanIsTrue(req[p])'
  BY <1>1 DEF RowsAreTrue, Sweeping, CheckIsTrue, PlanIsTrue, PlannedStatus,
              Known, Scheduled, Refused, Listed, Readable
<1> QED BY <1>3, <1>4 DEF Hand, InHand

(* A step of q has only q left to account for: who is stepped on is not     *)
(* alone any more, and who only looks changes no table.                     *)
LEMMA HandOfStep ==
  ASSUME HandInv, NEW q \in Request, NEW rec,
         Goes(q, rec) \/ (Looks(q, rec) /\ UNCHANGED tables),
         Hand(q)'
  PROVE  \A p \in Request : Hand(p)'
<1> SUFFICES ASSUME NEW p \in Request \ {q} PROVE Hand(p)'
  OBVIOUS
<1>1. req[p] \in Requests /\ Hand(p)
  BY DEF HandInv, TypeOK
<1>2. CASE req'[p] = [req[p] EXCEPT !.alone = FALSE]
  <2>1. ~req'[p].alone
    BY <1>1, <1>2 DEF Requests
  <2> QED BY <2>1 DEF Hand
<1>3. CASE req[p].pc = "idle" /\ req'[p] = req[p]
  BY <1>3 DEF Hand
<1>4. CASE req'[p] = req[p] /\ UNCHANGED tables
  BY <1>1, <1>4, HandKept
<1>5. \/ req'[p] = [req[p] EXCEPT !.alone = FALSE]
      \/ (req[p].pc = "idle" /\ req'[p] = req[p])
      \/ (req'[p] = req[p] /\ UNCHANGED tables)
  BY DEF Goes, Looks, Disturbed, HandInv, TypeOK
<1> QED BY <1>2, <1>3, <1>4, <1>5

LEMMA HandOfIdle ==
  ASSUME HandInv, NEW q \in Request, Goes(q, Idle) \/ (Looks(q, Idle) /\ UNCHANGED tables)
  PROVE  \A p \in Request : Hand(p)'
<1>1. req'[q] = Idle
  BY SelfGoes DEF HandInv
<1>2. Hand(q)'
  BY <1>1, IdleTyped DEF Hand
<1> QED BY <1>2, HandOfStep

LEMMA HandOfSwept ==
  ASSUME HandInv, NEW q \in Request,
         Goes(q, AfterSweep(q)) \/ (Looks(q, AfterSweep(q)) /\ UNCHANGED tables)
  PROVE  \A p \in Request : Hand(p)'
<1>1. req'[q] = AfterSweep(q)
  BY SelfGoes DEF HandInv
<1>2. req'[q].pc = "idle" \/ (req'[q].pc = "check" /\ req'[q].plan = {})
  BY <1>1 DEF AfterSweep, Idle
<1>3. Hand(q)'
  BY <1>2 DEF Hand, InHand, RowsAreTrue, Sweeping, LoopIsTrue, CheckIsTrue, PlanIsTrue
<1> QED BY <1>3, HandOfStep

(* A stop that can be read is written back as it is.                        *)
LEMMA LegibleRewritten ==
  ASSUME TypeOK, NEW o \in Order, NEW status \in {"cancelled", "delivered"},
         Rewrite(o, status), ~mission[o].reversed
  PROVE  /\ \A x \in Order \ {o} : mission'[x] = mission[x]
         /\ mission'[o] = [mission[o] EXCEPT !.status = status]
         /\ \A x \in Order : /\ mission'[x].route = mission[x].route
                             /\ mission'[x].reversed = mission[x].reversed
<1>1. mission'[o] = [mission[o] EXCEPT !.status = status]
  BY RewrittenAsRead
<1>2. \A x \in Order \ {o} : mission'[x] = mission[x]
  BY Rewritten
<1>3. mission[o] \in MissionRow
  BY DEF TypeOK
<1>4. mission'[o].route = mission[o].route /\ mission'[o].reversed = mission[o].reversed
  BY <1>1, <1>3 DEF MissionRow
<1> QED BY <1>1, <1>2, <1>4

LEMMA ListsKept ==
  ASSUME \A x \in Order : /\ mission'[x].route = mission[x].route
                         /\ mission'[x].reversed = mission[x].reversed
  PROVE  \A r : ListedStops(r)' = ListedStops(r)
<1>1. \A r : StopsOn(r)' = StopsOn(r)
  BY DEF StopsOn
<1>2. \A r : StopsOn(r) \subseteq Order
  BY DEF StopsOn
<1> QED BY <1>1, <1>2 DEF ListedStops, Unlisted

LEMMA SweepHand ==
  ASSUME HandInv, NEW q \in Request,
         Sweeps(q) \/ \E gen \in SUBSET Order : Begin(q, gen)
  PROVE  \A p \in Request : Hand(p)'
<1>0. req[q] \in Requests /\ TypeOK /\ Hand(q)
  BY DEF HandInv, TypeOK
<1>1. ASSUME NEW gen \in SUBSET Order, Begin(q, gen) PROVE \A p \in Request : Hand(p)'
  <2> DEFINE rec == [Idle EXCEPT !.pc = "sweep", !.gen = gen, !.due = Overdue,
                                 !.rows = Cancelled(Overdue)]
  <2>1. Looks(q, rec) /\ UNCHANGED tables
    BY <1>1 DEF Begin
  <2>2. req'[q] = rec
    BY <1>0, <2>1, SelfGoes
  <2>3. /\ req'[q].pc = "sweep" /\ req'[q].plan = {}
        /\ req'[q].due = Overdue /\ req'[q].rows = Cancelled(Overdue)
    BY <2>2 DEF Idle
  <2>4. \A r \in Overdue : Cancelled(Overdue)[r] = [route[r] EXCEPT !.status = "cancelled"]
    BY DEF Overdue, Listed, PastShift, Cancelled
  <2>5. Hand(q)'
    BY <2>1, <2>3, <2>4
       DEF Hand, InHand, RowsAreTrue, Sweeping, LoopIsTrue, CheckIsTrue, PlanIsTrue, tables
  <2> HIDE DEF rec
  <2> QED BY <2>1, <2>5, HandOfStep
<1>2. ASSUME NEW r \in Route, SweepRoute(q, r) PROVE \A p \in Request : Hand(p)'
  <2> DEFINE rec == [req[q] EXCEPT !.pc = "stops", !.rt = r, !.todo = ListedStops(r),
                       !.kept = {o \in ListedStops(r) : mission[o].status = "delivered"}]
  <2>1. Looks(q, rec) /\ UNCHANGED tables /\ req[q].pc = "sweep"
    BY <1>2 DEF SweepRoute
  <2>2. req'[q] = rec
    BY <1>0, <2>1, SelfGoes
  <2>3. /\ req'[q].pc = "stops" /\ req'[q].rt = r /\ req'[q].todo = ListedStops(r)
        /\ req'[q].kept = {o \in ListedStops(r) : mission[o].status = "delivered"}
        /\ req'[q].plan = req[q].plan /\ req'[q].gen = req[q].gen
        /\ req'[q].due = req[q].due /\ req'[q].rows = req[q].rows
        /\ req'[q].alone = req[q].alone
    BY <1>0, <2>2 DEF Requests
  <2>4. UNCHANGED <<order, mission, route>>
    BY <2>1 DEF tables
  <2>5. Hand(q)'
    BY <1>0, <2>1, <2>3, <2>4
       DEF Hand, InHand, RowsAreTrue, Sweeping, LoopIsTrue, CheckIsTrue, PlanIsTrue,
           ListedStops, Unlisted, StopsOn
  <2> HIDE DEF rec
  <2> QED BY <2>1, <2>5, HandOfStep
<1>3. ASSUME NEW o \in Order, SweepStop(q, o) PROVE \A p \in Request : Hand(p)'
  <2> DEFINE rec == [req[q] EXCEPT !.pc = "stop_order", !.at = o, !.todo = @ \ {o}]
  <2>1. Goes(q, rec) /\ req[q].pc = "stops" /\ o \in req[q].todo /\ UNCHANGED <<order, route>>
    BY <1>3 DEF SweepStop
  <2>2. req'[q] = rec
    BY <1>0, <2>1, SelfGoes
  <2>3. /\ req'[q].pc = "stop_order" /\ req'[q].rt = req[q].rt /\ req'[q].at = o
        /\ req'[q].todo = req[q].todo \ {o} /\ req'[q].kept = req[q].kept
        /\ req'[q].plan = req[q].plan /\ req'[q].gen = req[q].gen
        /\ req'[q].due = req[q].due /\ req'[q].rows = req[q].rows
        /\ req'[q].alone = req[q].alone
    BY <1>0, <2>2 DEF Requests
  <2>4. ASSUME req[q].alone PROVE Hand(q)'
    <3>1. InHand(req[q]) /\ req[q].todo \subseteq Order
      BY <1>0, <2>1, <2>4 DEF Hand, Requests
    <3>2. o \in ListedStops(req[q].rt) /\ ~mission[o].reversed
      BY <2>1, <3>1 DEF InHand, LoopIsTrue, ListedStops, Unlisted
    <3>3. /\ \A x \in Order \ {o} : mission'[x] = mission[x]
          /\ \A x \in Order : /\ mission'[x].route = mission[x].route
                              /\ mission'[x].reversed = mission[x].reversed
      BY <1>0, <1>3, <3>2, LegibleRewritten DEF SweepStop
    <3>4. \A r : ListedStops(r)' = ListedStops(r)
      BY <3>3, ListsKept
    <3>5. LoopIsTrue(req[q])'
      BY <2>1, <2>3, <3>1, <3>2, <3>3, <3>4 DEF InHand, LoopIsTrue
    <3>6. (RowsAreTrue(req[q]) /\ CheckIsTrue(req[q]) /\ PlanIsTrue(req[q]))'
      BY <2>1, <2>3, <3>1 DEF InHand, RowsAreTrue, Sweeping, CheckIsTrue, PlanIsTrue
    <3> QED BY <3>5, <3>6 DEF Hand, InHand
  <2>5. ASSUME ~req[q].alone PROVE Hand(q)'
    BY <2>3, <2>5 DEF Hand
  <2> HIDE DEF rec
  <2> QED BY <2>1, <2>4, <2>5, HandOfStep
<1>4. CASE SweepOrder(q)
  <2> DEFINE rec == [req[q] EXCEPT !.pc = "stops", !.at = Nil]
  <2>1. Goes(q, rec) /\ req[q].pc = "stop_order" /\ UNCHANGED <<mission, route>>
    BY <1>4 DEF SweepOrder
  <2>2. req'[q] = rec
    BY <1>0, <2>1, SelfGoes
  <2>3. /\ req'[q].pc = "stops" /\ req'[q].rt = req[q].rt
        /\ req'[q].todo = req[q].todo /\ req'[q].kept = req[q].kept
        /\ req'[q].plan = req[q].plan /\ req'[q].gen = req[q].gen
        /\ req'[q].due = req[q].due /\ req'[q].rows = req[q].rows
        /\ req'[q].alone = req[q].alone
    BY <1>0, <2>2 DEF Requests
  <2>4. Hand(q)'
    BY <1>0, <2>1, <2>3
       DEF Hand, InHand, RowsAreTrue, Sweeping, LoopIsTrue, CheckIsTrue, PlanIsTrue,
           ListedStops, Unlisted, StopsOn
  <2> HIDE DEF rec
  <2> QED BY <2>1, <2>4, HandOfStep
<1>5. CASE SweepClose(q)
  <2> DEFINE rec == [req[q] EXCEPT !.pc = "sweep", !.rt = Nil, !.due = @ \ {req[q].rt},
                       !.rows[req[q].rt] = NoRoute, !.kept = {}]
  <2>1. Goes(q, rec) /\ req[q].pc = "stops"
    BY <1>5 DEF SweepClose
  <2>2. req'[q] = rec
    BY <1>0, <2>1, SelfGoes
  <2>3. /\ req'[q].pc = "sweep"
        /\ req'[q].plan = req[q].plan /\ req'[q].gen = req[q].gen
        /\ req'[q].due = req[q].due \ {req[q].rt}
        /\ req'[q].rows = [req[q].rows EXCEPT ![req[q].rt] = NoRoute]
        /\ req'[q].alone = req[q].alone
    BY <1>0, <2>2 DEF Requests
  <2>4. \A r \in req'[q].due : req'[q].rows[r] = req[q].rows[r] /\ route'[r] = route[r]
    BY <1>0, <1>5, <2>3 DEF Requests, SweepClose, TypeOK
  <2>5. Hand(q)'
    BY <1>0, <2>1, <2>3, <2>4
       DEF Hand, InHand, RowsAreTrue, Sweeping, LoopIsTrue, CheckIsTrue, PlanIsTrue
  <2> HIDE DEF rec
  <2> QED BY <2>1, <2>5, HandOfStep
<1>6. CASE SweepEnd(q)
  BY <1>6, HandOfSwept DEF SweepEnd
<1> QED BY <1>1, <1>2, <1>3, <1>4, <1>5, <1>6 DEF Sweeps

LEMMA GenerateHand ==
  ASSUME HandInv, NEW q \in Request, Generates(q)
  PROVE  \A p \in Request : Hand(p)'
<1>0. req[q] \in Requests /\ TypeOK /\ Hand(q)
  BY DEF HandInv, TypeOK
<1>1. CASE Check(q)
  <2>1. UNCHANGED tables /\ req[q].pc = "check"
    BY <1>1 DEF Check
  <2>2. ASSUME NEW r \in IF Scheduled = {} THEN {Nil} ELSE Scheduled,
               ~Refused(Known, req[q].gen),
               Looks(q, [req[q] EXCEPT !.pc = "solve", !.rt = r, !.fresh = (r = Nil)])
        PROVE  \A p \in Request : Hand(p)'
    <3> DEFINE rec == [req[q] EXCEPT !.pc = "solve", !.rt = r, !.fresh = (r = Nil)]
    <3>1. req'[q] = rec
      BY <1>0, <2>2, SelfGoes
    <3>2. /\ req'[q].pc = "solve" /\ req'[q].rt = r /\ req'[q].fresh = (r = Nil)
          /\ req'[q].plan = req[q].plan /\ req'[q].gen = req[q].gen
          /\ req'[q].due = req[q].due /\ req'[q].rows = req[q].rows
          /\ req'[q].alone = req[q].alone
      BY <1>0, <3>1 DEF Requests
    <3>3. UNCHANGED <<order, mission, route>>
      BY <2>1 DEF tables
    <3>4. Known' = Known /\ Scheduled' = Scheduled
      BY <3>3 DEF Known, Scheduled, Listed, Readable
    <3>5. CheckIsTrue(req[q])'
      <4>1. Refused(Known, req[q].gen)' <=> Refused(Known, req[q].gen)
        BY <3>2, <3>3, <3>4 DEF Refused
      <4>2. Nil \notin Scheduled
        BY NilIsNoRow DEF Scheduled, Known, Listed
      <4>3. (r = Nil <=> Scheduled = {}) /\ (r # Nil => r \in Scheduled)
        BY <2>2, <4>2
      <4> QED BY <2>2, <3>2, <3>4, <4>1, <4>3 DEF CheckIsTrue
    <3>6. Hand(q)'
      BY <1>0, <2>1, <3>2, <3>3, <3>5
         DEF Hand, InHand, RowsAreTrue, Sweeping, LoopIsTrue, PlanIsTrue
    <3> HIDE DEF rec
    <3> QED BY <2>1, <2>2, <3>6, HandOfStep
  <2> QED BY <1>1, <2>1, <2>2, HandOfIdle DEF Check, Known, Scheduled
<1>2. CASE Solve(q)
  <2>1. UNCHANGED tables /\ req[q].pc = "solve" /\ UNCHANGED <<order, mission, route>>
    BY <1>2 DEF Solve, tables
  <2>2. ASSUME Looks(q, [req[q] EXCEPT !.pc = "plan_orders", !.rt = Nil, !.todo = req[q].gen])
        PROVE  \A p \in Request : Hand(p)'
    <3> DEFINE rec == [req[q] EXCEPT !.pc = "plan_orders", !.rt = Nil, !.todo = req[q].gen]
    <3>1. req'[q] = rec
      BY <1>0, <2>2, SelfGoes
    <3>2. /\ req'[q].pc = "plan_orders" /\ req'[q].todo = req[q].gen
          /\ req'[q].plan = req[q].plan /\ req'[q].gen = req[q].gen
          /\ req'[q].due = req[q].due /\ req'[q].rows = req[q].rows
          /\ req'[q].alone = req[q].alone
      BY <1>0, <3>1 DEF Requests
    <3>3. Hand(q)'
      BY <1>0, <2>1, <3>2
         DEF Hand, InHand, RowsAreTrue, Sweeping, LoopIsTrue, CheckIsTrue, PlanIsTrue
    <3> HIDE DEF rec
    <3> QED BY <2>1, <2>2, <3>3, HandOfStep
  <2>3. ASSUME NEW plan \in (SUBSET req[q].gen) \ {{}},
               Looks(q, [req[q] EXCEPT !.pc = "plan_route", !.plan = plan])
        PROVE  \A p \in Request : Hand(p)'
    <3> DEFINE rec == [req[q] EXCEPT !.pc = "plan_route", !.plan = plan]
    <3>1. req'[q] = rec
      BY <1>0, <2>3, SelfGoes
    <3>2. /\ req'[q].pc = "plan_route" /\ req'[q].plan = plan /\ req'[q].gen = req[q].gen
          /\ req'[q].rt = req[q].rt /\ req'[q].fresh = req[q].fresh
          /\ req'[q].due = req[q].due /\ req'[q].rows = req[q].rows
          /\ req'[q].alone = req[q].alone
      BY <1>0, <3>1 DEF Requests
    <3>3. CheckIsTrue(req[q]) => CheckIsTrue(req[q])'
      BY <2>1, <3>2 DEF CheckIsTrue, Refused, Known, Scheduled, Listed, Readable
    <3>4. Hand(q)'
      BY <1>0, <2>1, <3>2, <3>3 DEF Hand, InHand, RowsAreTrue, Sweeping, LoopIsTrue, PlanIsTrue
    <3> HIDE DEF rec
    <3> QED BY <2>1, <2>3, <3>4, HandOfStep
  <2> QED BY <1>2, <2>1, <2>2, <2>3, HandOfIdle DEF Solve
<1>3. ASSUME NEW r \in Route, PlanRoute(q, r) PROVE \A p \in Request : Hand(p)'
  <2> DEFINE rec == [req[q] EXCEPT !.pc = "plan_orders", !.rt = r, !.todo = req[q].gen]
  <2>1. Goes(q, rec) /\ req[q].pc = "plan_route" /\ route' = [route EXCEPT ![r] = Planned]
    BY <1>3 DEF PlanRoute
  <2>2. req'[q] = rec
    BY <1>0, <2>1, SelfGoes
  <2>3. /\ req'[q].pc = "plan_orders" /\ req'[q].rt = r /\ req'[q].todo = req[q].gen
        /\ req'[q].plan = req[q].plan /\ req'[q].gen = req[q].gen
        /\ req'[q].due = req[q].due /\ req'[q].rows = req[q].rows
        /\ req'[q].alone = req[q].alone
    BY <1>0, <2>2 DEF Requests
  <2>4. route'[r] = Planned
    BY <1>0, <2>1 DEF TypeOK
  <2>5. Hand(q)'
    BY <1>0, <2>1, <2>3, <2>4
       DEF Hand, InHand, RowsAreTrue, LoopIsTrue, CheckIsTrue, PlanIsTrue, Sweeping
  <2> HIDE DEF rec
  <2> QED BY <2>1, <2>5, HandOfStep
<1>4. ASSUME NEW o \in Order, PlanOrder(q, o) PROVE \A p \in Request : Hand(p)'
  <2> DEFINE on == [req[q] EXCEPT !.todo = @ \ {o}]
             stops_next == [req[q] EXCEPT !.pc = "plan_stops", !.todo = req[q].plan]
             rec == IF req[q].todo # {o} THEN on
                    ELSE IF req[q].plan = {} THEN Idle ELSE stops_next
  <2>1. /\ Goes(q, rec) /\ req[q].pc = "plan_orders" /\ o \in req[q].todo
        /\ UNCHANGED <<mission, route>>
    BY <1>4 DEF PlanOrder
  <2>2. req'[q] = rec
    BY <1>0, <2>1, SelfGoes
  <2>3. \A x \in Order : order'[x] = IF x # o THEN order[x] ELSE PlannedStatus(req[q], o)
    BY <1>0, <1>4 DEF PlanOrder, PlannedStatus, TypeOK
  <2>4. req[q].gen \subseteq Order
    BY <1>0 DEF Requests
  <2>5. CASE req[q].todo # {o}
    <3>1. /\ req'[q].pc = "plan_orders" /\ req'[q].rt = req[q].rt
          /\ req'[q].todo = req[q].todo \ {o}
          /\ req'[q].plan = req[q].plan /\ req'[q].gen = req[q].gen
          /\ req'[q].alone = req[q].alone
      BY <1>0, <2>1, <2>2, <2>5 DEF Requests
    <3>2. PlanIsTrue(req[q]) => PlanIsTrue(req[q])'
      BY <2>1, <2>3, <2>4, <3>1 DEF PlanIsTrue, PlannedStatus
    <3>3. Hand(q)'
      BY <1>0, <2>1, <3>1, <3>2
         DEF Hand, InHand, RowsAreTrue, LoopIsTrue, CheckIsTrue, Sweeping
    <3> HIDE DEF rec
    <3> QED BY <2>1, <3>3, HandOfStep
  <2>6. CASE req[q].todo = {o} /\ req[q].plan # {}
    <3>1. /\ req'[q].pc = "plan_stops" /\ req'[q].rt = req[q].rt
          /\ req'[q].todo = req[q].plan
          /\ req'[q].plan = req[q].plan /\ req'[q].gen = req[q].gen
          /\ req'[q].alone = req[q].alone
      BY <1>0, <2>1, <2>2, <2>6 DEF Requests
    <3>2. PlanIsTrue(req[q]) => PlanIsTrue(req[q])'
      BY <2>1, <2>3, <2>4, <2>6, <3>1 DEF PlanIsTrue, PlannedStatus
    <3>3. Hand(q)'
      BY <1>0, <2>1, <3>1, <3>2
         DEF Hand, InHand, RowsAreTrue, LoopIsTrue, CheckIsTrue, Sweeping
    <3> HIDE DEF rec
    <3> QED BY <2>1, <3>3, HandOfStep
  <2>7. CASE req[q].todo = {o} /\ req[q].plan = {}
    BY <2>1, <2>7, HandOfIdle
  <2> QED BY <2>5, <2>6, <2>7
<1>5. ASSUME NEW o \in Order, PlanStop(q, o) PROVE \A p \in Request : Hand(p)'
  <2> DEFINE rec == [req[q] EXCEPT !.todo = @ \ {o}]
  <2>1. /\ Goes(q, Idle) \/ (Goes(q, rec) /\ ~Unwritable(req[q], o))
        /\ req[q].pc = "plan_stops" /\ o \in req[q].todo /\ UNCHANGED <<order, route>>
    BY <1>5 DEF PlanStop, Unwritable, Tracked
  <2>2. CASE Goes(q, rec) /\ ~Unwritable(req[q], o)
    <3>1. req'[q] = rec
      BY <1>0, <2>2, SelfGoes
    <3>2. /\ req'[q].pc = "plan_stops" /\ req'[q].rt = req[q].rt
          /\ req'[q].todo = req[q].todo \ {o}
          /\ req'[q].plan = req[q].plan /\ req'[q].gen = req[q].gen
          /\ req'[q].alone = req[q].alone
      BY <1>0, <2>1, <3>1 DEF Requests
    <3>3. /\ mission'[o].status = "scheduled"
          /\ \A x \in Order \ {o} : mission'[x] = mission[x]
      <4>1. mission[o] \in MissionRow
        BY <1>0 DEF TypeOK
      <4>2. [mission[o] EXCEPT !.status = "scheduled"].status = "scheduled"
        BY <4>1 DEF MissionRow
      <4> QED BY <1>0, <1>5, <2>2, <4>2 DEF PlanStop, Unwritable, Tracked, TypeOK
    <3>4. PlanIsTrue(req[q]) => PlanIsTrue(req[q])'
      <4>1. req[q].plan \subseteq Order
        BY <1>0 DEF Requests
      <4> QED BY <2>1, <3>2, <3>3, <4>1 DEF PlanIsTrue, PlannedStatus
    <3>5. Hand(q)'
      BY <1>0, <2>1, <3>2, <3>4
         DEF Hand, InHand, RowsAreTrue, LoopIsTrue, CheckIsTrue, Sweeping
    <3> HIDE DEF rec
    <3> QED BY <2>2, <3>5, HandOfStep
  <2> HIDE DEF rec
  <2> QED BY <2>1, <2>2, HandOfIdle
<1> QED BY <1>1, <1>2, <1>3, <1>4, <1>5 DEF Generates

LEMMA CancelHand ==
  ASSUME HandInv, NEW q \in Request, Cancels(q)
  PROVE  \A p \in Request : Hand(p)'
<1>0. req[q] \in Requests /\ TypeOK /\ Hand(q)
  BY DEF HandInv, TypeOK
<1>1. ASSUME NEW rec, Goes(q, rec), rec.pc \in {"cancel_stops", "cancel_orders"},
             rec.alone => rec.plan \subseteq rec.gen,
             rec.alone /\ rec.pc = "cancel_stops" =>
               /\ rec.todo \subseteq ListedStops(rec.rt)
               /\ \A r : ListedStops(r)' = ListedStops(r)
      PROVE  \A p \in Request : Hand(p)'
  <2>1. req'[q] = rec
    BY <1>0, <1>1, SelfGoes
  <2>2. Hand(q)'
    BY <1>1, <2>1 DEF Hand, InHand, RowsAreTrue, Sweeping, LoopIsTrue, CheckIsTrue, PlanIsTrue
  <2> QED BY <1>1, <2>2, HandOfStep
<1>2. req[q].pc # "idle" /\ req[q].alone => req[q].plan \subseteq req[q].gen
  BY <1>0 DEF Hand, InHand, PlanIsTrue
<1>3. ASSUME NEW r \in Route, CancelRoute(q, r) PROVE \A p \in Request : Hand(p)'
  <2> DEFINE rec == [Idle EXCEPT !.pc = "cancel_stops", !.rt = r, !.todo = ListedStops(r)]
  <2>1. (Goes(q, Idle) \/ Goes(q, rec)) /\ UNCHANGED mission
    BY <1>3 DEF CancelRoute
  <2>2. /\ rec.pc = "cancel_stops" /\ rec.plan = {}
        /\ rec.rt = r /\ rec.todo = ListedStops(r)
    BY DEF Idle
  <2>3. \A r1 : ListedStops(r1)' = ListedStops(r1)
    BY <2>1, ListsKept
  <2> HIDE DEF rec
  <2> QED BY <1>1, <2>1, <2>2, <2>3, HandOfIdle
<1>4. ASSUME NEW o \in Order, CancelStop(q, o) PROVE \A p \in Request : Hand(p)'
  <2> DEFINE rec == [req[q] EXCEPT !.kept = @ \cup {o},
                !.pc = IF req[q].todo = {o} THEN "cancel_orders" ELSE @,
                !.todo = IF req[q].todo = {o} THEN req[q].kept \cup {o} ELSE @ \ {o}]
  <2>1. Goes(q, rec) /\ req[q].pc = "cancel_stops" /\ o \in req[q].todo
    BY <1>4 DEF CancelStop
  <2>2. /\ rec.pc = IF req[q].todo = {o} THEN "cancel_orders" ELSE req[q].pc
        /\ rec.todo = IF req[q].todo = {o} THEN req[q].kept \cup {o} ELSE req[q].todo \ {o}
        /\ rec.rt = req[q].rt
        /\ rec.plan = req[q].plan /\ rec.gen = req[q].gen /\ rec.alone = req[q].alone
    BY <1>0 DEF Requests
  <2> HIDE DEF rec
  <2>3. ASSUME req[q].alone
        PROVE  /\ req[q].todo \subseteq ListedStops(req[q].rt)
               /\ \A r : ListedStops(r)' = ListedStops(r)
    <3>1. req[q].todo \subseteq ListedStops(req[q].rt)
      BY <1>0, <2>1, <2>3 DEF Hand, InHand, LoopIsTrue
    <3>2. ~mission[o].reversed
      BY <2>1, <3>1 DEF ListedStops, Unlisted
    <3> QED BY <1>0, <1>4, <3>1, <3>2, LegibleRewritten, ListsKept DEF CancelStop
  <2> QED BY <1>1, <1>2, <2>1, <2>2, <2>3
<1>5. ASSUME NEW o \in Order, CancelOrder(q, o) PROVE \A p \in Request : Hand(p)'
  <2> DEFINE rec == [req[q] EXCEPT !.todo = @ \ {o}]
  <2>1. (Goes(q, Idle) \/ Goes(q, rec)) /\ req[q].pc = "cancel_orders"
    BY <1>5 DEF CancelOrder
  <2>2. /\ rec.pc = req[q].pc /\ rec.plan = req[q].plan
        /\ rec.gen = req[q].gen /\ rec.alone = req[q].alone
    BY <1>0 DEF Requests
  <2> HIDE DEF rec
  <2> QED BY <1>1, <1>2, <2>1, <2>2, HandOfIdle
<1> QED BY <1>3, <1>4, <1>5 DEF Cancels

LEMMA DeliverHand ==
  ASSUME HandInv, NEW q \in Request, Delivers(q)
  PROVE  \A p \in Request : Hand(p)'
<1>0. req[q] \in Requests /\ TypeOK /\ Hand(q)
  BY DEF HandInv, TypeOK
<1>1. ASSUME NEW o \in Order, Deliver(q, o) PROVE \A p \in Request : Hand(p)'
  <2> DEFINE rec == [Idle EXCEPT !.pc = "deliver_stop", !.at = o, !.rt = mission[o].route,
                                 !.rows = Snapshot({mission[o].route})]
  <2>1. Looks(q, rec) /\ UNCHANGED tables
    BY <1>1 DEF Deliver
  <2>2. req'[q] = rec
    BY <1>0, <2>1, SelfGoes
  <2>3. /\ req'[q].pc = "deliver_stop" /\ req'[q].plan = {} /\ req'[q].at = o
        /\ req'[q].rt = mission[o].route /\ req'[q].rows = Snapshot({mission[o].route})
    BY <2>2 DEF Idle
  <2>4. mission[o].route \in Route /\ ~mission[o].reversed
    BY <1>0, <1>1 DEF Deliver, TypeOK, MissionRow
  <2>5. Snapshot({mission[o].route})[mission[o].route] = route[mission[o].route]
    BY <2>4 DEF Snapshot
  <2>6. Hand(q)'
    BY <2>1, <2>3, <2>4, <2>5
       DEF Hand, InHand, RowsAreTrue, Sweeping, LoopIsTrue, CheckIsTrue, PlanIsTrue, tables
  <2> HIDE DEF rec
  <2> QED BY <2>1, <2>6, HandOfStep
<1>2. ASSUME NEW rec, Goes(q, rec), UNCHANGED route,
             req[q].pc \in {"deliver_stop", "deliver_order"},
             rec.pc \in {"deliver_order", "deliver_route"},
             /\ rec.rt = req[q].rt /\ rec.rows = req[q].rows
             /\ rec.plan = req[q].plan /\ rec.gen = req[q].gen /\ rec.alone = req[q].alone
      PROVE  \A p \in Request : Hand(p)'
  <2>1. req'[q] = rec
    BY <1>0, <1>2, SelfGoes
  <2>2. Hand(q)'
    BY <1>0, <1>2, <2>1
       DEF Hand, InHand, RowsAreTrue, Sweeping, LoopIsTrue, CheckIsTrue, PlanIsTrue
  <2> QED BY <1>2, <2>2, HandOfStep
<1>3. CASE DeliverStop(q)
  <2> DEFINE rec == [req[q] EXCEPT !.pc = "deliver_order"]
  <2>1. Goes(q, rec) /\ req[q].pc = "deliver_stop" /\ UNCHANGED route
    BY <1>3 DEF DeliverStop
  <2>2. /\ rec.pc = "deliver_order" /\ rec.rt = req[q].rt /\ rec.rows = req[q].rows
        /\ rec.plan = req[q].plan /\ rec.gen = req[q].gen /\ rec.alone = req[q].alone
    BY <1>0 DEF Requests
  <2> HIDE DEF rec
  <2> QED BY <1>2, <2>1, <2>2
<1>4. CASE DeliverOrder(q)
  <2> DEFINE rec == [req[q] EXCEPT !.pc = "deliver_route"]
  <2>1. Goes(q, rec) /\ req[q].pc = "deliver_order" /\ UNCHANGED route
    BY <1>4 DEF DeliverOrder
  <2>2. /\ rec.pc = "deliver_route" /\ rec.rt = req[q].rt /\ rec.rows = req[q].rows
        /\ rec.plan = req[q].plan /\ rec.gen = req[q].gen /\ rec.alone = req[q].alone
    BY <1>0 DEF Requests
  <2> HIDE DEF rec
  <2> QED BY <1>2, <2>1, <2>2
<1>5. CASE DeliverRoute(q)
  BY <1>5, HandOfIdle DEF DeliverRoute
<1> QED BY <1>1, <1>3, <1>4, <1>5 DEF Delivers

LEMMA RestHand ==
  ASSUME HandInv,
         \/ UNCHANGED vars \/ Clock
         \/ \E q \in Request : Stop(q) \/ \E o \in Order : WriteFails(q, o)
         \/ \E o \in Order : CompletionFails(o)
         \/ \E r \in Route, status \in Reported : ReportRoute(r, status)
  PROVE  \A p \in Request : Hand(p)'
<1>1. CASE UNCHANGED vars \/ Clock
  BY <1>1, HandKept DEF HandInv, vars, Clock, tables
<1>2. ASSUME NEW q \in Request, Stop(q) PROVE \A p \in Request : Hand(p)'
  BY <1>2, HandOfIdle DEF Stop, Looks, tables
<1>3. ASSUME \/ \E o \in Order : CompletionFails(o)
             \/ \E r \in Route, status \in Reported : ReportRoute(r, status),
             NEW p \in Request
      PROVE  Hand(p)'
  <2>1. req[p] \in Requests /\ p # Nil
    BY NilIsNoRow DEF HandInv, TypeOK
  <2>2. req'[p] = Disturbed(Nil)[p]
    BY <1>3 DEF ReportRoute, CompletionFails, Disturbed
  <2>3. req'[p].pc = "idle" \/ ~req'[p].alone
    BY <2>1, <2>2 DEF Disturbed, Requests
  <2> QED BY <2>3 DEF Hand
<1>4. ASSUME NEW q \in Request, NEW o \in Order, WriteFails(q, o)
      PROVE  \A p \in Request : Hand(p)'
  BY <1>4, HandOfIdle, HandOfSwept DEF WriteFails
<1> QED BY <1>1, <1>2, <1>3, <1>4

LEMMA InitHand == Init => HandInv
<1> SUFFICES ASSUME Init PROVE HandInv
  OBVIOUS
<1>1. \A p \in Request : req[p].pc = "idle"
  BY IdleTyped DEF Init
<1> QED BY <1>1, InitTyped DEF HandInv, Hand

LEMMA NextHand ==
  ASSUME HandInv, [Next]_vars
  PROVE  HandInv'
<1>1. TypeOK'
  BY NextTyped DEF HandInv
<1>2. \A p \in Request : Hand(p)'
  BY SweepHand, GenerateHand, CancelHand, DeliverHand, RestHand DEF Next
<1> QED BY <1>1, <1>2 DEF HandInv

LEMMA AlwaysHand == Spec => []HandInv
<1> QED BY InitHand, NextHand, PTL DEF Spec

-----------------------------------------------------------------------------
(* What follows for requests that nobody steps on, whatever else overlaps   *)

LEMMA AlwaysBoth == Spec => [](HandInv /\ FlowInv)
BY AlwaysHand, AlwaysFlow, PTL

(* The last commit of a report, and the last one of a plan.                 *)
LEMMA LastOfReport ==
  ASSUME TypeOK, [Next]_vars, NEW p \in Request,
         req[p].pc = "deliver_route", req'[p].pc # "deliver_route"
  PROVE  DeliverRoute(p) \/ Stop(p)
<1>1. /\ ~Sweeps(p) /\ ~Generates(p) /\ ~Cancels(p)
      /\ ~\E gen \in SUBSET Order : Begin(p, gen)
      /\ ~\E o \in Order : WriteFails(p, o)
  BY DEF WriteFails, Sweeps, SweepRoute, SweepStop, SweepOrder, SweepClose, SweepEnd, Begin,
         Generates, Check, Solve, PlanRoute, PlanOrder, PlanStop,
         Cancels, CancelRoute, CancelStop, CancelOrder
<1>2. Delivers(p) => DeliverRoute(p)
  BY DEF Delivers, Deliver, DeliverStop, DeliverOrder
<1> QED BY <1>1, <1>2, OnlyItself

LEMMA LastOfPlan ==
  ASSUME TypeOK, [Next]_vars, NEW p \in Request,
         req[p].pc = "plan_stops", req'[p].pc # "plan_stops", stops' = stops
  PROVE  \E o \in Order : /\ PlanStop(p, o)
                          /\ req[p].todo = {o} \/ Unwritable(req[p], o)
<1>0. req[p] \in Requests /\ stops \in Nat
  BY MaxStopsIsNatural DEF TypeOK
<1>1. /\ ~Sweeps(p) /\ ~Delivers(p) /\ ~Cancels(p)
      /\ ~\E gen \in SUBSET Order : Begin(p, gen)
      /\ ~\E o \in Order : WriteFails(p, o)
  BY DEF WriteFails, Sweeps, SweepRoute, SweepStop, SweepOrder, SweepClose, SweepEnd, Begin,
         Delivers, Deliver, DeliverStop, DeliverOrder, DeliverRoute,
         Cancels, CancelRoute, CancelStop, CancelOrder
<1>2. ~Stop(p)
  BY <1>0 DEF Stop
<1>3. PICK o \in Order : PlanStop(p, o)
  <2>1. Generates(p)
    BY <1>1, <1>2, OnlyItself
  <2> QED BY <2>1 DEF Generates, Check, Solve, PlanRoute, PlanOrder
<1>4. ASSUME Goes(p, [req[p] EXCEPT !.todo = @ \ {o}]) PROVE FALSE
  <2>1. req'[p] = [req[p] EXCEPT !.todo = @ \ {o}]
    BY <1>4, SelfGoes
  <2>2. req'[p].pc = req[p].pc
    BY <1>0, <2>1 DEF Requests
  <2> QED BY <2>2
<1> QED BY <1>3, <1>4 DEF PlanStop, Unwritable, Tracked

(* Rows are written back as they were read: a report of a delivery and a    *)
(* sweep take no write of anybody back, unless a commit of another request  *)
(* came between the read and the write.                                     *)
THEOREM AloneNothingIsLost == Spec => LostWritesNeedOverlap
<1>1. ASSUME HandInv, FlowInv, [Next]_vars, NEW p \in Request, req[p].alone
      PROVE  /\ req[p].pc = "deliver_route" /\ req'[p].pc # "deliver_route" => UNCHANGED route
             /\ req[p].pc = "stops" /\ req'[p].pc = "sweep" =>
                  route' = [route EXCEPT ![req[p].rt].status = "cancelled"]
  <2>1. TypeOK /\ req[p] \in Requests /\ Hand(p) /\ Swept(p)
    BY <1>1 DEF HandInv, FlowInv, Flow, TypeOK
  <2>2. ASSUME req[p].pc = "deliver_route", req'[p].pc # "deliver_route"
        PROVE  UNCHANGED route
    <3>1. CASE DeliverRoute(p)
      <4>1. req[p].rt \in Route /\ req[p].rows[req[p].rt] = route[req[p].rt]
        BY <1>1, <2>1, <2>2 DEF Hand, InHand, RowsAreTrue
      <4>2. [route EXCEPT ![req[p].rt] = route[req[p].rt]] = route
        BY <2>1, <4>1 DEF TypeOK
      <4> QED BY <3>1, <4>1, <4>2 DEF DeliverRoute
    <3> QED BY <1>1, <2>1, <2>2, <3>1, LastOfReport DEF Stop, tables
  <2>3. ASSUME req[p].pc = "stops", req'[p].pc = "sweep"
        PROVE  route' = [route EXCEPT ![req[p].rt].status = "cancelled"]
    <3>1. req[p].rt \in req[p].due /\ req[p].rt \in Route
      BY <2>1, <2>3 DEF Swept, Requests
    <3>2. req[p].rows[req[p].rt] = [route[req[p].rt] EXCEPT !.status = "cancelled"]
      BY <1>1, <2>1, <2>3, <3>1 DEF Hand, InHand, RowsAreTrue, Sweeping
    <3>3. SweepClose(p)
      BY <1>1, <2>1, <2>3, Through
    <3> QED BY <3>2, <3>3 DEF SweepClose
  <2> QED BY <2>2, <2>3
<1>2. ASSUME HandInv /\ FlowInv, [Next]_vars
      PROVE  [\A p \in Request : req[p].alone =>
               /\ req[p].pc = "deliver_route" /\ req'[p].pc # "deliver_route" => UNCHANGED route
               /\ req[p].pc = "stops" /\ req'[p].pc = "sweep" =>
                    route' = [route EXCEPT ![req[p].rt].status = "cancelled"]]_vars
  BY <1>1, <1>2
<1> QED BY <1>2, AlwaysBoth, PTL DEF Spec, LostWritesNeedOverlap

(* A generation that nobody steps on and that is not stopped leaves its     *)
(* whole plan behind: route, orders and stops agree.                        *)
THEOREM AlonePlansEndWhole == Spec => PlanEndsWhole
<1>1. ASSUME HandInv, [Next]_vars, NEW p \in Request,
             req[p].alone, req[p].pc = "plan_stops", req'[p].pc = "idle", stops' = stops,
             ~\E o \in req[p].plan : Unwritable(req[p], o)
      PROVE  /\ route'[req[p].rt] = Planned
             /\ \A o \in req[p].plan : order'[o] = "scheduled" /\ mission'[o].status = "scheduled"
             /\ \A o \in req[p].gen \ req[p].plan : order'[o] = "unassigned"
  <2>1. TypeOK /\ req[p] \in Requests /\ PlanIsTrue(req[p])
    BY <1>1 DEF HandInv, Hand, InHand, TypeOK
  <2>2. PICK x \in Order : /\ PlanStop(p, x)
                           /\ req[p].todo = {x} \/ Unwritable(req[p], x)
    BY <1>1, <2>1, LastOfPlan
  <2>3. x \in req[p].todo /\ UNCHANGED <<order, route>>
    BY <2>2 DEF PlanStop
  <2>4. req[p].todo = {x} /\ ~Unwritable(req[p], x)
    BY <1>1, <2>1, <2>2, <2>3 DEF PlanIsTrue
  <2>5. mission'[x].status = "scheduled" /\ \A o \in Order \ {x} : mission'[o] = mission[o]
    <3>1. mission[x] \in MissionRow
      BY <2>1 DEF TypeOK
    <3>2. [mission[x] EXCEPT !.status = "scheduled"].status = "scheduled"
      BY <3>1 DEF MissionRow
    <3> QED BY <2>1, <2>2, <2>4, <3>2 DEF PlanStop, Unwritable, Tracked, TypeOK
  <2>6. req[p].plan \subseteq Order
    BY <2>1 DEF Requests
  <2> QED BY <1>1, <2>1, <2>3, <2>4, <2>5, <2>6 DEF PlanIsTrue, PlannedStatus
<1>2. ASSUME HandInv, [Next]_vars
      PROVE  [\A p \in Request :
               /\ req[p].alone /\ req[p].pc = "plan_stops" /\ req'[p].pc = "idle" /\ stops' = stops
               /\ ~\E o \in req[p].plan : Unwritable(req[p], o)
               => /\ route'[req[p].rt] = Planned
                  /\ \A o \in req[p].plan :
                       order'[o] = "scheduled" /\ mission'[o].status = "scheduled"
                  /\ \A o \in req[p].gen \ req[p].plan : order'[o] = "unassigned"]_vars
  BY <1>1, <1>2
<1> QED BY <1>2, AlwaysHand, PTL DEF Spec, PlanEndsWhole

(* The first stop of an order is on a route as it was planned, and its      *)
(* order is scheduled, unless the generation was stepped on.                *)
THEOREM AloneFirstStopsFit == Spec => FirstStopsFit
<1>1. ASSUME HandInv, FlowInv, [Next]_vars, NEW o \in Order,
             mission[o] = NoMission, mission'[o] # NoMission
      PROVE  \E p \in Request :
               /\ req[p].pc = "plan_stops"
               /\ req[p].alone => order[o] = "scheduled" /\ route[mission'[o].route] = Planned
  <2>1. PICK q \in Request : PlanStop(q, o)
    BY <1>1, TrackedByItsPlan
  <2>2. /\ req[q].pc = "plan_stops" /\ o \in req[q].todo
        /\ mission' = [mission EXCEPT
             ![o] = [status |-> "scheduled", route |-> req[q].rt, reversed |-> FALSE]]
    BY <1>1, <2>1 DEF PlanStop, HandInv, TypeOK
  <2>3. mission'[o].route = req[q].rt
    BY <1>1, <2>2 DEF HandInv, TypeOK
  <2>4. ASSUME req[q].alone PROVE order[o] = "scheduled" /\ route[req[q].rt] = Planned
    <3>1. PlanIsTrue(req[q])
      BY <1>1, <2>2, <2>4 DEF HandInv, Hand, InHand
    <3> QED BY <2>2, <3>1 DEF PlanIsTrue, PlannedStatus
  <2> QED BY <2>2, <2>3, <2>4
<1>2. ASSUME HandInv /\ FlowInv, [Next]_vars
      PROVE  [\A o \in Order : mission[o] = NoMission /\ mission'[o] # NoMission =>
                \E p \in Request :
                  /\ req[p].pc = "plan_stops"
                  /\ req[p].alone =>
                       order[o] = "scheduled" /\ route[mission'[o].route] = Planned]_vars
  BY <1>1, <1>2
<1> QED BY <1>2, AlwaysBoth, PTL DEF Spec, FirstStopsFit

LEMMA RoutesKept ==
  ASSUME TypeOK, [Next]_vars, NEW o \in Order, mission[o] # NoMission
  PROVE  mission'[o].route = mission[o].route
<1>0. mission[o] \in MissionRow
  BY DEF TypeOK
<1>1. ASSUME NEW q \in Request, NEW x \in Order,
             SweepStop(q, x) \/ CancelStop(q, x) \/ PlanStop(q, x) \/ DeliverStop(q)
      PROVE  mission'[o].route = mission[o].route
  <2>1. CASE SweepStop(q, x) \/ CancelStop(q, x) \/ DeliverStop(q)
    BY <2>1, Rewritten DEF SweepStop, CancelStop, DeliverStop
  <2>2. CASE PlanStop(q, x)
    BY <1>0, <2>2 DEF PlanStop, TypeOK, MissionRow
  <2> QED BY <1>1, <2>1, <2>2
<1>2. ASSUME NEW r \in Route, NEW status \in Reported, ReportRoute(r, status)
      PROVE  mission'[o].route = mission[o].route
  BY <1>0, <1>2 DEF ReportRoute, MissionRow
<1>3. CASE UNCHANGED mission
  BY <1>3
<1>4. ASSUME NEW q \in Request
      PROVE  /\ Sweeps(q) => UNCHANGED mission \/ \E x \in Order : SweepStop(q, x)
             /\ Generates(q) => UNCHANGED mission \/ \E x \in Order : PlanStop(q, x)
             /\ Cancels(q) => UNCHANGED mission \/ \E x \in Order : CancelStop(q, x)
             /\ Delivers(q) => UNCHANGED mission \/ DeliverStop(q)
  BY DEF Sweeps, SweepRoute, SweepOrder, SweepClose, SweepEnd, Generates, Check, Solve,
         PlanRoute, PlanOrder, Cancels, CancelRoute, CancelOrder,
         Delivers, Deliver, DeliverOrder, DeliverRoute, tables
<1>5. ASSUME \/ UNCHANGED vars \/ Clock
             \/ \E q \in Request : Stop(q) \/ \E gen \in SUBSET Order : Begin(q, gen)
      PROVE  UNCHANGED mission
  BY <1>5 DEF vars, Clock, Stop, Begin, tables
<1>6. ASSUME NEW q \in Request, NEW x \in Order, WriteFails(q, x) \/ CompletionFails(x)
      PROVE  mission'[o].route = mission[o].route
  BY <1>0, <1>6 DEF WriteFails, CompletionFails, TypeOK, MissionRow
<1> QED BY <1>1, <1>2, <1>3, <1>4, <1>5, <1>6, ReaderIsASlot DEF Next

(* However requests overlap and wherever they are stopped, a stop is never  *)
(* moved to another route: not even by the generation that plans its order  *)
(* again on a new one.                                                      *)
THEOREM StopsArePinned == Spec => StopsKeepTheirRoute
<1>1. ASSUME TypeOK, [Next]_vars
      PROVE  [\A o \in Order :
                mission[o] # NoMission => mission'[o].route = mission[o].route]_vars
  BY <1>1, RoutesKept
<1> QED BY <1>1, GenerationTypeCorrect, PTL DEF Spec, StopsKeepTheirRoute

-----------------------------------------------------------------------------
(* Requests in turn implement RouteRequests: whoever steps is the one that  *)
(* is being served, and the commits it still has to make are not undone     *)

TurnInv == HandInv /\ FlowInv /\ ClosingInv /\ InTurn

LEMMA Serving ==
  ASSUME TypeOK, InTurn, InTurn', NEW q \in Request, NEW rec,
         \/ Goes(q, rec)
         \/ Looks(q, rec) /\ (req[q].pc # "idle" \/ rec.pc # "idle"),
         rec = Idle \/ rec.pc # "idle"
  PROVE  /\ Current = IF req[q].pc = "idle" THEN Idle ELSE req[q]
         /\ Current' = rec
<1>1. req'[q] = rec
  BY SelfGoes
<1>2. ASSUME NEW p \in Request \ {q}, req[p].pc # "idle" PROVE FALSE
  <2>1. req[p] \in Requests
    BY DEF TypeOK
  <2>2. CASE Goes(q, rec)
    <3>1. req'[p] = [req[p] EXCEPT !.alone = FALSE]
      BY <1>2, <2>2 DEF Goes, Disturbed, TypeOK
    <3>2. ~req'[p].alone
      BY <2>1, <3>1 DEF Requests
    <3> QED BY <3>2 DEF InTurn
  <2>3. CASE Looks(q, rec) /\ (req[q].pc # "idle" \/ rec.pc # "idle")
    <3>1. req'[p] = req[p]
      BY <2>3 DEF Looks, TypeOK
    <3> QED BY <1>1, <1>2, <2>3, <3>1 DEF InTurn
  <2> QED BY <2>2, <2>3
<1>3. ASSUME NEW p \in Request \ {q} PROVE req'[p].pc = "idle"
  BY <1>2, <1>3, OthersStay
<1>4. Busy = IF req[q].pc = "idle" THEN {} ELSE {q}
  BY <1>2 DEF Busy
<1>5. Busy' = IF rec.pc = "idle" THEN {} ELSE {q}
  BY <1>1, <1>3 DEF Busy
<1>6. Current = IF req[q].pc = "idle" THEN Idle ELSE req[q]
  BY <1>4 DEF Current
<1>7. Current' = IF rec.pc = "idle" THEN Idle ELSE rec
  BY <1>1, <1>5 DEF Current
<1> QED BY <1>6, <1>7, IdleTyped

(* With no commit to make, the tables are what they come to.                *)
Resting == {"idle", "check", "solve", "plan_route", "deliver_route"}

LEMMA AtRest ==
  TypeOK /\ Current.pc \in Resting =>
    wholeOrder = order /\ wholeMission = mission /\ wholeRoute = route
BY DEF Resting, wholeOrder, wholeMission, wholeRoute, OrderOnceDone, MissionOnceDone,
       RouteOnceDone, OrdersToFree, OrdersToPlan, StopsToCancel, StopsToPlan, Sweeping, TypeOK

LEMMA AtRestAfter ==
  (TypeOK /\ Current.pc \in Resting =>
    wholeOrder = order /\ wholeMission = mission /\ wholeRoute = route)'
BY AtRest, PTL

(* A step that does nothing but what was due is no step of RouteRequests.   *)
LEMMA AsDue ==
  ASSUME \A o \in Order : OrderOnceDone(Current, o)' = OrderOnceDone(Current, o),
         \A o \in Order : MissionOnceDone(Current, o)' = MissionOnceDone(Current, o),
         \A r \in Route : RouteOnceDone(Current, r)' = RouteOnceDone(Current, r)
  PROVE  UNCHANGED <<wholeOrder, wholeMission, wholeRoute>>
BY DEF wholeOrder, wholeMission, wholeRoute

OwedVars == <<wholeOrder, wholeMission, wholeRoute>>

(* What a sweep is bound to write, from one of its steps to the next.       *)
LEMMA SweepOwes ==
  ASSUME Sweeping(Current), (Sweeping(Current))',
         \A r : ListedStops(r)' = ListedStops(r), (Current.due)' = Current.due
  PROVE  /\ DueStops(Current)' = DueStops(Current)
         /\ OrdersToFree(Current) = DueStops(Current)
         /\ OrdersToFree(Current)' = DueStops(Current)
         /\ OrdersToPlan(Current) = {} /\ OrdersToPlan(Current)' = {}
         /\ StopsToPlan(Current) = {} /\ StopsToPlan(Current)' = {}
         /\ Current.pc \notin {"deliver_stop", "deliver_order"}
         /\ (Current.pc \notin {"deliver_stop", "deliver_order"})'
<1>1. DueStops(Current)' = DueStops(Current)
  BY DEF DueStops
<1> QED BY <1>1 DEF OrdersToFree, OrdersToPlan, StopsToPlan, Sweeping

LEMMA SweepServed ==
  ASSUME TurnInv, InTurn', NEW q \in Request, Sweeps(q)
  PROVE  UNCHANGED OwedVars
<1>0. /\ TypeOK /\ req[q] \in Requests /\ InTurn /\ req[q].alone
      /\ Hand(q) /\ Closing(q) /\ Swept(q)
  BY DEF TurnInv, HandInv, FlowInv, Flow, ClosingInv, TypeOK, InTurn
<1>1. ASSUME NEW r \in Route, SweepRoute(q, r) PROVE UNCHANGED OwedVars
  <2> DEFINE rec == [req[q] EXCEPT !.pc = "stops", !.rt = r, !.todo = ListedStops(r),
                       !.kept = {o \in ListedStops(r) : mission[o].status = "delivered"}]
  <2>1. Looks(q, rec) /\ req[q].pc = "sweep" /\ UNCHANGED <<order, mission, route>>
    BY <1>1 DEF SweepRoute, tables
  <2>2. rec.pc = "stops" /\ rec.due = req[q].due
    BY <1>0 DEF Requests
  <2> HIDE DEF rec
  <2>3. Current = req[q] /\ Current' = rec
    BY <1>0, <2>1, <2>2, Serving
  <2>4. \A r1 : ListedStops(r1)' = ListedStops(r1)
    BY <2>1, ListsKept
  <2>5. Sweeping(Current) /\ (Sweeping(Current))' /\ (Current.due)' = Current.due
    BY <2>1, <2>2, <2>3 DEF Sweeping
  <2>6. /\ \A o \in Order : OrderOnceDone(Current, o)' = OrderOnceDone(Current, o)
        /\ \A o \in Order : MissionOnceDone(Current, o)' = MissionOnceDone(Current, o)
        /\ \A r1 \in Route : RouteOnceDone(Current, r1)' = RouteOnceDone(Current, r1)
    BY <2>1, <2>4, <2>5, SweepOwes
       DEF OrderOnceDone, MissionOnceDone, RouteOnceDone, StopsToCancel
  <2> QED BY <2>6, AsDue DEF OwedVars
<1>2. ASSUME NEW o \in Order, SweepStop(q, o) PROVE UNCHANGED OwedVars
  <2> DEFINE rec == [req[q] EXCEPT !.pc = "stop_order", !.at = o, !.todo = @ \ {o}]
  <2>1. /\ Goes(q, rec) /\ req[q].pc = "stops" /\ o \in req[q].todo
        /\ UNCHANGED <<order, route>>
    BY <1>2 DEF SweepStop
  <2>2. rec.pc = "stop_order" /\ rec.due = req[q].due
    BY <1>0 DEF Requests
  <2> HIDE DEF rec
  <2>3. Current = req[q] /\ Current' = rec
    BY <1>0, <2>1, <2>2, Serving
  <2>4. /\ o \in ListedStops(req[q].rt) /\ o \in DueStops(req[q])
        /\ o \in req[q].kept <=> mission[o].status = "delivered"
        /\ ~mission[o].reversed
    BY <1>0, <2>1 DEF Swept, Hand, InHand, LoopIsTrue, DueStops, ListedStops, Unlisted
  <2>5. /\ \A x \in Order \ {o} : mission'[x] = mission[x]
        /\ mission'[o] = IF o \in req[q].kept THEN mission[o]
                         ELSE [mission[o] EXCEPT !.status = "cancelled"]
    BY <1>0, <1>2, <2>4, LegibleRewritten DEF SweepStop
  <2>6. /\ mission'[o].route = mission[o].route /\ mission'[o].reversed = mission[o].reversed
        /\ o \notin req[q].kept => mission'[o].status = "cancelled"
        /\ [mission'[o] EXCEPT !.status = "cancelled"] = [mission[o] EXCEPT !.status = "cancelled"]
    BY <1>0, <2>5 DEF TypeOK, MissionRow
  <2>7. \A r : ListedStops(r)' = ListedStops(r)
    <3>1. \A x \in Order : /\ mission'[x].route = mission[x].route
                          /\ mission'[x].reversed = mission[x].reversed
      BY <2>5, <2>6
    <3> QED BY <3>1, ListsKept
  <2>8. Sweeping(Current) /\ (Sweeping(Current))' /\ (Current.due)' = Current.due
    BY <2>1, <2>2, <2>3 DEF Sweeping
  <2>9. /\ \A x \in Order : OrderOnceDone(Current, x)' = OrderOnceDone(Current, x)
        /\ \A r \in Route : RouteOnceDone(Current, r)' = RouteOnceDone(Current, r)
    BY <2>1, <2>7, <2>8, SweepOwes DEF OrderOnceDone, RouteOnceDone
  <2>10. ASSUME NEW x \in Order
         PROVE  MissionOnceDone(Current, x)' = MissionOnceDone(Current, x)
    <3>1. CASE x # o
      BY <2>5, <2>7, <2>8, <3>1, SweepOwes DEF MissionOnceDone, StopsToCancel
    <3>2. CASE x = o
      BY <2>3, <2>4, <2>5, <2>6, <2>7, <2>8, <3>2, SweepOwes
         DEF MissionOnceDone, StopsToCancel
    <3> QED BY <3>1, <3>2
  <2> QED BY <2>9, <2>10, AsDue DEF OwedVars
<1>3. CASE SweepOrder(q)
  <2> DEFINE rec == [req[q] EXCEPT !.pc = "stops", !.at = Nil]
  <2>1. /\ Goes(q, rec) /\ req[q].pc = "stop_order" /\ UNCHANGED <<mission, route>>
    BY <1>3 DEF SweepOrder
  <2>2. rec.pc = "stops" /\ rec.due = req[q].due
    BY <1>0 DEF Requests
  <2> HIDE DEF rec
  <2>3. Current = req[q] /\ Current' = rec
    BY <1>0, <2>1, <2>2, Serving
  <2>4. /\ req[q].at \in DueStops(req[q])
        /\ \A o \in Order \ {req[q].at} : order'[o] = order[o]
    BY <1>0, <1>3, <2>1 DEF Swept, Hand, InHand, LoopIsTrue, DueStops, SweepOrder, TypeOK
  <2>5. \A r : ListedStops(r)' = ListedStops(r)
    BY <2>1, ListsKept
  <2>6. Sweeping(Current) /\ (Sweeping(Current))' /\ (Current.due)' = Current.due
    BY <2>1, <2>2, <2>3 DEF Sweeping
  <2>7. /\ \A o \in Order : OrderOnceDone(Current, o)' = OrderOnceDone(Current, o)
        /\ \A o \in Order : MissionOnceDone(Current, o)' = MissionOnceDone(Current, o)
        /\ \A r \in Route : RouteOnceDone(Current, r)' = RouteOnceDone(Current, r)
    BY <2>1, <2>3, <2>4, <2>5, <2>6, SweepOwes
       DEF OrderOnceDone, MissionOnceDone, RouteOnceDone, StopsToCancel
  <2> QED BY <2>7, AsDue DEF OwedVars
<1>4. CASE SweepClose(q)
  <2> DEFINE rec == [req[q] EXCEPT !.pc = "sweep", !.rt = Nil, !.due = @ \ {req[q].rt},
                       !.rows[req[q].rt] = NoRoute, !.kept = {}]
  <2>1. /\ Goes(q, rec) /\ req[q].pc = "stops" /\ req[q].todo = {}
        /\ UNCHANGED <<order, mission>>
    BY <1>4 DEF SweepClose
  <2>2. rec.pc = "sweep" /\ rec.due = req[q].due \ {req[q].rt}
    BY <1>0 DEF Requests
  <2> HIDE DEF rec
  <2>3. Current = req[q] /\ Current' = rec
    BY <1>0, <2>1, <2>2, Serving
  <2>4. req[q].rt \in req[q].due /\ req[q].rt \in Route
    BY <1>0, <2>1 DEF Swept, Requests
  <2>5. \A r \in Route : route'[r] = IF r = req[q].rt
                                     THEN [route[r] EXCEPT !.status = "cancelled"] ELSE route[r]
    BY <1>0, <1>4, <2>1, <2>4
       DEF SweepClose, Hand, InHand, RowsAreTrue, Sweeping, TypeOK
  <2>6. \A o \in ListedStops(req[q].rt) :
          mission[o].status \in {"cancelled", "delivered"} /\ order[o] = "unassigned"
    BY <1>0, <2>1 DEF Closing, SweptSoFar, ListedStops
  <2>7. \A o \in Order : mission[o].status = "cancelled" =>
          [mission[o] EXCEPT !.status = "cancelled"] = mission[o]
    BY <1>0 DEF TypeOK, MissionRow
  <2>8. DueStops(Current) = DueStops(Current)' \cup ListedStops(req[q].rt)
    <3>1. \A r : ListedStops(r)' = ListedStops(r)
      BY <2>1, ListsKept
    <3> QED BY <2>2, <2>3, <2>4, <3>1 DEF DueStops
  <2>9. /\ OrdersToFree(Current) = DueStops(Current)
        /\ OrdersToFree(Current)' = DueStops(Current)'
        /\ OrdersToPlan(Current) = {} /\ OrdersToPlan(Current)' = {}
        /\ StopsToPlan(Current) = {} /\ StopsToPlan(Current)' = {}
        /\ Sweeping(Current) /\ (Sweeping(Current))'
        /\ Current.pc \notin {"deliver_stop", "deliver_order"}
        /\ (Current.pc \notin {"deliver_stop", "deliver_order"})'
    BY <2>1, <2>2, <2>3 DEF OrdersToFree, OrdersToPlan, StopsToPlan, Sweeping
  <2>10. /\ \A o \in Order : OrderOnceDone(Current, o)' = OrderOnceDone(Current, o)
         /\ \A r \in Route : RouteOnceDone(Current, r)' = RouteOnceDone(Current, r)
    BY <2>1, <2>2, <2>3, <2>4, <2>5, <2>6, <2>8, <2>9 DEF OrderOnceDone, RouteOnceDone
  <2>11. \A o \in Order : MissionOnceDone(Current, o)' = MissionOnceDone(Current, o)
    BY <2>1, <2>3, <2>6, <2>7, <2>8, <2>9 DEF MissionOnceDone, StopsToCancel
  <2> QED BY <2>10, <2>11, AsDue DEF OwedVars
<1>5. CASE SweepEnd(q)
  <2> DEFINE rec == AfterSweep(q)
  <2>1. /\ Looks(q, rec) /\ req[q].pc = "sweep" /\ req[q].due = {}
        /\ UNCHANGED <<order, mission, route>>
    BY <1>5 DEF SweepEnd, tables
  <2>2. rec = Idle \/ rec.pc = "check"
    BY DEF AfterSweep, Idle
  <2> HIDE DEF rec
  <2>3. Current = req[q] /\ Current' = rec
    BY <1>0, <2>1, <2>2, Serving
  <2>4. /\ \A o \in Order : OrderOnceDone(Current, o)' = OrderOnceDone(Current, o)
        /\ \A o \in Order : MissionOnceDone(Current, o)' = MissionOnceDone(Current, o)
        /\ \A r \in Route : RouteOnceDone(Current, r)' = RouteOnceDone(Current, r)
    BY <2>1, <2>2, <2>3, IdleTyped
       DEF OrderOnceDone, MissionOnceDone, RouteOnceDone, OrdersToFree, OrdersToPlan,
           StopsToCancel, StopsToPlan, Sweeping, DueStops
  <2> QED BY <2>4, AsDue DEF OwedVars
<1> QED BY <1>1, <1>2, <1>3, <1>4, <1>5 DEF Sweeps

(* A read or a generation begins: its sweep is bound to close what it found. *)
LEMMA BeginServed ==
  ASSUME TurnInv, InTurn', NEW q \in Request, NEW gen \in SUBSET Order, Begin(q, gen)
  PROVE  Whole!Sweep
<1>0. TypeOK /\ TypeOK' /\ InTurn
  <2>1. Next
    BY DEF Next
  <2> QED BY <2>1, NextTyped DEF TurnInv, HandInv
<1> DEFINE rec == [Idle EXCEPT !.pc = "sweep", !.gen = gen, !.due = Overdue,
                               !.rows = Cancelled(Overdue)]
<1>1. /\ Looks(q, rec) /\ req[q].pc = "idle" /\ UNCHANGED late
      /\ UNCHANGED <<order, mission, route>>
  BY DEF Begin, tables
<1>2. rec.pc = "sweep" /\ rec.due = Overdue
  BY DEF Idle
<1> HIDE DEF rec
<1>3. Current = Idle /\ Current' = rec
  BY <1>0, <1>1, <1>2, Serving
<1>4. wholeOrder = order /\ wholeMission = mission /\ wholeRoute = route
  BY <1>0, <1>3, AtRest, IdleTyped DEF Resting
<1>5. Whole!Overdue = Overdue
  BY <1>4 DEF Whole!Overdue, Whole!Listed, Whole!Readable, Overdue, PastShift, Closed,
              Listed, Readable
<1>6. \A r : ListedStops(r)' = ListedStops(r)
  BY <1>1, ListsKept
<1>7. DueStops(Current)' = Whole!SweptStops
  <2>1. \A r : Whole!ListedStops(r) = ListedStops(r)
    BY <1>4 DEF Whole!ListedStops, Whole!StopsOn, ListedStops, Unlisted, StopsOn
  <2> QED BY <1>2, <1>3, <1>5, <1>6, <2>1 DEF DueStops, Whole!SweptStops
<1>8. /\ Sweeping(Current)' /\ OrdersToFree(Current)' = DueStops(Current)'
      /\ OrdersToPlan(Current)' = {} /\ StopsToPlan(Current)' = {}
      /\ StopsToCancel(Current)' =
           {o \in Whole!SweptStops : mission[o].status # "delivered"}
      /\ (Current.pc \notin {"deliver_stop", "deliver_order"})'
  BY <1>1, <1>2, <1>3, <1>7
     DEF OrdersToFree, OrdersToPlan, StopsToPlan, StopsToCancel, Sweeping
<1>9. wholeOrder' = [o \in Order |-> IF o \in Whole!SweptStops THEN "unassigned" ELSE order[o]]
  BY <1>1, <1>7, <1>8 DEF wholeOrder, OrderOnceDone
<1>10. wholeMission' = [o \in Order |->
         IF o \in Whole!SweptStops /\ mission[o].status # "delivered"
         THEN [mission[o] EXCEPT !.status = "cancelled"] ELSE mission[o]]
  BY <1>1, <1>8 DEF wholeMission, MissionOnceDone
<1>11. wholeRoute' = [r \in Route |->
         IF r \in Overdue THEN [route[r] EXCEPT !.status = "cancelled"] ELSE route[r]]
  BY <1>1, <1>2, <1>3, <1>8 DEF wholeRoute, RouteOnceDone
<1> QED BY <1>1, <1>4, <1>5, <1>9, <1>10, <1>11 DEF Whole!Sweep

(* A generation waits, and writes its plan.                                 *)
LEMMA PlanServed ==
  ASSUME TurnInv, InTurn', NEW q \in Request,
         Check(q) \/ Solve(q) \/ \E r \in Route : PlanRoute(q, r)
  PROVE  Whole!Next \/ UNCHANGED OwedVars
<1>0. /\ TypeOK /\ req[q] \in Requests /\ InTurn /\ req[q].alone /\ Hand(q) /\ TypeOK'
  <2>1. Next
    BY DEF Next, Generates
  <2> QED BY <2>1, NextTyped DEF TurnInv, HandInv, TypeOK, InTurn
<1>1. CASE Check(q)
  <2>1. PICK rec : /\ Looks(q, rec) /\ req[q].pc = "check" /\ UNCHANGED <<order, mission, route>>
                   /\ rec = Idle \/ rec.pc = "solve"
    <3>1. \A r : [req[q] EXCEPT !.pc = "solve", !.rt = r, !.fresh = (r = Nil)].pc = "solve"
      BY <1>0 DEF Requests
    <3> QED BY <1>1, <3>1 DEF Check, tables
  <2>2. Current = req[q] /\ Current' = rec
    BY <1>0, <2>1, Serving
  <2>3. Current.pc \in Resting /\ Current'.pc \in Resting
    BY <2>1, <2>2, IdleTyped DEF Resting
  <2> QED BY <1>0, <2>1, <2>3, AtRest, AtRestAfter DEF OwedVars, Resting
<1>2. CASE Solve(q)
  <2>1. /\ req[q].pc = "solve" /\ UNCHANGED <<order, mission, route, late>>
        /\ req[q].plan = {} /\ ~Refused(Known, req[q].gen) /\ req[q].gen \subseteq Order
    BY <1>0, <1>2 DEF Solve, tables, Hand, InHand, CheckIsTrue, PlanIsTrue, Requests
  <2>2. ASSUME NEW rec, Looks(q, rec), rec = Idle \/ rec.pc = "plan_route"
        PROVE  UNCHANGED OwedVars
    <3>1. Current = req[q] /\ Current' = rec
      BY <1>0, <2>1, <2>2, Serving
    <3>2. Current.pc \in Resting /\ Current'.pc \in Resting
      BY <2>1, <2>2, <3>1, IdleTyped DEF Resting
    <3> QED BY <1>0, <2>1, <3>2, AtRest, AtRestAfter DEF OwedVars, Resting
  <2>3. ASSUME Looks(q, [req[q] EXCEPT !.pc = "plan_orders", !.rt = Nil, !.todo = req[q].gen])
        PROVE  Whole!GenerateNothing(req[q].gen)
    <3> DEFINE rec == [req[q] EXCEPT !.pc = "plan_orders", !.rt = Nil, !.todo = req[q].gen]
    <3>1. rec.pc = "plan_orders" /\ rec.todo = req[q].gen /\ rec.plan = {}
      BY <1>0, <2>1 DEF Requests
    <3>2. Looks(q, rec)
      BY <2>3
    <3> HIDE DEF rec
    <3>3. Current = req[q] /\ Current' = rec
      BY <1>0, <2>1, <3>1, <3>2, Serving
    <3>4. wholeOrder = order /\ wholeMission = mission /\ wholeRoute = route
      BY <1>0, <2>1, <3>3, AtRest DEF Resting
    <3>5. Whole!MayPlan(req[q].gen)
      BY <2>1, <3>4
         DEF Whole!MayPlan, Whole!Known, Whole!Listed, Whole!Readable, Refused, Known, Listed,
             Readable, Active
    <3>6. wholeOrder' = [o \in Order |-> IF o \in req[q].gen THEN "unassigned" ELSE order[o]]
      BY <2>1, <3>1, <3>3 DEF wholeOrder, OrderOnceDone, OrdersToFree, OrdersToPlan, Sweeping
    <3>7. wholeMission' = mission /\ wholeRoute' = route
      BY <1>0, <2>1, <3>1, <3>3
         DEF wholeMission, MissionOnceDone, StopsToCancel, StopsToPlan, Sweeping,
             wholeRoute, RouteOnceDone, TypeOK
    <3> QED BY <2>1, <3>4, <3>5, <3>6, <3>7 DEF Whole!GenerateNothing
  <2>4. ASSUME NEW plan \in (SUBSET req[q].gen) \ {{}},
               Looks(q, [req[q] EXCEPT !.pc = "plan_route", !.plan = plan])
        PROVE  UNCHANGED OwedVars
    <3>1. [req[q] EXCEPT !.pc = "plan_route", !.plan = plan].pc = "plan_route"
      BY <1>0 DEF Requests
    <3> QED BY <2>2, <2>4, <3>1
  <2> QED BY <1>2, <2>1, <2>2, <2>3, <2>4 DEF Solve, Whole!Next
<1>3. ASSUME NEW r \in Route, PlanRoute(q, r)
      PROVE  Whole!Generate(req[q].gen, req[q].plan, r)
  <2> DEFINE rec == [req[q] EXCEPT !.pc = "plan_orders", !.rt = r, !.todo = req[q].gen]
             gen == req[q].gen
             plan == req[q].plan
  <2>1. /\ Goes(q, rec) /\ req[q].pc = "plan_route" /\ UNCHANGED <<order, mission, late>>
        /\ route' = [route EXCEPT ![r] = Planned]
        /\ IF req[q].fresh THEN route[r] = NoRoute ELSE r = req[q].rt
    BY <1>3 DEF PlanRoute
  <2>2. /\ ~Refused(Known, gen)
        /\ req[q].fresh <=> Scheduled = {}
        /\ ~req[q].fresh => req[q].rt \in Scheduled
        /\ plan \subseteq gen
    BY <1>0, <2>1 DEF Hand, InHand, CheckIsTrue, PlanIsTrue
  <2>3. /\ rec.pc = "plan_orders" /\ rec.todo = gen /\ rec.plan = plan
        /\ rec.rt = r /\ rec.fresh = req[q].fresh
    BY <1>0 DEF Requests
  <2> HIDE DEF rec, gen, plan
  <2>4. Current = req[q] /\ Current' = rec
    BY <1>0, <2>1, <2>3, Serving
  <2>5. wholeOrder = order /\ wholeMission = mission /\ wholeRoute = route
    BY <1>0, <2>1, <2>4, AtRest DEF Resting
  <2>6. /\ Whole!MayPlan(gen) /\ Whole!Scheduled = Scheduled
        /\ Whole!Tracked = Tracked /\ Whole!Planned = Planned /\ Whole!NoRoute = NoRoute
    BY <2>2, <2>5
       DEF Whole!MayPlan, Whole!Known, Whole!Scheduled, Whole!Listed, Whole!Readable,
           Whole!Tracked, Whole!NoMission, Whole!Planned, Whole!NoRoute, Refused, Known,
           Scheduled, Listed, Readable, Active, Tracked, NoMission, Planned, NoRoute
  <2>7. wholeRoute' = [route EXCEPT ![r] = Planned]
    <3>1. wholeRoute' = route'
      BY <1>0, <2>3, <2>4 DEF wholeRoute, RouteOnceDone, Sweeping, TypeOK
    <3> QED BY <2>1, <3>1
  <2>8. wholeOrder' = [o \in Order |-> IF o \in plan THEN "scheduled"
                                       ELSE IF o \in gen THEN "unassigned" ELSE order[o]]
    BY <2>1, <2>2, <2>3, <2>4 DEF wholeOrder, OrderOnceDone, OrdersToFree, OrdersToPlan, Sweeping
  <2>9. wholeMission' = [o \in Order |->
           IF o \notin plan \/ (\E x \in plan : Whole!Unwritable(x)) THEN mission[o]
           ELSE IF o \in Tracked THEN [mission[o] EXCEPT !.status = "scheduled"]
           ELSE [status |-> "scheduled", route |-> r, reversed |-> FALSE]]
    <3>1. Tracked' = Tracked
      BY <2>1 DEF Tracked
    <3>2. \A x \in plan : Unwritable(Current, x)' <=> Whole!Unwritable(x)
      BY <2>1, <2>2, <2>3, <2>4, <2>5, <2>6, <3>1 DEF Unwritable, Whole!Unwritable
    <3>3. /\ StopsToPlan(Current)' = IF \E x \in plan : Whole!Unwritable(x) THEN {} ELSE plan
          /\ StopsToCancel(Current)' = {}
      BY <2>3, <2>4, <3>2 DEF StopsToPlan, StopsToCancel, Sweeping
    <3>4. \A o \in Order : MissionOnceDone(Current, o)' =
            IF o \notin plan \/ (\E x \in plan : Whole!Unwritable(x)) THEN mission[o]
            ELSE IF o \in Tracked THEN [mission[o] EXCEPT !.status = "scheduled"]
            ELSE [status |-> "scheduled", route |-> r, reversed |-> FALSE]
      BY <2>1, <2>3, <2>4, <3>1, <3>3 DEF MissionOnceDone
    <3> QED BY <3>4 DEF wholeMission
  <2>10. IF Scheduled = {} THEN route[r] = NoRoute ELSE r \in Scheduled
    BY <2>1, <2>2
  <2>11. Whole!Generate(gen, plan, r)
    BY <2>1, <2>5, <2>6, <2>7, <2>8, <2>9, <2>10 DEF Whole!Generate
  <2> QED BY <2>11 DEF gen, plan
<1>4. ASSUME NEW r \in Route, PlanRoute(q, r) PROVE Whole!Next
  <2>1. req[q].gen \in SUBSET Order /\ req[q].plan \in (SUBSET req[q].gen) \ {{}}
    BY <1>0, <1>4 DEF PlanRoute, Hand, InHand, PlanIsTrue, Requests
  <2> QED BY <1>3, <1>4, <2>1 DEF Whole!Next
<1> QED BY <1>1, <1>2, <1>4

LEMMA PlanOrderServed ==
  ASSUME TurnInv, InTurn', NEW q \in Request, NEW o \in Order, PlanOrder(q, o)
  PROVE  UNCHANGED OwedVars
<1>0. TypeOK /\ req[q] \in Requests /\ InTurn /\ req[q].alone /\ Hand(q)
  BY DEF TurnInv, HandInv, TypeOK, InTurn
<1> DEFINE on == [req[q] EXCEPT !.todo = @ \ {o}]
           after == [req[q] EXCEPT !.pc = "plan_stops", !.todo = req[q].plan]
           rec == IF req[q].todo # {o} THEN on ELSE IF req[q].plan = {} THEN Idle ELSE after
<1>1. /\ Goes(q, rec) /\ req[q].pc = "plan_orders" /\ o \in req[q].todo
      /\ UNCHANGED <<mission, route>>
      /\ order' = [order EXCEPT ![o] = IF o \in req[q].plan THEN "scheduled" ELSE "unassigned"]
  BY DEF PlanOrder
<1>2. /\ on.pc = "plan_orders" /\ on.todo = req[q].todo \ {o} /\ on.plan = req[q].plan
      /\ on.rt = req[q].rt /\ on.fresh = req[q].fresh
      /\ after.pc = "plan_stops" /\ after.todo = req[q].plan /\ after.plan = req[q].plan
      /\ after.rt = req[q].rt /\ after.fresh = req[q].fresh
  BY <1>0, <1>1 DEF Requests
<1>3. rec = Idle \/ rec.pc # "idle"
  BY <1>2
<1>4. Current = req[q] /\ Current' = rec
  <2> HIDE DEF rec
  <2> QED BY <1>0, <1>1, <1>3, Serving
<1>5. Tracked' = Tracked
  BY <1>1 DEF Tracked
<1> HIDE DEF on, after
<1>6. ASSUME NEW x \in Order PROVE OrderOnceDone(Current, x)' = OrderOnceDone(Current, x)
  <2>1. order'[x] = IF x # o THEN order[x]
                    ELSE IF o \in req[q].plan THEN "scheduled" ELSE "unassigned"
    BY <1>0, <1>1 DEF TypeOK
  <2> QED BY <1>1, <1>2, <1>4, <2>1, IdleTyped
             DEF OrderOnceDone, OrdersToFree, OrdersToPlan, Sweeping
<1>7. StopsToPlan(Current)' = StopsToPlan(Current)
  <2>1. CASE rec = Idle /\ req[q].plan = {}
    BY <1>1, <1>4, <2>1, IdleTyped DEF StopsToPlan
  <2>2. CASE rec \in {on, after}
    <3>1. (Current.plan)' = Current.plan /\ (Current.fresh)' = Current.fresh
      BY <1>2, <1>4, <2>2
    <3>2. \A x : Unwritable(Current, x)' <=> Unwritable(Current, x)
      BY <1>1, <1>5, <3>1 DEF Unwritable
    <3>3. /\ Current.pc = "plan_orders"
          /\ \/ (Current.pc = "plan_orders")'
             \/ (Current.pc = "plan_stops")' /\ (Current.todo)' = Current.plan
      BY <1>1, <1>2, <1>4, <2>2
    <3> QED BY <3>1, <3>2, <3>3 DEF StopsToPlan
  <2> QED BY <2>1, <2>2
<1>8. /\ \A x \in Order : MissionOnceDone(Current, x)' = MissionOnceDone(Current, x)
      /\ \A r \in Route : RouteOnceDone(Current, r)' = RouteOnceDone(Current, r)
  <2>1. StopsToPlan(Current) = {} \/ (Current.rt)' = Current.rt
    BY <1>1, <1>2, <1>4, IdleTyped DEF StopsToPlan
  <2>2. /\ ~Sweeping(Current) /\ StopsToCancel(Current) = {} /\ Current.pc # "deliver_stop"
        /\ (~Sweeping(Current) /\ StopsToCancel(Current) = {} /\ Current.pc # "deliver_stop")'
    BY <1>1, <1>2, <1>4, IdleTyped DEF StopsToCancel, Sweeping
  <2> QED BY <1>1, <1>5, <1>7, <2>1, <2>2 DEF MissionOnceDone, RouteOnceDone
<1> QED BY <1>6, <1>8, AsDue DEF OwedVars

(* A plan that has a stop to insert that cannot be is the one whose stops   *)
(* are commits of their own.                                                *)
LEMMA PlanStopServed ==
  ASSUME TurnInv, InTurn', NEW q \in Request, NEW o \in Order, PlanStop(q, o)
  PROVE  \/ Whole!PlanStopAgain(o)
         \/ \E r \in Route : Whole!PlanFirstStop(o, r)
         \/ UNCHANGED OwedVars
<1>0. TypeOK /\ req[q] \in Requests /\ InTurn /\ req[q].alone /\ PlanIsTrue(req[q])
  BY DEF TurnInv, HandInv, TypeOK, InTurn, Hand, InHand, PlanStop
<1> DEFINE on == [req[q] EXCEPT !.todo = @ \ {o}]
           ends == req[q].todo = {o} \/ Unwritable(req[q], o)
           rec == IF ends THEN Idle ELSE on
           doomed == \E x \in req[q].plan : Unwritable(req[q], x)
<1>1. /\ Goes(q, rec) /\ req[q].pc = "plan_stops" /\ o \in req[q].todo /\ o \in req[q].plan
      /\ UNCHANGED <<order, route, late>>
  BY <1>0 DEF PlanStop, PlanIsTrue, Unwritable, Tracked
<1>2. /\ on.pc = "plan_stops" /\ on.todo = req[q].todo \ {o} /\ on.plan = req[q].plan
      /\ on.rt = req[q].rt /\ on.fresh = req[q].fresh
  BY <1>0, <1>1 DEF Requests
<1>3. rec = Idle \/ rec.pc # "idle"
  BY <1>2
<1>4. Current = req[q] /\ Current' = rec
  <2> HIDE DEF rec
  <2> QED BY <1>0, <1>1, <1>3, Serving
<1>5. /\ \A x \in Order \ {o} : mission'[x] = mission[x]
      /\ mission'[o] = IF Unwritable(req[q], o) THEN mission[o]
                       ELSE IF o \in Tracked THEN [mission[o] EXCEPT !.status = "scheduled"]
                       ELSE [status |-> "scheduled", route |-> req[q].rt, reversed |-> FALSE]
  BY <1>0 DEF PlanStop, Unwritable, Tracked, TypeOK
<1>6. ~Unwritable(req[q], o) => mission'[o] # NoMission /\ ~mission'[o].reversed
  <2>1. mission[o] \in MissionRow
    BY <1>0 DEF TypeOK
  <2> QED BY <1>5, <2>1 DEF MissionRow, NoMission, Unwritable
<1>7. /\ \A x \in Order : OrderOnceDone(Current, x)' = OrderOnceDone(Current, x)
      /\ \A r \in Route : RouteOnceDone(Current, r)' = RouteOnceDone(Current, r)
  BY <1>1, <1>2, <1>4, IdleTyped
     DEF OrderOnceDone, RouteOnceDone, OrdersToFree, OrdersToPlan, Sweeping
<1>8. \A x \in Order \ {o} : x \in Tracked' <=> x \in Tracked
  BY <1>5 DEF Tracked
<1>9. req[q].plan \subseteq Order
  BY <1>0 DEF Requests
<1>10. /\ ~Sweeping(Current) /\ StopsToCancel(Current) = {} /\ Current.pc # "deliver_stop"
       /\ (~Sweeping(Current) /\ StopsToCancel(Current) = {} /\ Current.pc # "deliver_stop")'
  BY <1>1, <1>2, <1>4, IdleTyped DEF StopsToCancel, Sweeping
<1> HIDE DEF on
(* Whether another stop can be written does not depend on this one.         *)
<1>11. ASSUME Current' = on
       PROVE  /\ \A x \in req[q].plan \ {o} : Unwritable(Current, x)' <=> Unwritable(req[q], x)
              /\ ~Unwritable(req[q], o) => ~Unwritable(Current, o)'
  <2>1. (Current.fresh)' = req[q].fresh
    BY <1>2, <1>11
  <2>2. ~Unwritable(req[q], o) => o \in Tracked' /\ ~mission'[o].reversed
    BY <1>6 DEF Tracked
  <2> QED BY <1>5, <1>8, <1>9, <2>1, <2>2 DEF Unwritable
<1>12. CASE ~doomed
  <2>1. ~Unwritable(req[q], o)
    BY <1>1, <1>12
  <2>2. StopsToPlan(Current) = req[q].todo
    BY <1>1, <1>4, <1>12 DEF StopsToPlan
  <2>3. StopsToPlan(Current)' = req[q].todo \ {o}
    <3>1. CASE ends
      BY <1>4, <2>1, <3>1, IdleTyped DEF StopsToPlan
    <3>2. CASE ~ends
      <4>1. ~(\E x \in Current.plan : Unwritable(Current, x))'
        BY <1>2, <1>4, <1>11, <1>12, <2>1, <3>2
      <4> QED BY <1>2, <1>4, <3>2, <4>1 DEF StopsToPlan
    <3> QED BY <3>1, <3>2
  <2>4. ASSUME NEW x \in Order
        PROVE  MissionOnceDone(Current, x)' = MissionOnceDone(Current, x)
    <3>1. CASE x = o
      BY <1>1, <1>4, <1>5, <1>10, <2>1, <2>2, <2>3, <3>1 DEF MissionOnceDone
    <3>2. CASE x # o /\ ~ends
      BY <1>2, <1>4, <1>5, <1>8, <1>10, <2>2, <2>3, <3>2 DEF MissionOnceDone
    <3>3. CASE x # o /\ ends
      BY <1>4, <1>5, <1>10, <2>1, <2>2, <2>3, <3>3 DEF MissionOnceDone
    <3> QED BY <3>1, <3>2, <3>3
  <2> QED BY <1>7, <2>4, AsDue DEF OwedVars
<1>13. CASE doomed
  <2>1. StopsToPlan(Current) = {}
    BY <1>4, <1>13 DEF StopsToPlan
  <2>2. CASE Unwritable(req[q], o)
    <3>1. UNCHANGED mission
      BY <1>0, <2>2 DEF PlanStop, Unwritable, Tracked, TypeOK
    <3>2. StopsToPlan(Current)' = {}
      BY <1>4, <2>2, IdleTyped DEF StopsToPlan
    <3>3. \A x \in Order : MissionOnceDone(Current, x)' = MissionOnceDone(Current, x)
      BY <1>10, <2>1, <3>1, <3>2 DEF MissionOnceDone
    <3> QED BY <1>7, <3>3, AsDue DEF OwedVars
  <2>3. CASE ~Unwritable(req[q], o)
    <3>1. PICK x \in req[q].plan \ {o} : Unwritable(req[q], x)
      BY <1>13, <2>3
    <3>2. StopsToPlan(Current)' = {}
      <4>1. CASE ends
        BY <1>4, <4>1, IdleTyped DEF StopsToPlan
      <4>2. CASE ~ends
        <5>1. (\E y \in Current.plan : Unwritable(Current, y))'
          BY <1>2, <1>4, <1>11, <3>1, <4>2
        <5> QED BY <5>1 DEF StopsToPlan
      <4> QED BY <4>1, <4>2
    <3>3. wholeOrder = order /\ wholeMission = mission /\ wholeRoute = route
      BY <1>0, <1>1, <1>4, <1>10, <2>1
         DEF wholeOrder, wholeMission, wholeRoute, OrderOnceDone, MissionOnceDone, RouteOnceDone,
             OrdersToFree, OrdersToPlan, TypeOK
    <3>4. wholeOrder' = order /\ wholeRoute' = route
      BY <1>7, <3>3 DEF wholeOrder, wholeRoute
    <3>5. wholeMission' = mission'
      <4>1. wholeMission' = [y \in Order |-> mission'[y]]
        BY <1>10, <3>2 DEF wholeMission, MissionOnceDone
      <4>2. \E row : mission' = [mission EXCEPT ![o] = row]
        BY DEF PlanStop
      <4> QED BY <1>0, <4>1, <4>2 DEF TypeOK
    <3>6. /\ order[o] = "scheduled" /\ order[x] = "scheduled"
          /\ req[q].rt \in Route /\ route[req[q].rt] = Planned
      BY <1>0, <1>1, <3>1 DEF PlanIsTrue, PlannedStatus
    <3>7. Whole!Tracked = Tracked /\ Whole!Planned = Planned
      BY <3>3 DEF Whole!Tracked, Whole!NoMission, Tracked, NoMission, Whole!Planned, Planned
    <3>8. x \in Whole!Stopless
      BY <1>9, <3>1, <3>3, <3>6, <3>7 DEF Whole!Stopless, Unwritable
    <3>9. CASE o \in Tracked
      <4>1. mission' = [mission EXCEPT ![o].status = "scheduled"]
        BY <2>3, <3>9 DEF PlanStop, Unwritable, Tracked
      <4>2. Whole!PlanStopAgain(o)
        BY <1>1, <3>3, <3>4, <3>5, <3>6, <3>7, <3>8, <3>9, <4>1 DEF Whole!PlanStopAgain
      <4> QED BY <4>2
    <3>10. CASE o \notin Tracked
      <4>1. req[q].fresh /\ x \in Tracked
        BY <2>3, <3>1, <3>10 DEF Unwritable
      <4>2. mission' = [mission EXCEPT
              ![o] = [status |-> "scheduled", route |-> req[q].rt, reversed |-> FALSE]]
        BY <3>10, <4>1 DEF PlanStop, Tracked
      <4>3. Whole!PlanFirstStop(o, req[q].rt)
        BY <1>1, <3>3, <3>4, <3>5, <3>6, <3>7, <3>8, <3>10, <4>1, <4>2 DEF Whole!PlanFirstStop
      <4> QED BY <3>6, <4>3
    <3> QED BY <3>9, <3>10
  <2> QED BY <2>2, <2>3
<1> QED BY <1>12, <1>13

LEMMA CancelServed ==
  ASSUME TurnInv, InTurn', NEW q \in Request, Cancels(q)
  PROVE  (\E r \in Route : Whole!CancelRoute(r)) \/ UNCHANGED OwedVars
<1>0. TypeOK /\ req[q] \in Requests /\ InTurn /\ req[q].alone /\ Hand(q)
  BY DEF TurnInv, HandInv, TypeOK, InTurn
<1>1. ASSUME NEW r \in Route, CancelRoute(q, r) PROVE Whole!CancelRoute(r)
  <2> DEFINE stopsLeft == [Idle EXCEPT !.pc = "cancel_stops", !.rt = r, !.todo = ListedStops(r)]
             rec == IF ListedStops(r) = {} THEN Idle ELSE stopsLeft
  <2>1. /\ Goes(q, rec) /\ req[q].pc = "idle" /\ UNCHANGED <<order, mission, late>>
        /\ route[r].status # "none" /\ Readable(r)
        /\ route' = [route EXCEPT ![r].status = "cancelled"]
    BY <1>1 DEF CancelRoute
  <2>2. stopsLeft.pc = "cancel_stops" /\ stopsLeft.todo = ListedStops(r) /\ stopsLeft.kept = {}
    BY DEF Idle
  <2>3. rec = Idle \/ rec.pc # "idle"
    BY <2>2
  <2>4. Current = Idle /\ Current' = rec
    <3> HIDE DEF rec
    <3> QED BY <1>0, <2>1, <2>3, Serving
  <2> HIDE DEF stopsLeft
  <2>5. wholeOrder = order /\ wholeMission = mission /\ wholeRoute = route
    BY <1>0, <2>4, AtRest, IdleTyped DEF Resting
  <2>11. /\ ListedStops(r)' = ListedStops(r) /\ Whole!ListedStops(r) = ListedStops(r)
    BY <2>1, <2>5, ListsKept
       DEF Whole!ListedStops, Whole!StopsOn, ListedStops, Unlisted, StopsOn
  <2>6. /\ StopsToCancel(Current)' = ListedStops(r) /\ OrdersToFree(Current)' = ListedStops(r)
        /\ OrdersToPlan(Current)' = {} /\ StopsToPlan(Current)' = {}
        /\ (Current.pc \notin {"deliver_stop", "deliver_order"} /\ ~Sweeping(Current))'
    BY <2>2, <2>4, IdleTyped DEF StopsToCancel, OrdersToFree, OrdersToPlan, StopsToPlan, Sweeping
  <2>7. wholeOrder' = [o \in Order |-> IF o \in ListedStops(r) THEN "unassigned" ELSE order[o]]
    BY <2>1, <2>6 DEF wholeOrder, OrderOnceDone
  <2>8. wholeMission' = [o \in Order |->
           IF o \in ListedStops(r) THEN [mission[o] EXCEPT !.status = "cancelled"]
           ELSE mission[o]]
    BY <2>1, <2>6 DEF wholeMission, MissionOnceDone
  <2>9. wholeRoute' = [r1 \in Route |-> route'[r1]]
    BY <2>6 DEF wholeRoute, RouteOnceDone
  <2>10. wholeRoute' = [route EXCEPT ![r].status = "cancelled"]
    BY <1>0, <2>1, <2>9 DEF TypeOK
  <2> QED BY <2>1, <2>5, <2>11, <2>7, <2>8, <2>10 DEF Whole!CancelRoute, Whole!Readable, Readable
<1>2. ASSUME NEW o \in Order, CancelStop(q, o) PROVE UNCHANGED OwedVars
  <2> DEFINE rec == [req[q] EXCEPT !.kept = @ \cup {o},
                !.pc = IF req[q].todo = {o} THEN "cancel_orders" ELSE @,
                !.todo = IF req[q].todo = {o} THEN req[q].kept \cup {o} ELSE @ \ {o}]
  <2>1. /\ Goes(q, rec) /\ req[q].pc = "cancel_stops" /\ o \in req[q].todo
        /\ UNCHANGED <<order, route>>
    BY <1>2 DEF CancelStop
  <2>2. /\ rec.pc = IF req[q].todo = {o} THEN "cancel_orders" ELSE req[q].pc
        /\ rec.kept = req[q].kept \cup {o}
        /\ rec.todo = IF req[q].todo = {o} THEN req[q].kept \cup {o} ELSE req[q].todo \ {o}
    BY <1>0 DEF Requests
  <2> HIDE DEF rec
  <2>3. Current = req[q] /\ Current' = rec
    BY <1>0, <2>1, <2>2, Serving
  <2>4. /\ \A x \in Order \ {o} : mission'[x] = mission[x]
        /\ mission'[o] = [mission[o] EXCEPT !.status = "cancelled"]
    <3>1. ~mission[o].reversed
      BY <1>0, <2>1 DEF Hand, InHand, LoopIsTrue, ListedStops, Unlisted
    <3> QED BY <1>0, <1>2, <3>1, LegibleRewritten DEF CancelStop
  <2>5. OrdersToFree(Current)' = OrdersToFree(Current)
    BY <2>1, <2>2, <2>3 DEF OrdersToFree, Sweeping
  <2>6. /\ StopsToCancel(Current) = req[q].todo
        /\ StopsToCancel(Current)' = req[q].todo \ {o}
    BY <2>1, <2>2, <2>3 DEF StopsToCancel, Sweeping
  <2>7. /\ \A x \in Order : OrderOnceDone(Current, x)' = OrderOnceDone(Current, x)
        /\ \A x \in Order : MissionOnceDone(Current, x)' = MissionOnceDone(Current, x)
        /\ \A r \in Route : RouteOnceDone(Current, r)' = RouteOnceDone(Current, r)
    BY <2>1, <2>2, <2>3, <2>4, <2>5, <2>6
       DEF OrderOnceDone, MissionOnceDone, RouteOnceDone, OrdersToPlan, StopsToPlan, Sweeping
  <2> QED BY <2>7, AsDue DEF OwedVars
<1>3. ASSUME NEW o \in Order, CancelOrder(q, o) PROVE UNCHANGED OwedVars
  <2> DEFINE on == [req[q] EXCEPT !.todo = @ \ {o}]
             rec == IF req[q].todo = {o} THEN Idle ELSE on
  <2>1. /\ Goes(q, rec) /\ req[q].pc = "cancel_orders" /\ o \in req[q].todo
        /\ UNCHANGED <<mission, route>>
    BY <1>3 DEF CancelOrder
  <2>2. on.pc = "cancel_orders" /\ on.todo = req[q].todo \ {o}
    BY <1>0, <2>1 DEF Requests
  <2>3. rec = Idle \/ rec.pc # "idle"
    BY <2>2
  <2>4. Current = req[q] /\ Current' = rec
    <3> HIDE DEF rec
    <3> QED BY <1>0, <2>1, <2>3, Serving
  <2> HIDE DEF on
  <2>5. \A x \in Order : order'[x] = IF x = o THEN "unassigned" ELSE order[x]
    BY <1>0, <1>3 DEF CancelOrder, TypeOK
  <2>6. /\ \A x \in Order : OrderOnceDone(Current, x)' = OrderOnceDone(Current, x)
        /\ \A x \in Order : MissionOnceDone(Current, x)' = MissionOnceDone(Current, x)
        /\ \A r \in Route : RouteOnceDone(Current, r)' = RouteOnceDone(Current, r)
    BY <2>1, <2>2, <2>4, <2>5, IdleTyped
       DEF OrderOnceDone, MissionOnceDone, RouteOnceDone, OrdersToFree, OrdersToPlan,
           StopsToCancel, StopsToPlan, Sweeping
  <2> QED BY <2>6, AsDue DEF OwedVars
<1> QED BY <1>1, <1>2, <1>3 DEF Cancels

LEMMA DeliverServed ==
  ASSUME TurnInv, InTurn', NEW q \in Request, Delivers(q)
  PROVE  (\E o \in Order : Whole!Deliver(o)) \/ UNCHANGED OwedVars
<1>0. TypeOK /\ req[q] \in Requests /\ InTurn /\ req[q].alone /\ Hand(q)
  BY DEF TurnInv, HandInv, TypeOK, InTurn
<1>1. ASSUME NEW o \in Order, Deliver(q, o) PROVE Whole!Deliver(o)
  <2> DEFINE rec == [Idle EXCEPT !.pc = "deliver_stop", !.at = o, !.rt = mission[o].route,
                                 !.rows = Snapshot({mission[o].route})]
  <2>1. /\ Looks(q, rec) /\ req[q].pc = "idle" /\ UNCHANGED <<order, mission, route, late>>
        /\ mission[o].route # Nil /\ ~mission[o].reversed /\ Readable(mission[o].route)
    BY <1>1 DEF Deliver, tables
  <2>2. rec.pc = "deliver_stop" /\ rec.at = o
    BY DEF Idle
  <2> HIDE DEF rec
  <2>3. Current = Idle /\ Current' = rec
    BY <1>0, <2>1, <2>2, Serving
  <2>4. wholeOrder = order /\ wholeMission = mission /\ wholeRoute = route
    BY <1>0, <2>3, AtRest, IdleTyped DEF Resting
  <2>5. /\ StopsToCancel(Current)' = {} /\ OrdersToFree(Current)' = {}
        /\ OrdersToPlan(Current)' = {} /\ StopsToPlan(Current)' = {} /\ ~Sweeping(Current)'
    BY <2>2, <2>3 DEF StopsToCancel, OrdersToFree, OrdersToPlan, StopsToPlan, Sweeping
  <2>6. /\ wholeOrder' = [x \in Order |-> IF x = o THEN "delivered" ELSE order[x]]
        /\ wholeMission' = [x \in Order |-> IF x = o
                              THEN [mission[x] EXCEPT !.status = "delivered"] ELSE mission[x]]
        /\ wholeRoute' = [r \in Route |-> route[r]]
    BY <2>1, <2>2, <2>3, <2>5
       DEF wholeOrder, wholeMission, wholeRoute, OrderOnceDone, MissionOnceDone, RouteOnceDone
  <2>7. /\ wholeOrder' = [order EXCEPT ![o] = "delivered"]
        /\ wholeMission' = [mission EXCEPT ![o].status = "delivered"]
        /\ wholeRoute' = route
    BY <1>0, <2>6 DEF TypeOK
  <2> QED BY <2>1, <2>4, <2>7, NilIsNoRow DEF Whole!Deliver, Whole!Readable, Readable
<1>2. CASE DeliverStop(q)
  <2> DEFINE rec == [req[q] EXCEPT !.pc = "deliver_order"]
  <2>1. Goes(q, rec) /\ req[q].pc = "deliver_stop" /\ UNCHANGED <<order, route>>
    BY <1>2 DEF DeliverStop
  <2>2. rec.pc = "deliver_order" /\ rec.at = req[q].at
    BY <1>0 DEF Requests
  <2> HIDE DEF rec
  <2>3. Current = req[q] /\ Current' = rec
    BY <1>0, <2>1, <2>2, Serving
  <2>4. \A x \in Order : mission'[x] =
          IF x = req[q].at THEN [mission[x] EXCEPT !.status = "delivered"] ELSE mission[x]
    <3>1. req[q].at \in Order /\ ~mission[req[q].at].reversed
      BY <1>0, <2>1 DEF Hand, InHand, LoopIsTrue
    <3> QED BY <1>0, <1>2, <3>1, LegibleRewritten DEF DeliverStop
  <2>5. /\ \A x \in Order : OrderOnceDone(Current, x)' = OrderOnceDone(Current, x)
        /\ \A x \in Order : MissionOnceDone(Current, x)' = MissionOnceDone(Current, x)
        /\ \A r \in Route : RouteOnceDone(Current, r)' = RouteOnceDone(Current, r)
    BY <2>1, <2>2, <2>3, <2>4
       DEF OrderOnceDone, MissionOnceDone, RouteOnceDone, OrdersToFree, OrdersToPlan,
           StopsToCancel, StopsToPlan, Sweeping
  <2> QED BY <2>5, AsDue DEF OwedVars
<1>3. CASE DeliverOrder(q)
  <2> DEFINE rec == [req[q] EXCEPT !.pc = "deliver_route"]
  <2>1. Goes(q, rec) /\ req[q].pc = "deliver_order" /\ UNCHANGED <<mission, route>>
    BY <1>3 DEF DeliverOrder
  <2>2. rec.pc = "deliver_route"
    BY <1>0 DEF Requests
  <2> HIDE DEF rec
  <2>3. Current = req[q] /\ Current' = rec
    BY <1>0, <2>1, <2>2, Serving
  <2>4. \A x \in Order : order'[x] = IF x = req[q].at THEN "delivered" ELSE order[x]
    BY <1>0, <1>3 DEF DeliverOrder, TypeOK
  <2>5. /\ \A x \in Order : OrderOnceDone(Current, x)' = OrderOnceDone(Current, x)
        /\ \A x \in Order : MissionOnceDone(Current, x)' = MissionOnceDone(Current, x)
        /\ \A r \in Route : RouteOnceDone(Current, r)' = RouteOnceDone(Current, r)
    BY <2>1, <2>2, <2>3, <2>4
       DEF OrderOnceDone, MissionOnceDone, RouteOnceDone, OrdersToFree, OrdersToPlan,
           StopsToCancel, StopsToPlan, Sweeping
  <2> QED BY <2>5, AsDue DEF OwedVars
<1>4. CASE DeliverRoute(q)
  <2>1. Goes(q, Idle) /\ req[q].pc = "deliver_route" /\ UNCHANGED <<order, mission>>
    BY <1>4 DEF DeliverRoute
  <2>2. route' = route
    <3>1. req[q].rt \in Route /\ req[q].rows[req[q].rt] = route[req[q].rt]
      BY <1>0, <2>1 DEF Hand, InHand, RowsAreTrue
    <3>2. [route EXCEPT ![req[q].rt] = route[req[q].rt]] = route
      BY <1>0, <3>1 DEF TypeOK
    <3> QED BY <1>4, <3>1, <3>2 DEF DeliverRoute
  <2>3. Current = req[q] /\ Current' = Idle
    BY <1>0, <2>1, Serving
  <2>4. /\ \A x \in Order : OrderOnceDone(Current, x)' = OrderOnceDone(Current, x)
        /\ \A x \in Order : MissionOnceDone(Current, x)' = MissionOnceDone(Current, x)
        /\ \A r \in Route : RouteOnceDone(Current, r)' = RouteOnceDone(Current, r)
    BY <2>1, <2>2, <2>3, IdleTyped
       DEF OrderOnceDone, MissionOnceDone, RouteOnceDone, OrdersToFree, OrdersToPlan,
           StopsToCancel, StopsToPlan, Sweeping
  <2> QED BY <2>4, AsDue DEF OwedVars
<1> QED BY <1>1, <1>2, <1>3, <1>4 DEF Delivers

(* A report steps on every request in progress: in turn, there is none.     *)
LEMMA ReportServed ==
  ASSUME TurnInv, InTurn',
         \/ \E o \in Order : CompletionFails(o)
         \/ \E r \in Route, status \in Reported : ReportRoute(r, status)
  PROVE  \/ \E o \in Order : Whole!CompletionFails(o)
         \/ \E r \in Route, status \in Reported : Whole!ReportRoute(r, status)
<1>0. TypeOK /\ TypeOK' /\ InTurn
  <2>1. Next
    BY DEF Next
  <2> QED BY <2>1, NextTyped DEF TurnInv, HandInv
<1>1. \A p \in Request : req[p].pc = "idle" /\ req'[p].pc = "idle"
  <2> SUFFICES ASSUME NEW p \in Request PROVE req[p].pc = "idle" /\ req'[p].pc = "idle"
    OBVIOUS
  <2>1. p # Nil /\ req[p] \in Requests
    BY <1>0, NilIsNoRow DEF TypeOK
  <2>2. req'[p] = IF req[p].pc = "idle" THEN req[p] ELSE [req[p] EXCEPT !.alone = FALSE]
    BY <2>1 DEF ReportRoute, CompletionFails, Disturbed
  <2>3. req'[p].alone
    BY <1>0 DEF InTurn
  <2> QED BY <2>1, <2>2, <2>3 DEF Requests
<1>2. Current = Idle /\ Current' = Idle
  BY <1>1 DEF Current, Busy
<1>3. /\ wholeOrder = order /\ wholeMission = mission /\ wholeRoute = route
      /\ wholeOrder' = order' /\ wholeMission' = mission' /\ wholeRoute' = route'
  BY <1>0, <1>2, AtRest, AtRestAfter, IdleTyped DEF Resting
<1>4. ASSUME NEW o \in Order, CompletionFails(o) PROVE Whole!CompletionFails(o)
  BY <1>3, <1>4 DEF CompletionFails, Whole!CompletionFails, Whole!Readable, Readable
<1>5. ASSUME NEW r \in Route, NEW status \in Reported, ReportRoute(r, status)
      PROVE  Whole!ReportRoute(r, status)
  <2>1. Whole!StopsOn(r) = StopsOn(r)
    BY <1>3 DEF Whole!StopsOn, StopsOn
  <2> QED BY <1>3, <1>5, <2>1
             DEF ReportRoute, Whole!ReportRoute, Whole!Readable, Readable
<1> QED BY <1>4, <1>5

LEMMA ClockServed ==
  ASSUME UNCHANGED vars \/ Clock
  PROVE  UNCHANGED OwedVars
<1>1. UNCHANGED <<order, mission, route, req>>
  BY DEF vars, Clock, tables
<1>2. Current' = Current
  BY <1>1 DEF Current, Busy
<1>3. /\ \A o \in Order : OrderOnceDone(Current, o)' = OrderOnceDone(Current, o)
      /\ \A o \in Order : MissionOnceDone(Current, o)' = MissionOnceDone(Current, o)
      /\ \A r \in Route : RouteOnceDone(Current, r)' = RouteOnceDone(Current, r)
  BY <1>1, <1>2
     DEF OrderOnceDone, MissionOnceDone, RouteOnceDone, OrdersToFree, OrdersToPlan,
         StopsToCancel, StopsToPlan, Sweeping, Unwritable, Tracked,
         DueStops, ListedStops, Unlisted, StopsOn
<1> QED BY <1>3, AsDue DEF OwedVars

(* Nobody reverses the stops that a request has in hand.                    *)
LEMMA NoWriteFails ==
  ASSUME TurnInv, NEW q \in Request, NEW o \in Order, WriteFails(q, o)
  PROVE  FALSE
<1>1. LoopIsTrue(req[q])
  BY DEF TurnInv, HandInv, Hand, InHand, InTurn, WriteFails
<1> QED BY <1>1 DEF WriteFails, LoopIsTrue, ListedStops, Unlisted

LEMMA StepServed ==
  ASSUME TurnInv, Next, InTurn'
  PROVE  [Whole!Next]_(Whole!wholeVars)
<1>1. CASE Clock
  BY <1>1, ClockServed DEF Clock, OwedVars, Whole!Next, Whole!Clock
<1>2. ASSUME NEW q \in Request, NEW gen \in SUBSET Order, Begin(q, gen) PROVE Whole!Next
  BY <1>2, BeginServed DEF Whole!Next
<1>3. ASSUME NEW q \in Request, Sweeps(q) PROVE UNCHANGED <<OwedVars, late>>
  BY <1>3, SweepServed
     DEF Sweeps, SweepRoute, SweepStop, SweepOrder, SweepClose, SweepEnd
<1>4. ASSUME NEW q \in Request, Generates(q) PROVE Whole!Next \/ UNCHANGED <<OwedVars, late>>
  <2>1. UNCHANGED late
    BY <1>4 DEF Generates, Check, Solve, PlanRoute, PlanOrder, PlanStop
  <2> QED BY <1>4, <2>1, PlanServed, PlanOrderServed, PlanStopServed DEF Generates, Whole!Next
<1>5. ASSUME NEW q \in Request, Cancels(q) PROVE Whole!Next \/ UNCHANGED <<OwedVars, late>>
  <2>1. UNCHANGED late
    BY <1>5 DEF Cancels, CancelRoute, CancelStop, CancelOrder
  <2> QED BY <1>5, <2>1, CancelServed DEF Whole!Next
<1>6. ASSUME NEW q \in Request, Delivers(q) PROVE Whole!Next \/ UNCHANGED <<OwedVars, late>>
  <2>1. UNCHANGED late
    BY <1>6 DEF Delivers, Deliver, DeliverStop, DeliverOrder, DeliverRoute
  <2> QED BY <1>6, <2>1, DeliverServed DEF Whole!Next
<1>7. ASSUME NEW q \in Request, Stop(q) PROVE FALSE
  BY <1>7 DEF Stop, TurnInv, InTurn
<1>8. ASSUME \/ \E o \in Order : CompletionFails(o)
             \/ \E r \in Route, status \in Reported : ReportRoute(r, status)
      PROVE  Whole!Next
  BY <1>8, ReportServed DEF Whole!Next
<1> QED BY <1>1, <1>2, <1>3, <1>4, <1>5, <1>6, <1>7, <1>8, NoWriteFails
        DEF Next, OwedVars, Whole!wholeVars

LEMMA InitServed ==
  ASSUME Init
  PROVE  TurnInv /\ Whole!Init
<1>1. TurnInv
  BY InitHand, InitFlow, InitClosing, IdleTyped DEF TurnInv, InTurn, Init
<1>2. Current = Idle
  BY IdleTyped DEF Init, Current, Busy
<1>3. wholeOrder = order /\ wholeMission = mission /\ wholeRoute = route
  BY <1>2, InitTyped, AtRest, IdleTyped DEF Resting
<1>4. Whole!Init
  BY <1>3 DEF Init, Whole!Init, Whole!NoMission, Whole!NoRoute, NoMission, NoRoute
<1> QED BY <1>1, <1>4

LEMMA TurnsGoOn ==
  ASSUME TurnInv, [Next /\ InTurn']_vars
  PROVE  TurnInv'
<1>1. InTurn'
  BY DEF TurnInv, InTurn, vars
<1> QED BY <1>1, NextHand, NextFlow, NextClosing DEF TurnInv

(* Requests that are served one after the other to their end implement      *)
(* RouteRequests: every commit of a sweep, a plan, a cancellation or a      *)
(* report was bound to come once its request had made its first one, and    *)
(* together they are the one step that the request is meant to be.          *)
THEOREM TurnsAreWhole == TurnsSpec => RequestsAreWhole
<1>1. Init => TurnInv /\ Whole!Init
  BY InitServed
<1>2. TurnInv /\ [Next /\ InTurn']_vars => TurnInv'
  BY TurnsGoOn
<1>3. TurnInv /\ [Next /\ InTurn']_vars => [Whole!Next]_(Whole!wholeVars)
  <2>1. UNCHANGED vars => UNCHANGED Whole!wholeVars
    BY ClockServed DEF OwedVars, Whole!wholeVars, vars
  <2> QED BY <2>1, StepServed
<1> QED BY <1>1, <1>2, <1>3, PTL DEF TurnsSpec, RequestsAreWhole, Whole!Spec

(* A generation, a sweep or a report that nobody steps on keeps the whole   *)
(* life cycle of the orders: what OrdersMoveOn allows to one that was       *)
(* stepped on does not happen while every request is left alone.            *)
THEOREM AloneKeepsLife ==
  Spec => [][(\A p \in Request : req[p].alone) =>
               (\A o \in Order : Life!Move(o)) /\ Life!Track]_vars
<1>1. ASSUME FlowInv, [Next]_vars
      PROVE  [(\A p \in Request : req[p].alone) =>
               (\A o \in Order : Life!Move(o)) /\ Life!Track]_vars
  BY <1>1, MovesOn, TracksOn
<1> QED BY <1>1, AlwaysFlow, PTL DEF Spec
=============================================================================
