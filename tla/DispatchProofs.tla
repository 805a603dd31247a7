--------------------------- MODULE DispatchProofs ---------------------------
(***************************************************************************)
(* Theorems about Dispatch, for any number of couriers, orders, routes,    *)
(* shifts and terminals: its tables are typed and linked as its invariants *)
(* say, a route that was begun is not planned anew, no delivery goes       *)
(* unmetered, and an order moves as OrderLifecycle says.                   *)
(***************************************************************************)
EXTENDS Dispatch, FiniteSetTheorems, TLAPS

-----------------------------------------------------------------------------
(* Type correctness                                                        *)

(* A row stays typed when its route is cancelled.                          *)
LEMMA CancelledRows ==
  ASSUME TypeOK
  PROVE  /\ \A o \in Order : /\ mission[o] \in MissionRow
                             /\ [mission[o] EXCEPT !.status = "cancelled"] \in MissionRow
         /\ \A o \in Order : /\ order[o] \in OrderRow
                             /\ [order[o] EXCEPT !.status = "unassigned"] \in OrderRow
         /\ \A r \in Route : /\ route[r] \in RouteRow
                             /\ [route[r] EXCEPT !.status = "cancelled"] \in RouteRow
<1>1. \A o \in Order :
        mission[o] \in MissionRow /\ [mission[o] EXCEPT !.status = "cancelled"] \in MissionRow
  BY DEF TypeOK, MissionRow, MissionStatusType
<1>2. \A o \in Order :
        order[o] \in OrderRow /\ [order[o] EXCEPT !.status = "unassigned"] \in OrderRow
  BY DEF TypeOK, OrderRow, OrderStatusTypes
<1>3. \A r \in Route :
        route[r] \in RouteRow /\ [route[r] EXCEPT !.status = "cancelled"] \in RouteRow
  BY DEF TypeOK, RouteRow, RouteStatesType
<1> QED BY <1>1, <1>2, <1>3

(* The tables the sweep leaves are well typed.                             *)
LEMMA SweptTypes ==
  ASSUME TypeOK, NEW late
  PROVE  /\ SweptMission(late) \in [Order -> MissionRow]
         /\ SweptOrder(late) \in [Order -> OrderRow]
         /\ SweptRoute(late) \in [Route -> RouteRow]
  BY CancelledRows DEF SweptMission, SweptOrder, SweptRoute

(* The order table a plan leaves is well typed.                            *)
LEMMA PlannedTypes ==
  ASSUME TypeOK, NEW late, NEW req, NEW assigned
  PROVE  PlannedOrder(req, assigned, late) \in [Order -> OrderRow]
  BY SweptTypes DEF PlannedOrder, OrderRow, OrderStatusTypes

(* A mission row that a plan rewrites stays a mission row.                 *)
LEMMA ReplannedType ==
  ASSUME NEW m \in MissionRow, NEW p \in Nat
  PROVE  Replanned(m, p) \in MissionRow
  BY DEF Replanned, MissionRow, MissionStatusType

(* So does one that gets a time stamp.                                     *)
LEMMA StampedType ==
  ASSUME NEW m \in MissionRow, NEW what
  PROVE  Stamped(m, what) \in MissionRow
  BY DEF Stamped, MissionRow

(* The stops of a plan are counted from 1.                                 *)
LEMMA StopsAreNaturals ==
  ASSUME NEW assigned \in SUBSET Order,
         NEW pos \in Bijection(assigned, 1..Cardinality(assigned))
  PROVE  /\ DOMAIN pos = assigned
         /\ \A o \in assigned : pos[o] \in Nat
<1>1. Cardinality(assigned) \in Nat
  BY OrdersAreFinite, FS_Subset, FS_CardinalityType
<1>2. pos \in [assigned -> 1..Cardinality(assigned)]
  BY DEF Bijection, Injection, Surjection
<1> QED BY <1>1, <1>2

(* The stops a plan reaches are stops of the plan.                         *)
LEMMA ReachedAreStops ==
  ASSUME NEW pos, NEW failing
  PROVE  Reached(pos, failing) \subseteq DOMAIN pos
  BY DEF Reached

(* The listed stops of a route, and the swept ones, are stops with a       *)
(* mission that can be read.                                               *)
LEMMA ListedAreStops ==
  /\ \A r : \A o \in ListedStops(r) : o \in Order /\ mission[o].route = r /\ Legible(o)
  /\ \A late : \A o \in SweptStops(late) :
       o \in Order /\ mission[o].route \in Overdue(late) /\ Legible(o)
  BY DEF ListedStops, StopsOf, SweptStops

(* The mission table a plan leaves is well typed.                          *)
LEMMA PlannedMissionTypes ==
  ASSUME TypeOK, NEW late, NEW r \in Route, NEW pos, NEW written,
         \A o \in written : pos[o] \in Nat
  PROVE  PlannedMission(pos, written, late, r) \in [Order -> MissionRow]
<1>1. \A o \in Order \cap written : Replanned(SweptMission(late)[o], pos[o]) \in MissionRow
  BY SweptTypes, ReplannedType
<1>2. \A o \in written :
        [NoMission EXCEPT !.status = "scheduled", !.route = r, !.position = pos[o]] \in MissionRow
  BY DEF NoMission, MissionRow, MissionStatusType
<1> QED BY <1>1, <1>2, SweptTypes DEF PlannedMission

(* Empty tables are well typed.                                            *)
LEMMA TypeInit == Init => TypeOK
  BY DEF Init, TypeOK, NoOrder, NoMission, NoRoute, OrderRow, MissionRow, RouteRow, ActualTimes

(* Creating, deleting and postponing orders keeps the tables typed.        *)
LEMMA TypeManageOrder ==
  ASSUME TypeOK, ManageOrder
  PROVE  TypeOK'
<1>1. ASSUME NEW o \in Order, NEW c \in Courier, NEW s \in Shift, CreateOrder(o, c, s)
      PROVE  TypeOK'
  BY <1>1 DEF TypeOK, CreateOrder, OrderRow, OrderStatusTypes
<1>2. ASSUME NEW o \in Order, HardDeleteOrder(o)
      PROVE  TypeOK'
  BY <1>2 DEF TypeOK, HardDeleteOrder, NoOrder, NoMission, OrderRow, MissionRow
<1>3. ASSUME NEW o \in Order, SoftDeleteOrder(o)
      PROVE  TypeOK'
  BY <1>3 DEF TypeOK, SoftDeleteOrder, OrderRow, OrderStatusTypes
<1>4. ASSUME NEW originals \in SUBSET Order, NEW s \in Shift,
             NEW copies \in SUBSET (Order \ originals),
             NEW copyOf \in Bijection(copies, originals), PostponeOrders(copyOf, s)
      PROVE  TypeOK'
  <2>1. copyOf \in [copies -> originals] /\ DOMAIN copyOf = copies
    BY DEF Bijection, Injection, Surjection
  <2>2. \A n \in copies : order[copyOf[n]].courier \in Courier \cup {Nil} /\ copyOf[n] \in Order
    BY <2>1 DEF TypeOK, OrderRow
  <2>3. order' \in [Order -> OrderRow]
    BY <1>4, <2>1, <2>2 DEF TypeOK, PostponeOrders, OrderRow, OrderStatusTypes
  <2> QED BY <1>4, <2>3 DEF TypeOK, PostponeOrders
<1> QED BY <1>1, <1>2, <1>3, <1>4 DEF ManageOrder

(* So do the sweep, route generation and cancellation.                     *)
LEMMA TypeManageRoute ==
  ASSUME TypeOK, ManageRoute
  PROVE  TypeOK'
<1>1. ASSUME NEW late \in LateSets, ReadRoutes(late)
      PROVE  TypeOK'
  BY <1>1, SweptTypes DEF TypeOK, ReadRoutes
<1>2. ASSUME NEW late \in LateSets, NEW c \in Courier, NEW s \in Shift,
             NEW req \in SUBSET Order, GenerateNothing(c, s, req, late)
      PROVE  TypeOK'
  BY <1>2, SweptTypes, PlannedTypes DEF TypeOK, GenerateNothing
<1>3. ASSUME NEW late \in LateSets, NEW c \in Courier, NEW s \in Shift,
             NEW req \in SUBSET Order, NEW assigned \in SUBSET req, NEW r \in Route,
             NEW pos \in Bijection(assigned, 1..Cardinality(assigned)),
             \/ GenerateNew(c, s, req, late, pos, r)
             \/ GenerateReuse(c, s, req, late, pos, r)
      PROVE  TypeOK'
  <2>1. DOMAIN pos = assigned /\ \A o \in assigned : pos[o] \in Nat
    BY StopsAreNaturals
  <2>2. \A failing : PlannedMission(pos, Reached(pos, failing), late, r) \in [Order -> MissionRow]
    BY <2>1, ReachedAreStops, PlannedMissionTypes
  <2>4. CASE GenerateNew(c, s, req, late, pos, r)
    <3>1. mission' \in [Order -> MissionRow]
      BY <2>2, <2>4 DEF GenerateNew
    <3>2. route' \in [Route -> RouteRow]
      BY <2>4, SweptTypes DEF GenerateNew, RouteRow, RouteStatesType, ActualTimes
    <3> QED BY <2>4, <3>1, <3>2, PlannedTypes DEF GenerateNew, TypeOK
  <2>5. CASE GenerateReuse(c, s, req, late, pos, r)
    <3>1. mission' \in [Order -> MissionRow]
      BY <2>2, <2>5 DEF GenerateReuse
    <3> DEFINE swept == SweptRoute(late)
               row == [swept[r] EXCEPT !.status = "scheduled", !.shift = s,
                                       !.current = Nil, !.times = "blank"]
    <3>2. r \in Route /\ swept \in [Route -> RouteRow]
      BY <2>5, SweptTypes DEF GenerateReuse, ScheduledAt, KnownAt, Listed, AtTerminal
    <3>3. route' = [swept EXCEPT ![r] = row]
      BY <2>5 DEF GenerateReuse
    <3> HIDE DEF swept
    <3>4. row \in RouteRow
      BY <3>2 DEF RouteRow, RouteStatesType, ActualTimes
    <3> HIDE DEF row
    <3>5. route' \in [Route -> RouteRow]
      BY <3>2, <3>3, <3>4
    <3> QED BY <2>5, <3>1, <3>5, PlannedTypes DEF GenerateReuse, TypeOK
  <2> QED BY <1>3, <2>4, <2>5
<1>4. ASSUME NEW r \in Route, CancelRoute(r)
      PROVE  TypeOK'
  <2>1. mission' \in [Order -> MissionRow]
    BY <1>4, CancelledRows DEF CancelRoute
  <2>2. order' \in [Order -> OrderRow]
    BY <1>4, CancelledRows DEF CancelRoute
  <2>3. route' \in [Route -> RouteRow]
    BY <1>4, CancelledRows DEF CancelRoute, TypeOK
  <2> QED BY <1>4, <2>1, <2>2, <2>3 DEF CancelRoute, TypeOK
<1> QED BY <1>1, <1>2, <1>3, <1>4 DEF ManageRoute

(* So does every request of a courier.                                     *)
LEMMA TypeCourier ==
  ASSUME TypeOK, NEW c \in Courier, NEW r \in Route,
         CourierOnRoute(c, r) \/ \E o \in Order : CourierAtStop(c, r, o)
  PROVE  TypeOK'
<1>1. CASE StartLoading(c, r)
  BY <1>1 DEF TypeOK, StartLoading, RouteRow, RouteStatesType
<1>2. ASSUME NEW o \in Order, NEW times \in ActualTimes, NEW scanned \in SUBSET Order,
             mission' = Started(Scanned(scanned), r) \/ mission' = Started(mission, r),
             route' = RouteStarted(r, o, times), UNCHANGED <<order, usage>>
      PROVE  TypeOK'
  <2>1. Scanned(scanned) \in [Order -> MissionRow]
    BY StampedType DEF TypeOK, Scanned
  <2>2. \A m \in [Order -> MissionRow] : Started(m, r) \in [Order -> MissionRow]
    BY DEF Started, MissionRow, MissionStatusType
  <2>3. RouteStarted(r, o, times) \in [Route -> RouteRow]
    BY DEF TypeOK, RouteStarted, RouteRow, RouteStatesType
  <2> QED BY <1>2, <2>1, <2>2, <2>3 DEF TypeOK
<1>3. ASSUME NEW o \in Order, ReturnToHub(c, r, o) \/ ArrivedAtDelivery(c, r, o)
                              \/ StartNextDeliveryFails(c, r, o)
      PROVE  TypeOK'
  BY <1>3, StampedType
     DEF TypeOK, ReturnToHub, ArrivedAtDelivery, StartNextDeliveryFails, RouteRow, RouteStatesType
<1>4. ASSUME NEW times \in ActualTimes, FinishRoute(c, r, times)
      PROVE  TypeOK'
  <2>1. mission' \in [Order -> MissionRow]
    BY <1>4, StampedType DEF TypeOK, FinishRoute
  <2>2. [route[r] EXCEPT !.status = "finished", !.times = times] \in RouteRow
    BY DEF TypeOK, RouteRow, RouteStatesType
  <2>3. route' = [route EXCEPT ![r] = [route[r] EXCEPT !.status = "finished", !.times = times]]
    BY <1>4 DEF TypeOK, FinishRoute
  <2>4. route' \in [Route -> RouteRow]
    BY <2>2, <2>3 DEF TypeOK
  <2> QED BY <1>4, <2>1, <2>4 DEF TypeOK, FinishRoute
<1>5. ASSUME NEW scanned \in SUBSET Order, mission' = Scanned(scanned),
             UNCHANGED <<order, route, usage>>
      PROVE  TypeOK'
  BY <1>5, StampedType DEF TypeOK, Scanned
<1>6. ASSUME NEW o \in Order, NEW outcome \in Outcomes, Delivered(c, r, o, outcome)
      PROVE  TypeOK'
  <2>1. outcome \in MissionStatusType
    BY OutcomesAreKnown DEF MissionStatusType
  <2>2. mission' \in [Order -> MissionRow]
    BY <1>6, <2>1 DEF TypeOK, Delivered, MissionRow
  <2>3. order' \in [Order -> OrderRow]
    BY <1>6 DEF TypeOK, Delivered, OrderRow, OrderStatusTypes
  <2> QED BY <1>6, <2>2, <2>3 DEF TypeOK, Delivered
<1>7. ASSUME NEW o \in Order, NEW reason \in UndeliveredMissionStatus,
             Undelivered(c, r, o, reason)
      PROVE  TypeOK'
  <2>1. mission' \in [Order -> MissionRow]
    BY <1>7 DEF TypeOK, Undelivered, MissionRow
  <2>2. order' \in [Order -> OrderRow]
    BY <1>7 DEF TypeOK, Undelivered, OrderRow, OrderStatusTypes
  <2> QED BY <1>7, <2>1, <2>2 DEF TypeOK, Undelivered
<1>8. ASSUME NEW o \in Order, StartNextDelivery(c, r, o)
      PROVE  TypeOK'
  <2>0. ASSUME NEW p \in Order PROVE [route[r] EXCEPT !.current = p] \in RouteRow
    BY DEF TypeOK, RouteRow
  <2>1. route' \in [Route -> RouteRow]
    BY <1>8, <2>0 DEF TypeOK, StartNextDelivery
  <2> QED BY <1>8, <2>1, StampedType DEF TypeOK, StartNextDelivery
<1>9. ASSUME NEW o \in Order, CompletedInReverse(o)
      PROVE  TypeOK'
  <2>1. Stamped(mission[o], "finished") \in MissionRow
    BY StampedType DEF TypeOK
  <2>2. \A m \in MissionRow : [m EXCEPT !.reversed = TRUE] \in MissionRow
    BY DEF MissionRow
  <2> QED BY <1>9, <2>1, <2>2 DEF TypeOK, CompletedInReverse
<1> QED
  BY <1>1, <1>2, <1>3, <1>4, <1>5, <1>6, <1>7, <1>8, <1>9
  DEF CourierOnRoute, CourierAtStop, CompletionFails, FinishFails, StartRoute,
      StartSelfManaged, LoadingFails,
      LoadedStartFails, Parcels

(* Every table of the dispatch core holds rows of its declared types.      *)
THEOREM TypeCorrect == Spec => []TypeOK
<1>1. TypeOK /\ [Next]_vars => TypeOK'
  <2>1. TypeOK /\ Next => TypeOK'
    BY TypeManageOrder, TypeManageRoute, TypeCourier DEF Next
  <2>2. TypeOK /\ UNCHANGED vars => TypeOK'
    BY DEF TypeOK, vars
  <2> QED BY <2>1, <2>2
<1> QED BY <1>1, TypeInit, PTL DEF Spec

-----------------------------------------------------------------------------
(* The links between the tables                                            *)

(* A mission that is not there carries no route: without it the sweep and  *)
(* cancel_route could bring a mission about.                               *)
NoMissionIsBlank == \A o \in Order : ~HasMission(o) => mission[o] = NoMission

(* The links, together inductive: each needs the others.                  *)
Linked ==
  /\ NoMissionIsBlank
  /\ RegisteredHasNoMission
  /\ MissionOwnership
  /\ CurrentMissionOnRoute

(* The statuses an order with a mission may have.                          *)
InPlay == OrderStatusTypes \ {"registered"}

(* What every step does to the links: a mission that exists stays on its   *)
(* route with its stamps, its order stays in play with its courier; a new  *)
(* one joins an order in play to a route of the same courier; routes keep  *)
(* their couriers; a new current mission is one of the route.              *)
KeepsMission(o) ==
  HasMission(o) =>
    /\ mission'[o].status # "none"
    /\ mission'[o].route = mission[o].route
    /\ mission[o].stamps \subseteq mission'[o].stamps
    /\ order'[o].status \in InPlay
    /\ order'[o].courier = order[o].courier

NewMission(o) ==
  ~HasMission(o) =>
    \/ mission'[o] = mission[o]
    \/ /\ mission'[o].status # "none"
       /\ mission'[o].route \in Route
       /\ route'[mission'[o].route].status # "none"
       /\ route'[mission'[o].route].courier = order'[o].courier
       /\ order'[o].status \in InPlay

KeepsRoute(r) ==
  /\ route[r].status # "none" =>
       route'[r].status # "none" /\ route'[r].courier = route[r].courier
  /\ \/ route'[r].current \in {Nil, route[r].current}
     \/ mission[route'[r].current].route = r /\ route'[r].current \in Order

LinkStep ==
  /\ \A o \in Order : KeepsMission(o) /\ NewMission(o)
  /\ \A r \in Route : KeepsRoute(r)

(* A step that does no more than LinkStep keeps the tables linked.         *)
LEMMA LinksKept ==
  ASSUME TypeOK, Linked, LinkStep
  PROVE  Linked'
<1>1. NoMissionIsBlank'
  BY DEF Linked, LinkStep, NoMissionIsBlank, KeepsMission, NewMission, HasMission
<1>2. RegisteredHasNoMission'
  BY DEF Linked, LinkStep, RegisteredHasNoMission, KeepsMission, NewMission, HasMission,
         InPlay, OrderStatusTypes
<1>3. MissionOwnership'
  BY DEF Linked, LinkStep, MissionOwnership, KeepsMission, NewMission, KeepsRoute,
         HasMission, Exists, InPlay, OrderStatusTypes
<1>4. \A o \in Order, r \in Route : mission[o].route = r => HasMission(o) /\ mission'[o].route = r
  BY NilIsNoId DEF Linked, LinkStep, NoMissionIsBlank, NoMission, KeepsMission
<1>5. \A r \in Route : route'[r].current \in Order \cup {Nil}
  BY DEF TypeOK, RouteRow, LinkStep, KeepsRoute
<1>6. CurrentMissionOnRoute'
  <2> SUFFICES ASSUME NEW r \in Route, route'[r].current # Nil
               PROVE  /\ HasMission(route[r].current)'
                      /\ mission'[route'[r].current].route = r
    BY DEF CurrentMissionOnRoute
  <2>1. route'[r].current \in Order /\ mission[route'[r].current].route = r
    BY <1>5 DEF LinkStep, KeepsRoute, Linked, CurrentMissionOnRoute
  <2> QED BY <2>1, <1>4 DEF LinkStep, KeepsMission, HasMission
<1> QED BY <1>1, <1>2, <1>3, <1>6 DEF Linked

(* A mission of a route is a mission, and its order is in play.            *)
LEMMA OnRoute ==
  ASSUME TypeOK, Linked, NEW o \in Order, mission[o].route \in Route
  PROVE  HasMission(o)
  BY NilIsNoId DEF Linked, NoMissionIsBlank, NoMission

(* The order of a mission is neither absent nor registered.                *)
LEMMA MissionInPlay ==
  ASSUME TypeOK, Linked, NEW o \in Order, HasMission(o)
  PROVE  order[o].status \in InPlay
  BY DEF Linked, RegisteredHasNoMission, InPlay, TypeOK, OrderRow

(* What the sweep leaves of each row.                                      *)
LEMMA SweepKeeps ==
  ASSUME TypeOK, Linked, NEW late
  PROVE  /\ \A o \in Order :
              /\ HasMission(o) =>
                   /\ SweptMission(late)[o].status # "none"
                   /\ SweptMission(late)[o].route = mission[o].route
                   /\ SweptMission(late)[o].stamps = mission[o].stamps
                   /\ SweptOrder(late)[o].status \in InPlay
              /\ ~HasMission(o) => /\ SweptMission(late)[o] = mission[o]
                                   /\ SweptOrder(late)[o] = order[o]
              /\ SweptOrder(late)[o].courier = order[o].courier
         /\ \A r \in Route :
              /\ SweptRoute(late)[r].courier = route[r].courier
              /\ SweptRoute(late)[r].current = route[r].current
              /\ SweptRoute(late)[r].status = "none" <=> route[r].status = "none"
<1>1. Overdue(late) \subseteq Route /\ \A r \in Overdue(late) : route[r].status # "none"
  BY DEF Overdue, Listed, PastShift
<1>2. ASSUME NEW o \in Order
      PROVE  /\ HasMission(o) =>
                  /\ SweptMission(late)[o].status # "none"
                  /\ SweptMission(late)[o].route = mission[o].route
                  /\ SweptMission(late)[o].stamps = mission[o].stamps
                  /\ SweptOrder(late)[o].status \in InPlay
             /\ ~HasMission(o) => /\ SweptMission(late)[o] = mission[o]
                                  /\ SweptOrder(late)[o] = order[o]
             /\ SweptOrder(late)[o].courier = order[o].courier
  <2>1. mission[o] \in MissionRow /\ order[o] \in OrderRow
    BY DEF TypeOK
  <2>2. SweptMission(late)[o].route = mission[o].route
        /\ SweptMission(late)[o].stamps = mission[o].stamps
        /\ SweptMission(late)[o].status \in {mission[o].status, "cancelled"}
    BY <2>1 DEF SweptMission, MissionRow
  <2>3. SweptOrder(late)[o].courier = order[o].courier
        /\ SweptOrder(late)[o].status \in {order[o].status, "unassigned"}
    BY <2>1 DEF SweptOrder, OrderRow
  <2>4. ~HasMission(o) => SweptMission(late)[o] = mission[o] /\ SweptOrder(late)[o] = order[o]
    BY <1>1, OnRoute, ListedAreStops DEF SweptMission, SweptOrder
  <2> QED BY <2>2, <2>3, <2>4, MissionInPlay DEF HasMission, InPlay, OrderStatusTypes
<1>3. ASSUME NEW r \in Route
      PROVE  /\ SweptRoute(late)[r].courier = route[r].courier
             /\ SweptRoute(late)[r].current = route[r].current
             /\ SweptRoute(late)[r].status = "none" <=> route[r].status = "none"
  <2>1. route[r] \in RouteRow
    BY DEF TypeOK
  <2> QED BY <1>1, <2>1 DEF SweptRoute, RouteRow
<1> QED BY <1>2, <1>3

(* The requests that manage orders are link steps.                         *)
LEMMA LinksManageOrder ==
  ASSUME TypeOK, Linked, ManageOrder
  PROVE  LinkStep
<1>1. ASSUME NEW o \in Order, NEW c \in Courier, NEW s \in Shift, CreateOrder(o, c, s)
      PROVE  LinkStep
  <2>1. ~HasMission(o)
    BY <1>1 DEF CreateOrder, NoOrder, Linked, RegisteredHasNoMission
  <2>2. \A p \in Order : KeepsMission(p) /\ NewMission(p)
    BY <1>1, <2>1, MissionInPlay DEF CreateOrder, TypeOK, KeepsMission, NewMission, HasMission
  <2> QED BY <1>1, <2>2 DEF CreateOrder, LinkStep, KeepsRoute
<1>2. ASSUME NEW o \in Order, HardDeleteOrder(o)
      PROVE  LinkStep
  <2>1. ~HasMission(o) /\ mission[o] = NoMission
    BY <1>2 DEF HardDeleteOrder, Linked, RegisteredHasNoMission, NoMissionIsBlank
  <2>2. \A p \in Order : KeepsMission(p) /\ NewMission(p)
    BY <1>2, <2>1, MissionInPlay DEF HardDeleteOrder, TypeOK, KeepsMission, NewMission, HasMission
  <2> QED BY <1>2, <2>2 DEF HardDeleteOrder, LinkStep, KeepsRoute
<1>3. ASSUME NEW o \in Order, SoftDeleteOrder(o)
      PROVE  LinkStep
  <2>1. \A p \in Order : KeepsMission(p) /\ NewMission(p)
    BY <1>3, MissionInPlay
    DEF SoftDeleteOrder, TypeOK, OrderRow, KeepsMission, NewMission, HasMission, InPlay,
        OrderStatusTypes
  <2> QED BY <1>3, <2>1 DEF SoftDeleteOrder, LinkStep, KeepsRoute
<1>4. ASSUME NEW originals \in SUBSET Order, NEW s \in Shift,
             NEW copies \in SUBSET (Order \ originals),
             NEW copyOf \in Bijection(copies, originals), PostponeOrders(copyOf, s)
      PROVE  LinkStep
  <2>1. DOMAIN copyOf = copies
    BY DEF Bijection, Injection, Surjection
  <2>2. \A n \in copies : ~HasMission(n)
    BY <1>4, <2>1 DEF PostponeOrders, NoOrder, Linked, RegisteredHasNoMission
  <2>3. \A p \in Order : p \notin copies =>
          /\ order'[p].courier = order[p].courier
          /\ order'[p].status \in {order[p].status, "postponed"}
    BY <1>4, <2>1 DEF PostponeOrders, TypeOK, OrderRow
  <2>4. \A p \in Order : KeepsMission(p) /\ NewMission(p)
    BY <1>4, <2>2, <2>3, MissionInPlay
    DEF PostponeOrders, KeepsMission, NewMission, HasMission, InPlay, OrderStatusTypes
  <2> QED BY <1>4, <2>4 DEF PostponeOrders, LinkStep, KeepsRoute
<1> QED BY <1>1, <1>2, <1>3, <1>4 DEF ManageOrder

(* The sweep, route generation and cancellation are link steps.            *)
LEMMA LinksManageRoute ==
  ASSUME TypeOK, Linked, ManageRoute
  PROVE  LinkStep
<1>1. ASSUME NEW late \in LateSets, ReadRoutes(late)
      PROVE  LinkStep
  BY <1>1, SweepKeeps
  DEF ReadRoutes, LinkStep, KeepsMission, NewMission, KeepsRoute
<1>2. ASSUME NEW late, NEW req, NEW assigned
      PROVE  \A o \in Order :
               /\ PlannedOrder(req, assigned, late)[o].courier = order[o].courier
               /\ PlannedOrder(req, assigned, late)[o].status \in
                    {SweptOrder(late)[o].status, "scheduled", "unassigned"}
               /\ o \in req => PlannedOrder(req, assigned, late)[o].status \in InPlay
  <2>1. \A o \in Order : SweptOrder(late)[o] \in OrderRow
    BY SweptTypes
  <2> QED BY <2>1, SweepKeeps DEF PlannedOrder, OrderRow, InPlay, OrderStatusTypes
<1>3. ASSUME NEW late \in LateSets, NEW c \in Courier, NEW s \in Shift,
             NEW req \in SUBSET Order, GenerateNothing(c, s, req, late)
      PROVE  LinkStep
  <2>1. \A o \in Order : KeepsMission(o) /\ NewMission(o)
    BY <1>2, <1>3, SweepKeeps
    DEF GenerateNothing, KeepsMission, NewMission, InPlay, OrderStatusTypes
  <2> QED BY <1>3, <2>1, SweepKeeps DEF GenerateNothing, LinkStep, KeepsRoute
<1>4. ASSUME NEW late \in LateSets, NEW c \in Courier, NEW s \in Shift,
             NEW req \in SUBSET Order, NEW assigned \in SUBSET req, NEW r \in Route,
             NEW pos \in Bijection(assigned, 1..Cardinality(assigned)),
             \/ GenerateNew(c, s, req, late, pos, r)
             \/ GenerateReuse(c, s, req, late, pos, r)
      PROVE  LinkStep
  <2>1. DOMAIN pos = assigned
    BY StopsAreNaturals
  <2>2. \A o \in Order : SweptMission(late)[o] \in MissionRow
    BY SweptTypes
  <2>3. ASSUME NEW o \in Order
        PROVE  /\ Replanned(SweptMission(late)[o], pos[o]).status = "scheduled"
               /\ Replanned(SweptMission(late)[o], pos[o]).route = SweptMission(late)[o].route
               /\ Replanned(SweptMission(late)[o], pos[o]).stamps = SweptMission(late)[o].stamps
    BY <2>2 DEF Replanned, MissionRow
  <2>4. order' = PlannedOrder(req, assigned, late)
    BY <1>4, <2>1 DEF GenerateNew, GenerateReuse
  <2>7. \A o \in Order :
          \/ mission'[o] = SweptMission(late)[o]
          \/ HasMission(o) /\ mission'[o] = Replanned(SweptMission(late)[o], pos[o])
          \/ /\ ~HasMission(o) /\ o \in assigned
             /\ GenerateNew(c, s, req, late, pos, r)
             /\ mission'[o].status = "scheduled"
             /\ mission'[o].route = r
    <3>1. ASSUME NEW written \in SUBSET assigned, NEW o \in Order
          PROVE  LET m == PlannedMission(pos, written, late, r)[o] IN
                 \/ m = SweptMission(late)[o]
                 \/ HasMission(o) /\ m = Replanned(SweptMission(late)[o], pos[o])
                 \/ /\ ~HasMission(o) /\ o \in written
                    /\ m.status = "scheduled" /\ m.route = r
      BY DEF PlannedMission, NoMission
    <3>2. \A failing : Reached(pos, failing) \subseteq assigned
      BY <2>1, ReachedAreStops
    <3>3. CASE GenerateNew(c, s, req, late, pos, r)
      <4>1. mission' = PlannedMission(pos, Reached(pos, Illegible), late, r)
        BY <3>3 DEF GenerateNew
      <4> QED BY <3>1, <3>2, <3>3, <4>1
    <3>4. CASE GenerateReuse(c, s, req, late, pos, r)
      <4> DEFINE failing == Illegible \cup {o \in Order : ~HasMission(o)}
      <4>1. mission' = PlannedMission(pos, Reached(pos, failing), late, r)
        BY <3>4 DEF GenerateReuse
      <4>2. \A o \in Order \cap Reached(pos, failing) : HasMission(o)
        BY StopsAreNaturals DEF Reached
      <4> HIDE DEF failing
      <4> QED BY <3>1, <3>2, <4>1, <4>2
    <3> QED BY <1>4, <3>3, <3>4
  <2>5. CASE GenerateNew(c, s, req, late, pos, r)
    <3>1. \A o \in Order : KeepsMission(o)
      BY <1>2, <2>1, <2>3, <2>4, <2>7, SweepKeeps
      DEF KeepsMission, InPlay, OrderStatusTypes
    <3>2. route'[r].courier = c /\ route'[r].status # "none" /\ route'[r].current = Nil
      BY <2>5, SweptTypes DEF GenerateNew
    <3>3. \A o \in req : order[o].courier = c
      BY <2>5 DEF GenerateNew, MayGenerate
    <3>4. \A o \in Order : NewMission(o)
      BY <1>2, <2>1, <2>4, <2>7, <3>2, <3>3, SweepKeeps DEF NewMission, HasMission
    <3>5. \A q \in Route : KeepsRoute(q)
      <4>1. route[r].status = "none"
        BY <2>5 DEF GenerateNew, NoRoute
      <4>2. \A q \in Route : q # r => route'[q] = SweptRoute(late)[q]
        BY <2>5, SweptTypes DEF GenerateNew
      <4> QED BY <3>2, <4>1, <4>2, SweepKeeps DEF KeepsRoute
    <3> QED BY <3>1, <3>4, <3>5 DEF LinkStep
  <2>6. CASE GenerateReuse(c, s, req, late, pos, r)
    <3>1. \A o \in Order : KeepsMission(o) /\ NewMission(o)
      <4>1. ~GenerateNew(c, s, req, late, pos, r)
        BY <2>6 DEF GenerateNew, GenerateReuse
      <4> QED
        BY <1>2, <2>3, <2>4, <2>7, <4>1, SweepKeeps
        DEF KeepsMission, NewMission, InPlay, OrderStatusTypes
    <3>2. \A q \in Route : KeepsRoute(q)
      <4>1. \A q \in Route :
              /\ route'[q].status = SweptRoute(late)[q].status
              /\ route'[q].courier = SweptRoute(late)[q].courier
              /\ route'[q].current \in {Nil, SweptRoute(late)[q].current}
        BY <2>6, SweptTypes DEF GenerateReuse, ScheduledAt, RouteRow
      <4> QED BY <4>1, SweepKeeps DEF KeepsRoute
    <3> QED BY <3>1, <3>2 DEF LinkStep
  <2> QED BY <1>4, <2>5, <2>6
<1>5. ASSUME NEW r \in Route, CancelRoute(r)
      PROVE  LinkStep
  <2>1. \A o \in Order : KeepsMission(o) /\ NewMission(o)
    <3> SUFFICES ASSUME NEW o \in Order PROVE KeepsMission(o) /\ NewMission(o)
      OBVIOUS
    <3>1. mission[o] \in MissionRow /\ order[o] \in OrderRow
      BY DEF TypeOK
    <3>2. CASE o \in ListedStops(r)
      BY <1>5, <3>1, <3>2, OnRoute, ListedAreStops
      DEF CancelRoute, KeepsMission, NewMission, MissionRow, OrderRow, InPlay, OrderStatusTypes
    <3>3. CASE o \notin ListedStops(r)
      BY <1>5, <3>3, MissionInPlay DEF CancelRoute, KeepsMission, NewMission, HasMission
    <3> QED BY <3>2, <3>3
  <2>2. \A q \in Route : KeepsRoute(q)
    BY <1>5 DEF CancelRoute, TypeOK, RouteRow, KeepsRoute
  <2> QED BY <2>1, <2>2 DEF LinkStep
<1> QED BY <1>1, <1>3, <1>4, <1>5 DEF ManageRoute

(* The requests of a courier are link steps.                               *)
LEMMA LinksCourier ==
  ASSUME TypeOK, Linked, NEW c \in Courier, NEW r \in Route,
         CourierOnRoute(c, r) \/ \E o \in Order : CourierAtStop(c, r, o)
  PROVE  LinkStep
<1>1. ASSUME NEW m \in MissionRow, NEW what
      PROVE  /\ Stamped(m, what).status = m.status
             /\ Stamped(m, what).route = m.route
             /\ m.stamps \subseteq Stamped(m, what).stamps
  BY DEF Stamped, MissionRow
<1>2. ASSUME \A o \in Order : mission'[o] # mission[o] =>
               /\ HasMission(o)
               /\ mission'[o].status # "none"
               /\ mission'[o].route = mission[o].route
               /\ mission[o].stamps \subseteq mission'[o].stamps,
             \A o \in Order : order'[o] # order[o] /\ HasMission(o) =>
               order'[o].status \in InPlay /\ order'[o].courier = order[o].courier
      PROVE  \A o \in Order : KeepsMission(o) /\ NewMission(o)
  BY <1>2, MissionInPlay DEF KeepsMission, NewMission, HasMission
<1>3. CASE StartLoading(c, r)
  BY <1>2, <1>3 DEF StartLoading, TypeOK, RouteRow, LinkStep, KeepsRoute
<1>4. ASSUME NEW o \in Order, NEW times \in ActualTimes, NEW scanned \in SUBSET Order,
             mission[o].route = r, route[r].status # "none",
             \A p \in scanned : mission[p].route = r,
             mission' = Started(Scanned(scanned), r) \/ mission' = Started(mission, r),
             route' = RouteStarted(r, o, times), UNCHANGED <<order, usage>>
      PROVE  LinkStep
  <2>1. ASSUME NEW p \in Order, mission'[p] # mission[p]
        PROVE  /\ HasMission(p)
               /\ mission'[p].status # "none"
               /\ mission'[p].route = mission[p].route
               /\ mission[p].stamps \subseteq mission'[p].stamps
    <3>1. /\ mission[p] \in MissionRow
          /\ Scanned(scanned)[p] \in {mission[p], Stamped(mission[p], "loaded")}
      BY DEF TypeOK, Scanned
    <3>2. Scanned(scanned)[p] \in MissionRow
      BY <3>1, StampedType
    <3>3. /\ Scanned(scanned)[p].route = mission[p].route
          /\ mission[p].stamps \subseteq Scanned(scanned)[p].stamps
      BY <1>1, <3>1
    <3>4. mission[p].route = r /\ mission'[p].status = "ongoing" /\ mission'[p].route = r
          /\ mission[p].stamps \subseteq mission'[p].stamps
      BY <1>4, <2>1, <3>1, <3>2, <3>3 DEF Started, Scanned, MissionRow
    <3> QED BY <3>4, OnRoute
  <2>2. \A q \in Route : KeepsRoute(q)
    BY <1>4 DEF RouteStarted, TypeOK, RouteRow, KeepsRoute
  <2>3. \A p \in Order : KeepsMission(p) /\ NewMission(p)
    BY <1>2, <1>4, <2>1
  <2> QED BY <2>2, <2>3 DEF LinkStep
<1>5. ASSUME NEW o \in Order, mission[o].route = r, NEW what,
             mission' = [mission EXCEPT ![o] = Stamped(@, what)], UNCHANGED order,
             \A q \in Route : KeepsRoute(q)
      PROVE  LinkStep
  <2>1. mission[o] \in MissionRow /\ HasMission(o)
    BY <1>5, OnRoute DEF TypeOK
  <2>2. \A p \in Order : KeepsMission(p) /\ NewMission(p)
    BY <1>1, <1>2, <1>5, <2>1 DEF TypeOK, HasMission
  <2> QED BY <1>5, <2>2 DEF LinkStep
<1>6. ASSUME NEW o \in Order, \/ ReturnToHub(c, r, o)
                              \/ ArrivedAtDelivery(c, r, o)
                              \/ StartNextDeliveryFails(c, r, o)
                              \/ StartNextDelivery(c, r, o)
      PROVE  LinkStep
  <2>1. \A q \in Route : KeepsRoute(q)
    BY <1>6 DEF ReturnToHub, ArrivedAtDelivery, StartNextDeliveryFails, StartNextDelivery,
                AcceptStop, AcceptRoute, NextStops, TypeOK, RouteRow, KeepsRoute
  <2>2. mission[o].route = r /\ UNCHANGED order
        /\ \E what : mission' = [mission EXCEPT ![o] = Stamped(@, what)]
    BY <1>6 DEF ReturnToHub, ArrivedAtDelivery, StartNextDeliveryFails, StartNextDelivery,
                AcceptStop
  <2> QED BY <1>5, <2>1, <2>2
<1>7. ASSUME NEW times \in ActualTimes, FinishRoute(c, r, times)
      PROVE  LinkStep
  <2>1. \A q \in Route : KeepsRoute(q)
    BY <1>7 DEF FinishRoute, AcceptRoute, TypeOK, RouteRow, KeepsRoute
  <2>2. \A o \in Order : mission'[o] # mission[o] =>
          o = route[r].current /\ mission'[o] = Stamped(mission[o], "finished")
    BY <1>7 DEF FinishRoute, Completed, TypeOK
  <2>3. \A o \in Order : o = route[r].current => HasMission(o) /\ mission[o] \in MissionRow
    BY NilIsNoId DEF Linked, CurrentMissionOnRoute, TypeOK
  <2>4. \A o \in Order : KeepsMission(o) /\ NewMission(o)
    BY <1>1, <1>2, <1>7, <2>2, <2>3 DEF FinishRoute, HasMission
  <2> QED BY <2>1, <2>4 DEF LinkStep
<1>8. ASSUME NEW scanned \in SUBSET Order, \A p \in scanned : mission[p].route = r,
             mission' = Scanned(scanned), UNCHANGED <<order, route, usage>>
      PROVE  LinkStep
  <2>1. \A o \in Order : mission'[o] # mission[o] =>
          /\ HasMission(o) /\ mission[o] \in MissionRow
          /\ mission'[o] = Stamped(mission[o], "loaded")
    BY <1>8, OnRoute DEF Scanned, TypeOK
  <2>2. \A o \in Order : KeepsMission(o) /\ NewMission(o)
    BY <1>1, <1>2, <1>8, <2>1 DEF HasMission
  <2> QED BY <1>8, <2>2 DEF LinkStep, KeepsRoute
<1>9. ASSUME NEW o \in Order, NEW to \in InPlay, NEW outcome, outcome # "none",
             mission[o].route = r, mission' = [mission EXCEPT ![o].status = outcome],
             order' = [order EXCEPT ![o].status = to], UNCHANGED route
      PROVE  LinkStep
  <2>1. mission[o] \in MissionRow /\ order[o] \in OrderRow /\ HasMission(o)
    BY <1>9, OnRoute DEF TypeOK
  <2>2. \A p \in Order : KeepsMission(p) /\ NewMission(p)
    BY <1>2, <1>9, <2>1 DEF TypeOK, MissionRow, OrderRow
  <2> QED BY <1>9, <2>2 DEF LinkStep, KeepsRoute
<1>10. ASSUME NEW o \in Order, NEW outcome \in Outcomes, Delivered(c, r, o, outcome)
       PROVE  LinkStep
  <2>1. outcome # "none"
    BY OutcomesAreKnown
  <2> QED BY <1>9, <1>10, <2>1 DEF Delivered, AcceptStop, InPlay, OrderStatusTypes
<1>11. ASSUME NEW o \in Order, NEW reason \in UndeliveredMissionStatus,
              Undelivered(c, r, o, reason)
       PROVE  LinkStep
  BY <1>9, <1>11
  DEF Undelivered, AcceptStop, InPlay, OrderStatusTypes, UndeliveredMissionStatus
<1>12. ASSUME NEW o \in Order, NEW times \in ActualTimes, StartRoute(c, r, o, times)
       PROVE  LinkStep
  <2>1. {} \in SUBSET Order /\ \A p \in {} : mission[p].route = r
    OBVIOUS
  <2>2. mission[o].route = r /\ route[r].status # "none" /\ mission' = Started(mission, r)
        /\ route' = RouteStarted(r, o, times) /\ UNCHANGED <<order, usage>>
    BY <1>12 DEF StartRoute, AcceptStop, AcceptRoute
  <2> QED BY ONLY <1>4, <2>1, <2>2, o \in Order, times \in ActualTimes
<1>13. ASSUME NEW req \in SUBSET Order, NEW times \in ActualTimes, NEW first \in req,
              StartSelfManaged(c, r, req, first, times)
       PROVE  LinkStep
  <2>1. \A p \in Parcels(req) : mission[p].route = r /\ p \in Order
    BY <1>13 DEF StartSelfManaged, Loadable, Parcels
  <2> QED BY <1>4, <1>13, <2>1 DEF StartSelfManaged, AcceptStop, AcceptRoute
<1>14. ASSUME NEW req \in SUBSET Order, NEW loaded \in SUBSET req, LoadingFails(r, req, loaded)
       PROVE  LinkStep
  BY <1>8, <1>14 DEF LoadingFails, Loadable
<1>15. ASSUME NEW req \in SUBSET Order, NEW first \in req, LoadedStartFails(c, r, req, first)
       PROVE  LinkStep
  BY <1>8, <1>15 DEF LoadedStartFails, Loadable
<1>16. ASSUME NEW o \in Order, CompletionFails(c, r, o) \/ FinishFails(c, r, o)
       PROVE  LinkStep
  <2>1. HasMission(o) /\ mission[o] \in MissionRow
    BY <1>16, OnRoute, NilIsNoId
    DEF CompletionFails, FinishFails, AcceptStop, Completed, Linked, CurrentMissionOnRoute, TypeOK
  <2>2. mission' = [mission EXCEPT ![o] = [Stamped(@, "finished") EXCEPT !.reversed = TRUE]]
        /\ UNCHANGED <<order, route>>
    BY <1>16 DEF CompletionFails, FinishFails, CompletedInReverse
  <2>3. /\ mission'[o].status = mission[o].status
        /\ mission'[o].route = mission[o].route
        /\ mission[o].stamps \subseteq mission'[o].stamps
    BY <2>1, <2>2 DEF Stamped, MissionRow, TypeOK
  <2>4. \A p \in Order : KeepsMission(p) /\ NewMission(p)
    BY <1>2, <2>1, <2>2, <2>3 DEF HasMission, TypeOK
  <2> QED BY <2>2, <2>4 DEF LinkStep, KeepsRoute
<1> QED
  BY <1>3, <1>6, <1>7, <1>10, <1>11, <1>12, <1>13, <1>14, <1>15, <1>16
  DEF CourierOnRoute, CourierAtStop

(* Empty tables are linked.                                                *)
LEMMA LinksInit == Init => Linked
  BY DEF Init, Linked, NoMissionIsBlank, RegisteredHasNoMission, MissionOwnership,
         CurrentMissionOnRoute, HasMission, NoMission, NoRoute

(* Every request is a link step.                                           *)
LEMMA LinksStep ==
  ASSUME TypeOK, Linked, Next
  PROVE  LinkStep
  BY LinksManageOrder, LinksManageRoute, LinksCourier DEF Next

(* The tables stay linked: registered orders have no mission, a mission's  *)
(* order, route and courier agree, a current mission is one of its route.  *)
THEOREM LinksInvariant == Spec => [](TypeOK /\ Linked)
<1>1. TypeOK /\ Linked /\ [Next]_vars => (TypeOK /\ Linked)'
  <2>1. TypeOK /\ Linked /\ Next => Linked'
    BY LinksStep, LinksKept
  <2>2. Linked /\ UNCHANGED vars => Linked'
    BY DEF Linked, NoMissionIsBlank, RegisteredHasNoMission, MissionOwnership,
           CurrentMissionOnRoute, HasMission, Exists, vars
  <2>3. TypeOK /\ [Next]_vars => TypeOK'
    BY TypeManageOrder, TypeManageRoute, TypeCourier DEF Next, TypeOK, vars
  <2> QED BY <2>1, <2>2, <2>3
<1>2. Init => TypeOK /\ Linked
  BY TypeInit, LinksInit
<1> QED BY <1>1, <1>2, PTL DEF Spec

(* delete_order never takes a stop from a route: the order it removes for  *)
(* good, a registered one, has no mission for the database to cascade to.  *)
THEOREM DeletionTakesNoStop == Spec => []RegisteredHasNoMission
<1>1. Linked => RegisteredHasNoMission
  BY DEF Linked
<1> QED BY <1>1, LinksInvariant, PTL

(* A mission's order, route and couriers agree: the check set_courier_state *)
(* makes of the route's courier covers the order and the mission.          *)
THEOREM MissionsOwned == Spec => []MissionOwnership
<1>1. Linked => MissionOwnership
  BY DEF Linked
<1> QED BY <1>1, LinksInvariant, PTL

(* The stop a courier is sent to is a stop of its route.                   *)
THEOREM CurrentMissionIsOnRoute == Spec => []CurrentMissionOnRoute
<1>1. Linked => CurrentMissionOnRoute
  BY DEF Linked
<1> QED BY <1>1, LinksInvariant, PTL

(* A mission stays, on its route and with its time stamps, for good.       *)
THEOREM MissionsPinned == Spec => MissionPinned
<1>1. TypeOK /\ Linked /\ [Next]_vars =>
        [\A o \in Order : HasMission(o) =>
           /\ mission'[o].status # "none"
           /\ mission'[o].route = mission[o].route
           /\ mission[o].stamps \subseteq mission'[o].stamps]_vars
  BY LinksStep DEF LinkStep, KeepsMission
<1> QED BY <1>1, LinksInvariant, PTL DEF Spec, MissionPinned

(* An order of a mission that cannot be read is not delivered by this step *)
(* and the row is left alone, but for the start of its route.              *)
LeftAlone(o) ==
  /\ mission'[o] \in {mission[o], [mission[o] EXCEPT !.status = "ongoing"]}
  /\ order'[o].status = "delivered" => order[o].status = "delivered"

(* Managing orders leaves it alone: a registered order has no mission.     *)
LEMMA OrdersLeaveAlone ==
  ASSUME TypeOK, Linked, ManageOrder, NEW o \in Order, ~Legible(o)
  PROVE  LeftAlone(o)
<1>1. HasMission(o)
  BY DEF Linked, NoMissionIsBlank, NoMission, Legible
<1>2. order[o].status \notin {"none", "registered", "deleted"}
  BY <1>1 DEF Linked, RegisteredHasNoMission
<1>3. \A p \in Order : \A c, s : CreateOrder(p, c, s) => LeftAlone(o)
  BY <1>2 DEF CreateOrder, NoOrder, LeftAlone, TypeOK
<1>4. \A p \in Order : HardDeleteOrder(p) => LeftAlone(o)
  BY <1>2 DEF HardDeleteOrder, LeftAlone, TypeOK
<1>5. \A p \in Order : SoftDeleteOrder(p) => LeftAlone(o)
  BY DEF SoftDeleteOrder, LeftAlone, TypeOK, OrderRow
<1>6. \A copyOf, s : PostponeOrders(copyOf, s) => LeftAlone(o)
  BY DEF PostponeOrders, LeftAlone, TypeOK, OrderRow
<1> QED BY <1>3, <1>4, <1>5, <1>6 DEF ManageOrder

(* Managing routes leaves it alone: no list and no look-up gives it.       *)
LEMMA RoutesLeaveAlone ==
  ASSUME TypeOK, Linked, ManageRoute, NEW o \in Order, ~Legible(o)
  PROVE  LeftAlone(o)
<1>1. HasMission(o)
  BY DEF Linked, NoMissionIsBlank, NoMission, Legible
<1>2. \A late : SweptMission(late)[o] = mission[o] /\ SweptOrder(late)[o] = order[o]
  BY ListedAreStops DEF SweptMission, SweptOrder
<1>3. ASSUME NEW late, NEW req, NEW assigned, order' = PlannedOrder(req, assigned, late)
      PROVE  order'[o].status = "delivered" => order[o].status = "delivered"
  BY <1>2, <1>3, SweptTypes DEF PlannedOrder, OrderRow
<1>4. \A late : ReadRoutes(late) => LeftAlone(o)
  BY <1>2 DEF ReadRoutes, LeftAlone
<1>5. \A c, s, req, late : GenerateNothing(c, s, req, late) => LeftAlone(o)
  BY <1>2, <1>3 DEF GenerateNothing, LeftAlone
<1>6. ASSUME NEW c \in Courier, NEW s \in Shift, NEW req \in SUBSET Order, NEW late,
             NEW assigned \in SUBSET req, NEW r \in Route,
             NEW pos \in Bijection(assigned, 1..Cardinality(assigned)),
             \/ GenerateNew(c, s, req, late, pos, r)
             \/ GenerateReuse(c, s, req, late, pos, r)
      PROVE  LeftAlone(o)
  <2>1. ASSUME NEW failing, Illegible \subseteq failing
        PROVE  PlannedMission(pos, Reached(pos, failing), late, r)[o] = mission[o]
    <3>1. o \in failing
      BY <2>1 DEF Illegible
    <3>2. o \notin Reached(pos, failing)
      BY <3>1, StopsAreNaturals DEF Reached
    <3> QED BY <1>2, <3>2 DEF PlannedMission
  <2>2. mission'[o] = mission[o]
    BY <1>6, <2>1 DEF GenerateNew, GenerateReuse
  <2>3. order'[o].status = "delivered" => order[o].status = "delivered"
    BY <1>3, <1>6 DEF GenerateNew, GenerateReuse
  <2> QED BY <2>2, <2>3 DEF LeftAlone
<1>7. \A r \in Route : CancelRoute(r) => LeftAlone(o)
  BY ListedAreStops DEF CancelRoute, LeftAlone
<1> QED BY <1>4, <1>5, <1>6, <1>7 DEF ManageRoute

(* So do couriers: a report on it is refused, and a start of its route     *)
(* writes the status only.                                                 *)
LEMMA CouriersLeaveAlone ==
  ASSUME TypeOK, NEW c \in Courier, NEW r \in Route,
         CourierOnRoute(c, r) \/ \E p \in Order : CourierAtStop(c, r, p),
         NEW o \in Order, ~Legible(o)
  PROVE  LeftAlone(o)
<1>1. ASSUME UNCHANGED order, mission'[o] = mission[o]
      PROVE  LeftAlone(o)
  BY <1>1 DEF LeftAlone
<1>2. \A p \in Order : AcceptStop(c, r, p) => p # o
  BY DEF AcceptStop
<1>3. \A loaded : loaded \subseteq Loadable(r) => Scanned(loaded)[o] = mission[o]
  BY DEF Loadable, Scanned
<1>4. \A m : m[o] = mission[o] =>
        Started(m, r)[o] \in {mission[o], [mission[o] EXCEPT !.status = "ongoing"]}
  BY DEF Started
<1>5. CASE CourierOnRoute(c, r)
  <2>1. StartLoading(c, r) => LeftAlone(o)
    BY <1>1 DEF StartLoading
  <2>2. \A p, times : StartRoute(c, r, p, times) => LeftAlone(o)
    BY <1>4 DEF StartRoute, LeftAlone
  <2>3. \A p \in Order : ReturnToHub(c, r, p) => LeftAlone(o)
    BY <1>1, <1>2 DEF ReturnToHub, TypeOK
  <2>4. \A times : FinishRoute(c, r, times) => LeftAlone(o)
    BY <1>1 DEF FinishRoute, Completed, TypeOK
  <2>5. \A req, first, times : StartSelfManaged(c, r, req, first, times) => LeftAlone(o)
    BY <1>3, <1>4 DEF StartSelfManaged, LeftAlone
  <2>6. \A req, loaded : LoadingFails(r, req, loaded) => LeftAlone(o)
    BY <1>1, <1>3 DEF LoadingFails
  <2>7. \A req, first : LoadedStartFails(c, r, req, first) => LeftAlone(o)
    BY <1>1, <1>3 DEF LoadedStartFails
  <2> QED BY <1>5, <2>1, <2>2, <2>3, <2>4, <2>5, <2>6, <2>7 DEF CourierOnRoute
<1>6. ASSUME NEW p \in Order, CourierAtStop(c, r, p)
      PROVE  LeftAlone(o)
  <2>1. p # o
    BY <1>2, <1>6 DEF CourierAtStop, ArrivedAtDelivery, Delivered, Undelivered,
                      StartNextDelivery, StartNextDeliveryFails, CompletionFails, FinishFails,
                      Completed
  <2>2. mission'[o] = mission[o] /\ order'[o] = order[o]
    BY <1>6, <2>1 DEF CourierAtStop, ArrivedAtDelivery, Delivered, Undelivered,
                      StartNextDelivery, StartNextDeliveryFails, CompletionFails, FinishFails,
                      CompletedInReverse, TypeOK
  <2> QED BY <2>2 DEF LeftAlone
<1> QED BY <1>5, <1>6

(* A mission that cannot be read is stuck for good and its order is never  *)
(* delivered: no request repairs the row, and none can remove it.          *)
THEOREM UnreadableStays == Spec => UnreadableForGood
<1>1. TypeOK /\ Linked /\ Next => \A o \in Order : ~Legible(o) => LeftAlone(o)
  BY OrdersLeaveAlone, RoutesLeaveAlone, CouriersLeaveAlone DEF Next
<1>2. TypeOK /\ Linked /\ [Next]_vars =>
        [\A o \in Order : mission[o].reversed =>
           /\ mission'[o] \in {mission[o], [mission[o] EXCEPT !.status = "ongoing"]}
           /\ order'[o].status = "delivered" => order[o].status = "delivered"]_vars
  BY <1>1 DEF LeftAlone, Legible
<1> QED BY <1>2, LinksInvariant, PTL DEF Spec, UnreadableForGood

-----------------------------------------------------------------------------
(* Routes                                                                  *)

(* The sweep leaves a route as it is or cancels it.                        *)
LEMMA SweptStatus ==
  ASSUME TypeOK, NEW late, NEW r \in Route
  PROVE  SweptRoute(late)[r].status \in {route[r].status, "cancelled"}
BY DEF TypeOK, SweptRoute, RouteRow

(* A route that was begun or that ended does not become scheduled.         *)
RouteMovesOn(r) ==
  route[r].status \notin {"none", "scheduled"} => route'[r].status # "scheduled"

(* Managing routes plans only new and scheduled ones.                      *)
LEMMA ManagingMovesOn ==
  ASSUME TypeOK, ManageRoute, NEW q \in Route
  PROVE  RouteMovesOn(q)
<1>1. ASSUME NEW late, route' = SweptRoute(late)
      PROVE  RouteMovesOn(q)
  BY <1>1, SweptStatus DEF RouteMovesOn
<1>2. \A late : ReadRoutes(late) => route' = SweptRoute(late)
  BY DEF ReadRoutes
<1>3. \A c, s, req, late : GenerateNothing(c, s, req, late) => route' = SweptRoute(late)
  BY DEF GenerateNothing
<1>4. ASSUME NEW c, NEW s, NEW req, NEW late, NEW pos, NEW r \in Route,
             GenerateNew(c, s, req, late, pos, r)
      PROVE  RouteMovesOn(q)
  <2>1. route[r].status = "none"
    BY <1>4 DEF GenerateNew, NoRoute
  <2>2. q # r => route'[q] = SweptRoute(late)[q]
    BY <1>4, SweptTypes DEF GenerateNew
  <2> QED BY <2>1, <2>2, SweptStatus DEF RouteMovesOn
<1>5. ASSUME NEW c, NEW s, NEW req, NEW late, NEW pos, NEW r \in Route,
             GenerateReuse(c, s, req, late, pos, r)
      PROVE  RouteMovesOn(q)
  <2>1. SweptRoute(late)[r].status = "scheduled"
    BY <1>5 DEF GenerateReuse, ScheduledAt
  <2>2. route[r].status = "scheduled"
    BY <2>1, SweptStatus
  <2>3. q # r => route'[q] = SweptRoute(late)[q]
    BY <1>5, SweptTypes DEF GenerateReuse
  <2> QED BY <2>2, <2>3, SweptStatus DEF RouteMovesOn
<1>6. ASSUME NEW r \in Route, CancelRoute(r)
      PROVE  RouteMovesOn(q)
  BY <1>6 DEF CancelRoute, RouteMovesOn, TypeOK, RouteRow
<1> QED BY <1>1, <1>2, <1>3, <1>4, <1>5, <1>6 DEF ManageRoute

(* Nor does a courier's request make a route a scheduled one.              *)
LEMMA CourierMovesOn ==
  ASSUME TypeOK, NEW c \in Courier, NEW r \in Route,
         CourierOnRoute(c, r) \/ \E o \in Order : CourierAtStop(c, r, o),
         NEW q \in Route
  PROVE  RouteMovesOn(q)
<1>1. ASSUME UNCHANGED route
      PROVE  RouteMovesOn(q)
  BY <1>1 DEF RouteMovesOn
<1>2. StartLoading(c, r) => RouteMovesOn(q)
  BY DEF StartLoading, RouteMovesOn, TypeOK, RouteRow
<1>3. \A o, times : route' = RouteStarted(r, o, times) => RouteMovesOn(q)
  BY DEF RouteStarted, RouteMovesOn, TypeOK, RouteRow
<1>4. \A o : ReturnToHub(c, r, o) => RouteMovesOn(q)
  BY DEF ReturnToHub, RouteMovesOn, TypeOK, RouteRow
<1>5. \A times : FinishRoute(c, r, times) => RouteMovesOn(q)
  BY DEF FinishRoute, RouteMovesOn, TypeOK, RouteRow
<1>6. CASE CourierOnRoute(c, r)
  BY <1>1, <1>2, <1>3, <1>4, <1>5, <1>6
     DEF CourierOnRoute, StartRoute, StartSelfManaged, LoadingFails, LoadedStartFails
<1>7. ASSUME NEW o \in Order, StartNextDelivery(c, r, o)
      PROVE  RouteMovesOn(q)
  BY <1>1, <1>7 DEF StartNextDelivery, RouteMovesOn, TypeOK, RouteRow
<1>8. \A o \in Order : CourierAtStop(c, r, o) => RouteMovesOn(q)
  BY <1>1, <1>7 DEF CourierAtStop, ArrivedAtDelivery, Delivered, Undelivered,
                    StartNextDeliveryFails, CompletionFails, FinishFails, CompletedInReverse
<1> QED BY <1>6, <1>8

(* A route that was begun, that ended or that was cancelled is never       *)
(* planned anew, although plans overwrite the scheduled route of a hub.    *)
THEOREM BegunRoutesMoveOn == Spec => NeverBackToScheduled
<1>1. ASSUME TypeOK, Next, NEW q \in Route
      PROVE  RouteMovesOn(q)
  <2>1. ManageOrder => UNCHANGED route
    BY DEF ManageOrder, CreateOrder, HardDeleteOrder, SoftDeleteOrder, PostponeOrders
  <2>2. CASE ManageOrder
    BY <2>1, <2>2 DEF RouteMovesOn
  <2> QED BY <1>1, <2>2, ManagingMovesOn, CourierMovesOn DEF Next
<1>2. TypeOK /\ [Next]_vars =>
        [\A r \in Route : route[r].status \notin {"none", "scheduled"}
           => route'[r].status # "scheduled"]_vars
  BY <1>1 DEF RouteMovesOn
<1> QED BY <1>2, TypeCorrect, PTL DEF Spec, NeverBackToScheduled

-----------------------------------------------------------------------------
(* One scheduled route                                                     *)

(* A terminal is blind when one of its routes cannot be read: then none is *)
(* listed, and nothing tells route generation of its scheduled route.      *)
Blind(t) == \E r \in AtTerminal(route, t) : ~Readable(route, r)

(* The strengthening of OneScheduledRoute that is inductive: two scheduled *)
(* routes of a terminal mean that it is blind.                             *)
SingleUnlessBlind ==
  \A r, q \in Route :
    /\ route[r].status = "scheduled"
    /\ route[q].status = "scheduled"
    /\ TerminalOf[route[r].shift] = TerminalOf[route[q].shift]
    => r = q \/ Blind(TerminalOf[route[r].shift])

(* What a step does to a route, unless it makes it: an unreadable one      *)
(* stays so at its terminal, none is scheduled that was not.               *)
Steady(r) ==
  /\ route[r].status # "none" /\ ~Readable(route, r) =>
       /\ route'[r].status # "none"
       /\ route'[r].shift = route[r].shift
       /\ ~Readable(route', r)
  /\ route'[r].status = "scheduled" =>
       /\ route[r].status = "scheduled"
       /\ TerminalOf[route'[r].shift] = TerminalOf[route[r].shift]

(* The sweep reads, and leaves, the routes as they are but for the status. *)
LEMMA SweptRow ==
  ASSUME TypeOK, NEW late, NEW r \in Route
  PROVE  /\ SweptRoute(late)[r].status \in {route[r].status, "cancelled"}
         /\ SweptRoute(late)[r].status = "none" <=> route[r].status = "none"
         /\ SweptRoute(late)[r].shift = route[r].shift
         /\ SweptRoute(late)[r].times = route[r].times
<1>1. r \in Overdue(late) => route[r].status # "none"
  BY DEF Overdue, Listed, PastShift
<1> QED BY <1>1 DEF SweptRoute, TypeOK, RouteRow

(* A route the step only sweeps stays steady.                              *)
LEMMA SweptIsSteady ==
  ASSUME TypeOK, NEW late, NEW r \in Route, route'[r] = SweptRoute(late)[r]
  PROVE  Steady(r)
BY SweptRow DEF Steady, Readable

(* Steady routes keep their terminals single.                              *)
LEMMA SteadyKeepsSingle ==
  ASSUME SingleUnlessBlind, \A r \in Route : Steady(r)
  PROVE  SingleUnlessBlind'
<1> SUFFICES ASSUME NEW r \in Route, NEW q \in Route,
                    route'[r].status = "scheduled",
                    route'[q].status = "scheduled",
                    TerminalOf[route'[r].shift] = TerminalOf[route'[q].shift],
                    r # q
             PROVE  Blind(TerminalOf[route[r].shift])'
  BY DEF SingleUnlessBlind
<1>1. /\ route[r].status = "scheduled"
      /\ route[q].status = "scheduled"
      /\ TerminalOf[route[r].shift] = TerminalOf[route'[r].shift]
      /\ TerminalOf[route[q].shift] = TerminalOf[route'[q].shift]
  BY DEF Steady
<1>2. PICK p \in AtTerminal(route, TerminalOf[route[r].shift]) : ~Readable(route, p)
  BY <1>1 DEF SingleUnlessBlind, Blind
<1>3. /\ p \in AtTerminal(route', TerminalOf[route'[r].shift])
      /\ ~Readable(route', p)
  BY <1>1, <1>2 DEF Steady, AtTerminal
<1> QED BY <1>3 DEF Blind

(* A new route at a terminal that lists no scheduled one: there is none,   *)
(* or the terminal is blind.                                               *)
LEMMA NewRouteKeepsSingle ==
  ASSUME TypeOK, SingleUnlessBlind, NEW c, NEW s, NEW req, NEW late, NEW pos,
         NEW r \in Route, GenerateNew(c, s, req, late, pos, r)
  PROVE  SingleUnlessBlind'
<1>1. route[r].status = "none" /\ ScheduledAt(SweptRoute(late), TerminalOf[s]) = {}
  BY DEF GenerateNew, NoRoute
<1>2. /\ route'[r].status = "scheduled"
      /\ route'[r].shift = s
      /\ \A q \in Route \ {r} : route'[q] = SweptRoute(late)[q]
  BY SweptTypes DEF GenerateNew
<1>3. \A q \in Route \ {r} : Steady(q)
  BY <1>2, SweptIsSteady
<1>4. ASSUME NEW q \in Route \ {r}, route'[q].status = "scheduled",
             TerminalOf[route'[q].shift] = TerminalOf[s]
      PROVE  Blind(TerminalOf[s])'
  <2>1. /\ q \in AtTerminal(SweptRoute(late), TerminalOf[s])
        /\ SweptRoute(late)[q].status = "scheduled"
    BY <1>2, <1>4 DEF AtTerminal
  <2>2. q \notin KnownAt(SweptRoute(late), TerminalOf[s])
    BY <1>1, <2>1 DEF ScheduledAt
  <2>3. PICK p \in AtTerminal(SweptRoute(late), TerminalOf[s]) :
          ~Readable(SweptRoute(late), p)
    BY <2>1, <2>2 DEF KnownAt, Listed
  <2>4. p # r
    BY <1>1, <2>3, SweptRow DEF AtTerminal
  <2>5. p \in AtTerminal(route', TerminalOf[s]) /\ ~Readable(route', p)
    BY <1>2, <2>3, <2>4 DEF AtTerminal, Readable
  <2> QED BY <2>5 DEF Blind
<1>5. ASSUME NEW p \in Route \ {r}, NEW q \in Route \ {r}, p # q,
             route'[p].status = "scheduled", route'[q].status = "scheduled",
             TerminalOf[route'[p].shift] = TerminalOf[route'[q].shift]
      PROVE  Blind(TerminalOf[route[p].shift])'
  <2>1. /\ route[p].status = "scheduled"
        /\ route[q].status = "scheduled"
        /\ TerminalOf[route[p].shift] = TerminalOf[route'[p].shift]
        /\ TerminalOf[route[q].shift] = TerminalOf[route'[q].shift]
    BY <1>3, <1>5 DEF Steady
  <2>2. PICK b \in AtTerminal(route, TerminalOf[route[p].shift]) : ~Readable(route, b)
    BY <1>5, <2>1 DEF SingleUnlessBlind, Blind
  <2>3. b # r
    BY <1>1, <2>2 DEF AtTerminal
  <2>4. /\ b \in AtTerminal(route', TerminalOf[route'[p].shift])
        /\ ~Readable(route', b)
    BY <1>3, <2>1, <2>2, <2>3 DEF Steady, AtTerminal
  <2> QED BY <2>4 DEF Blind
<1> QED BY <1>2, <1>4, <1>5 DEF SingleUnlessBlind

(* Every other request leaves the routes steady.                           *)
LEMMA OthersAreSteady ==
  ASSUME TypeOK, Next,
         ~ \E c, s, req, late, pos : \E r \in Route : GenerateNew(c, s, req, late, pos, r),
         NEW q \in Route
  PROVE  Steady(q)
<1>1. ASSUME UNCHANGED route
      PROVE  Steady(q)
  BY <1>1 DEF Steady, Readable
<1>2. ManageOrder => UNCHANGED route
  BY DEF ManageOrder, CreateOrder, HardDeleteOrder, SoftDeleteOrder, PostponeOrders
<1>3. \A late : ReadRoutes(late) => Steady(q)
  BY SweptIsSteady DEF ReadRoutes
<1>4. \A c, s, req, late : GenerateNothing(c, s, req, late) => Steady(q)
  BY SweptIsSteady DEF GenerateNothing
<1>5. ASSUME NEW c, NEW s, NEW req, NEW late, NEW pos, NEW r \in Route,
             GenerateReuse(c, s, req, late, pos, r)
      PROVE  Steady(q)
  <2>1. CASE q # r
    <3>1. route'[q] = SweptRoute(late)[q]
      BY <1>5, <2>1, SweptTypes DEF GenerateReuse
    <3> QED BY <3>1, SweptIsSteady
  <2>2. CASE q = r
    <3>1. r \in ScheduledAt(SweptRoute(late), TerminalOf[s])
      BY <1>5 DEF GenerateReuse
    <3>2. /\ SweptRoute(late)[r].status = "scheduled"
          /\ TerminalOf[SweptRoute(late)[r].shift] = TerminalOf[s]
          /\ Readable(SweptRoute(late), r)
      BY <3>1 DEF ScheduledAt, KnownAt, Listed, AtTerminal
    <3>3. /\ route[r].status = "scheduled"
          /\ TerminalOf[route[r].shift] = TerminalOf[s]
          /\ Readable(route, r)
      BY <3>2, SweptRow DEF Readable
    <3>4. route'[r].shift = s
      BY <1>5, SweptTypes DEF GenerateReuse, RouteRow
    <3> QED BY <2>2, <3>3, <3>4 DEF Steady
  <2> QED BY <2>1, <2>2
<1>6. ASSUME NEW r \in Route, CancelRoute(r)
      PROVE  Steady(q)
  BY <1>6 DEF CancelRoute, Steady, Readable, TypeOK, RouteRow
<1>7. CASE ManageRoute
  BY <1>3, <1>4, <1>5, <1>6, <1>7 DEF ManageRoute
<1>8. ASSUME NEW r \in Route, Readable(route, r), NEW row,
             \/ row.status # "scheduled"
             \/ row.status = route[r].status /\ row.shift = route[r].shift,
             route' = [route EXCEPT ![r] = row]
      PROVE  Steady(q)
  BY <1>8 DEF Steady, Readable, TypeOK
<1>9. ASSUME NEW c \in Courier, NEW r \in Route, CourierOnRoute(c, r)
      PROVE  Steady(q)
  <2>1. route[r] \in RouteRow
    BY DEF TypeOK
  <2>2. ASSUME StartLoading(c, r)
        PROVE  Steady(q)
    BY <2>1, <2>2, <1>8 DEF StartLoading, AcceptRoute, RouteRow, TypeOK
  <2>3. ASSUME NEW o, NEW times, AcceptRoute(c, r), route' = RouteStarted(r, o, times)
        PROVE  Steady(q)
    BY <2>1, <2>3 DEF RouteStarted, AcceptRoute, RouteRow, TypeOK, Steady, Readable
  <2>4. ASSUME NEW o, ReturnToHub(c, r, o)
        PROVE  Steady(q)
    BY <2>1, <2>4 DEF ReturnToHub, AcceptStop, AcceptRoute, RouteRow, TypeOK, Steady, Readable
  <2>5. ASSUME NEW times, FinishRoute(c, r, times)
        PROVE  Steady(q)
    BY <2>1, <2>5 DEF FinishRoute, AcceptRoute, RouteRow, TypeOK, Steady, Readable
  <2> QED BY <1>1, <1>9, <2>2, <2>3, <2>4, <2>5
          DEF CourierOnRoute, StartRoute, AcceptStop, StartSelfManaged, LoadingFails,
              LoadedStartFails
<1>10. ASSUME NEW c \in Courier, NEW r \in Route, NEW o \in Order, CourierAtStop(c, r, o)
       PROVE  Steady(q)
  <2>1. ASSUME StartNextDelivery(c, r, o)
        PROVE  Steady(q)
    BY <1>1, <2>1 DEF StartNextDelivery, Steady, Readable, TypeOK, RouteRow
  <2> QED BY <1>1, <1>10, <2>1
          DEF CourierAtStop, ArrivedAtDelivery, Delivered, Undelivered, StartNextDeliveryFails,
              CompletionFails, FinishFails, CompletedInReverse
<1> QED BY <1>1, <1>2, <1>7, <1>9, <1>10 DEF Next

(* As long as the routes of a terminal can be listed there is at most one  *)
(* scheduled route among them, the one a new plan reuses.                  *)
THEOREM ScheduledRouteIsOne == Spec => []OneScheduledRoute
<1>1. Init => SingleUnlessBlind
  BY DEF Init, SingleUnlessBlind, NoRoute
<1>2. ASSUME TypeOK, SingleUnlessBlind, [Next]_vars
      PROVE  SingleUnlessBlind'
  <2>1. CASE UNCHANGED vars
    BY <1>2, <2>1 DEF SingleUnlessBlind, Blind, AtTerminal, Readable, vars
  <2>2. CASE Next
    BY <1>2, <2>2, OthersAreSteady, SteadyKeepsSingle, NewRouteKeepsSingle
  <2> QED BY <1>2, <2>1, <2>2
<1>3. SingleUnlessBlind => OneScheduledRoute
  BY DEF SingleUnlessBlind, Blind, OneScheduledRoute, KnownAt, Listed, AtTerminal
<1> QED BY <1>1, <1>2, <1>3, TypeCorrect, PTL DEF Spec

-----------------------------------------------------------------------------
(* The meter                                                               *)

(* The delivered orders of a courier, and a step that adds none to them.   *)
DeliveredBy(c) == {o \in Order : order[o].status = "delivered" /\ order[o].courier = c}

NoNewDelivery ==
  \A o \in Order : order'[o].status = "delivered" =>
    order[o].status = "delivered" /\ order'[o].courier = order[o].courier

(* Managing orders and routes delivers nothing.                            *)
LEMMA ManagingDeliversNothing ==
  ASSUME TypeOK, ManageOrder \/ ManageRoute
  PROVE  NoNewDelivery
<1>1. \A o \in Order : \A c, s : CreateOrder(o, c, s) => NoNewDelivery
  BY DEF CreateOrder, NoNewDelivery, TypeOK
<1>2. \A o \in Order : HardDeleteOrder(o) \/ SoftDeleteOrder(o) => NoNewDelivery
  BY DEF HardDeleteOrder, SoftDeleteOrder, NoNewDelivery, TypeOK, OrderRow, NoOrder
<1>3. \A copyOf, s : PostponeOrders(copyOf, s) => NoNewDelivery
  BY DEF PostponeOrders, NoNewDelivery, TypeOK, OrderRow
<1>4. ASSUME NEW late
      PROVE  \A o \in Order : SweptOrder(late)[o].status = "delivered" =>
               order[o].status = "delivered" /\ SweptOrder(late)[o] = order[o]
  BY DEF SweptOrder, TypeOK, OrderRow
<1>5. ASSUME NEW late, NEW req, NEW assigned
      PROVE  \A o \in Order : PlannedOrder(req, assigned, late)[o].status = "delivered" =>
               order[o].status = "delivered" /\ PlannedOrder(req, assigned, late)[o] = order[o]
  <2>1. SweptOrder(late) \in [Order -> OrderRow]
    BY SweptTypes
  <2> QED BY <1>4, <2>1 DEF PlannedOrder, OrderRow
<1>6. \A late : ReadRoutes(late) => NoNewDelivery
  BY <1>4 DEF ReadRoutes, NoNewDelivery
<1>7. \A c, s, req, late, pos, r :
        \/ GenerateNothing(c, s, req, late)
        \/ GenerateNew(c, s, req, late, pos, r)
        \/ GenerateReuse(c, s, req, late, pos, r)
        => NoNewDelivery
  BY <1>5 DEF GenerateNothing, GenerateNew, GenerateReuse, NoNewDelivery
<1>8. \A r \in Route : CancelRoute(r) => NoNewDelivery
  BY DEF CancelRoute, NoNewDelivery, TypeOK, OrderRow
<1>9. CASE ManageOrder
  BY <1>1, <1>2, <1>3, <1>9 DEF ManageOrder
<1>10. CASE ManageRoute
  BY <1>6, <1>7, <1>8, <1>10 DEF ManageRoute
<1> QED BY <1>9, <1>10

(* Orders and routes are managed without metering anything.                *)
LEMMA ManagingMetersNothing ==
  ASSUME ManageOrder \/ ManageRoute
  PROVE  UNCHANGED usage
<1>1. \A o, c, s : CreateOrder(o, c, s) => UNCHANGED usage
  BY DEF CreateOrder
<1>2. \A o : HardDeleteOrder(o) \/ SoftDeleteOrder(o) => UNCHANGED usage
  BY DEF HardDeleteOrder, SoftDeleteOrder
<1>3. \A copyOf, s : PostponeOrders(copyOf, s) => UNCHANGED usage
  BY DEF PostponeOrders
<1>4. \A late : ReadRoutes(late) => UNCHANGED usage
  BY DEF ReadRoutes
<1>5. \A c, s, req, late : GenerateNothing(c, s, req, late) => UNCHANGED usage
  BY DEF GenerateNothing
<1>6. \A c, s, req, late, pos, r :
        GenerateNew(c, s, req, late, pos, r) \/ GenerateReuse(c, s, req, late, pos, r)
          => UNCHANGED usage
  BY DEF GenerateNew, GenerateReuse
<1>7. \A r : CancelRoute(r) => UNCHANGED usage
  BY DEF CancelRoute
<1>8. CASE ManageOrder
  BY <1>1, <1>2, <1>3, <1>8 DEF ManageOrder
<1>9. CASE ManageRoute
  BY <1>4, <1>5, <1>6, <1>7, <1>9 DEF ManageRoute
<1> QED BY <1>8, <1>9

(* Of a courier's requests only a delivery delivers; all others leave the  *)
(* meter alone.                                                            *)
LEMMA CourierDeliversOrNot ==
  ASSUME TypeOK, NEW c \in Courier, NEW r \in Route,
         CourierOnRoute(c, r) \/ \E o \in Order : CourierAtStop(c, r, o)
  PROVE  \/ NoNewDelivery /\ UNCHANGED usage
         \/ \E o \in Order, outcome \in Outcomes : Delivered(c, r, o, outcome)
<1>1. UNCHANGED order => NoNewDelivery
  BY DEF NoNewDelivery
<1>2. CourierOnRoute(c, r) => UNCHANGED <<order, usage>>
  BY DEF CourierOnRoute, StartLoading, StartRoute, ReturnToHub, FinishRoute,
         StartSelfManaged, LoadingFails, LoadedStartFails
<1>3. \A o : ArrivedAtDelivery(c, r, o) => UNCHANGED <<order, usage>>
  BY DEF ArrivedAtDelivery
<1>4. \A o : StartNextDelivery(c, r, o) \/ StartNextDeliveryFails(c, r, o)
        => UNCHANGED <<order, usage>>
  BY DEF StartNextDelivery, StartNextDeliveryFails
<1>5. \A o \in Order : \A reason : Undelivered(c, r, o, reason) =>
        NoNewDelivery /\ UNCHANGED usage
  BY DEF Undelivered, NoNewDelivery, TypeOK, OrderRow
<1>6. \A o : CompletionFails(c, r, o) \/ FinishFails(c, r, o) => UNCHANGED <<order, usage>>
  BY DEF CompletionFails, FinishFails, CompletedInReverse
<1> QED BY <1>1, <1>2, <1>3, <1>4, <1>5, <1>6 DEF CourierAtStop

(* A delivery adds one order, of the courier that reports it, and one to   *)
(* that courier's meter: the order is the reporter's by MissionOwnership.  *)
LEMMA DeliveryIsMetered ==
  ASSUME TypeOK, Linked, DeliveriesMetered,
         NEW c \in Courier, NEW r \in Route, NEW o \in Order, NEW outcome \in Outcomes,
         Delivered(c, r, o, outcome)
  PROVE  DeliveriesMetered'
<1>1. order[o].courier = c
  <2>1. mission[o].route = r /\ route[r].courier = c
    BY DEF Delivered, AcceptStop, AcceptRoute
  <2>2. HasMission(o)
    BY <2>1, OnRoute
  <2> QED BY <2>1, <2>2 DEF Linked, MissionOwnership
<1>2. \A p \in Order \ {o} : order'[p] = order[p]
  BY DEF Delivered, TypeOK
<1>3. order'[o].courier = c
  BY <1>1 DEF Delivered, TypeOK, OrderRow
<1>4. ASSUME NEW d \in Courier \ {c}
      PROVE  DeliveredBy(d)' \subseteq DeliveredBy(d) /\ usage'[d] = usage[d]
  <2>1. usage'[d] = usage[d]
    BY DEF Delivered, TypeOK
  <2> QED BY <1>2, <1>3, <2>1 DEF DeliveredBy
<1>5. DeliveredBy(c)' \subseteq DeliveredBy(c) \cup {o} /\ usage'[c] = usage[c] + 1
  <2>1. usage'[c] = usage[c] + 1
    BY DEF Delivered, TypeOK
  <2> QED BY <1>2, <2>1 DEF DeliveredBy
<1>6. \A d \in Courier : /\ IsFiniteSet(DeliveredBy(d)) /\ Cardinality(DeliveredBy(d)) \in Nat
                         /\ Cardinality(DeliveredBy(d)) <= usage[d]
                         /\ usage[d] \in Nat
  <2>1. \A d : DeliveredBy(d) \subseteq Order
    BY DEF DeliveredBy
  <2> QED BY <2>1, OrdersAreFinite, FS_Subset, FS_CardinalityType
             DEF DeliveriesMetered, DeliveredBy, TypeOK
<1>7. ASSUME NEW d \in Courier \ {c}
      PROVE  Cardinality(DeliveredBy(d)') <= usage'[d]
  <2>1. /\ Cardinality(DeliveredBy(d)') <= Cardinality(DeliveredBy(d))
        /\ Cardinality(DeliveredBy(d)') \in Nat
    BY <1>4, <1>6, FS_Subset, FS_CardinalityType
  <2> QED BY <1>4, <1>6, <2>1
<1>8. Cardinality(DeliveredBy(c)') <= usage'[c]
  <2>1. /\ IsFiniteSet(DeliveredBy(c) \cup {o})
        /\ Cardinality(DeliveredBy(c) \cup {o}) <= Cardinality(DeliveredBy(c)) + 1
    <3>1. /\ IsFiniteSet(DeliveredBy(c) \cup {o})
          /\ \/ Cardinality(DeliveredBy(c) \cup {o}) = Cardinality(DeliveredBy(c))
             \/ Cardinality(DeliveredBy(c) \cup {o}) = Cardinality(DeliveredBy(c)) + 1
      BY <1>6, FS_AddElement
    <3> QED BY <1>6, <3>1
  <2>2. /\ Cardinality(DeliveredBy(c)') <= Cardinality(DeliveredBy(c) \cup {o})
        /\ Cardinality(DeliveredBy(c)') \in Nat
    BY <1>5, <2>1, FS_Subset, FS_CardinalityType
  <2>3. Cardinality(DeliveredBy(c) \cup {o}) \in Nat
    BY <2>1, FS_CardinalityType
  <2> QED BY <1>5, <1>6, <2>1, <2>2, <2>3
<1> QED BY <1>7, <1>8 DEF DeliveriesMetered, DeliveredBy

(* A step that delivers nothing keeps every meter ahead of the deliveries. *)
LEMMA MeterStaysAhead ==
  ASSUME TypeOK, DeliveriesMetered, NoNewDelivery, UNCHANGED usage
  PROVE  DeliveriesMetered'
<1> SUFFICES ASSUME NEW c \in Courier
             PROVE  Cardinality(DeliveredBy(c)') <= usage'[c]
  BY DEF DeliveriesMetered, DeliveredBy
<1>1. DeliveredBy(c)' \subseteq DeliveredBy(c)
  BY DEF DeliveredBy, NoNewDelivery
<1>2. IsFiniteSet(DeliveredBy(c))
  <2>1. DeliveredBy(c) \subseteq Order
    BY DEF DeliveredBy
  <2> QED BY <2>1, OrdersAreFinite, FS_Subset
<1>3. /\ Cardinality(DeliveredBy(c)') <= Cardinality(DeliveredBy(c))
      /\ Cardinality(DeliveredBy(c)') \in Nat
      /\ Cardinality(DeliveredBy(c)) \in Nat
  BY <1>1, <1>2, FS_Subset, FS_CardinalityType
<1>4. Cardinality(DeliveredBy(c)) <= usage[c] /\ usage[c] \in Nat
  BY DEF DeliveriesMetered, DeliveredBy, TypeOK
<1> QED BY <1>3, <1>4

(* No delivery goes unmetered: a courier never has more delivered orders   *)
(* than metered deliveries, whoever reports them and however often.        *)
THEOREM NoDeliveryUnmetered == Spec => []DeliveriesMetered
<1>1. Init => DeliveriesMetered
  <2> SUFFICES ASSUME Init, NEW c \in Courier
               PROVE  Cardinality({o \in Order : order[o].status = "delivered"
                                                 /\ order[o].courier = c}) <= usage[c]
    BY DEF DeliveriesMetered
  <2> DEFINE D == {o \in Order : order[o].status = "delivered" /\ order[o].courier = c}
  <2>1. D = {}
    BY DEF Init, NoOrder
  <2>2. usage[c] = 0
    BY DEF Init
  <2> HIDE DEF D
  <2>3. Cardinality(D) = 0
    BY <2>1, FS_EmptySet
  <2>4. Cardinality(D) <= usage[c]
    BY <2>2, <2>3
  <2> QED BY <2>4 DEF D
<1>2. ASSUME TypeOK, Linked, DeliveriesMetered, [Next]_vars
      PROVE  DeliveriesMetered'
  <2>1. CASE ManageOrder \/ ManageRoute
    <3>1. UNCHANGED usage
      BY <2>1, ManagingMetersNothing
    <3> QED BY <1>2, <2>1, <3>1, ManagingDeliversNothing, MeterStaysAhead
  <2>2. ASSUME NEW c \in Courier, NEW r \in Route,
               CourierOnRoute(c, r) \/ \E o \in Order : CourierAtStop(c, r, o)
        PROVE  DeliveriesMetered'
    <3>1. CASE NoNewDelivery /\ UNCHANGED usage
      BY <1>2, <3>1, MeterStaysAhead
    <3>2. CASE \E o \in Order, outcome \in Outcomes : Delivered(c, r, o, outcome)
      BY <1>2, <3>2, DeliveryIsMetered
    <3> QED BY <1>2, <2>2, <3>1, <3>2, CourierDeliversOrNot
  <2>3. CASE UNCHANGED vars
    BY <1>2, <2>3 DEF DeliveriesMetered, vars
  <2> QED BY <1>2, <2>1, <2>2, <2>3 DEF Next
<1> QED BY <1>1, <1>2, LinksInvariant, PTL DEF Spec

-----------------------------------------------------------------------------
(* The life of an order                                                    *)

(* What a step may do to one order, as OrderLifecycle says it, in terms of *)
(* the tables.                                                             *)
Moves(o) ==
  \/ order'[o].status = order[o].status
  \/ order[o].status = "none" /\ order'[o].status = "registered"
  \/ order[o].status = "registered" /\ ~HasMission(o) /\ order'[o].status = "deleted"
  \/ /\ order[o].status \in {"registered", "unassigned", "scheduled"}
     /\ order'[o].status \in {"scheduled", "unassigned"}
  \/ HasMission(o) /\ order'[o].status \in {"scheduled", "unassigned", "delivered"}
  \/ order[o].status \in {"postponed", "unassigned"} /\ order'[o].status = "cancelled"
  \/ Exists(o) /\ order'[o].status = "postponed"

(* A first mission comes with the order's being scheduled.                 *)
Tracks(o) == HasMission(o)' => HasMission(o) \/ order'[o].status = "scheduled"

LifeStep == \A o \in Order : Moves(o) /\ Tracks(o)

(* The requests that manage orders.                                        *)
LEMMA OrdersLive ==
  ASSUME TypeOK, Linked, ManageOrder
  PROVE  LifeStep
<1>1. ASSUME NEW o \in Order, NEW c, NEW s, CreateOrder(o, c, s)
      PROVE  LifeStep
  BY <1>1 DEF CreateOrder, LifeStep, Moves, Tracks, HasMission, TypeOK, NoOrder
<1>2. ASSUME NEW o \in Order, HardDeleteOrder(o)
      PROVE  LifeStep
  <2>1. ~HasMission(o)
    BY <1>2 DEF HardDeleteOrder, Linked, RegisteredHasNoMission
  <2>2. order'[o].status = "deleted" /\ order[o].status = "registered"
    BY <1>2 DEF HardDeleteOrder, TypeOK, NoOrder
  <2>3. \A p \in Order \ {o} : order'[p] = order[p] /\ mission'[p] = mission[p]
    BY <1>2 DEF HardDeleteOrder, TypeOK
  <2>4. ~HasMission(o)'
    BY <1>2 DEF HardDeleteOrder, TypeOK, HasMission, NoMission
  <2> QED BY <2>1, <2>2, <2>3, <2>4 DEF LifeStep, Moves, Tracks, HasMission
<1>3. ASSUME NEW o \in Order, SoftDeleteOrder(o)
      PROVE  LifeStep
  BY <1>3 DEF SoftDeleteOrder, LifeStep, Moves, Tracks, HasMission, TypeOK, OrderRow
<1>4. ASSUME NEW originals \in SUBSET Order, NEW copies \in SUBSET (Order \ originals),
             NEW copyOf \in Bijection(copies, originals), NEW s \in Shift,
             PostponeOrders(copyOf, s)
      PROVE  LifeStep
  <2>1. UNCHANGED mission
    BY <1>4 DEF PostponeOrders
  <2>2. ASSUME NEW o \in Order
        PROVE  Moves(o)
    <3>1. order[o] \in OrderRow
      BY DEF TypeOK
    <3>2. CASE o \in {copyOf[n] : n \in DOMAIN copyOf}
      <4>1. Exists(o)
        BY <1>4, <3>2 DEF PostponeOrders
      <4>2. order'[o].status = "postponed"
        BY <1>4, <3>1, <3>2 DEF PostponeOrders, OrderRow
      <4> QED BY <4>1, <4>2 DEF Moves
    <3>3. CASE o \notin {copyOf[n] : n \in DOMAIN copyOf} /\ o \in DOMAIN copyOf
      <4>1. order[o].status = "none"
        BY <1>4, <3>3 DEF PostponeOrders, NoOrder
      <4>2. order'[o].status = "registered"
        BY <1>4, <3>3 DEF PostponeOrders
      <4> QED BY <4>1, <4>2 DEF Moves
    <3>4. CASE o \notin {copyOf[n] : n \in DOMAIN copyOf} /\ o \notin DOMAIN copyOf
      BY <1>4, <3>4 DEF PostponeOrders, Moves
    <3> QED BY <3>2, <3>3, <3>4
  <2> QED BY <2>1, <2>2 DEF LifeStep, Tracks, HasMission
<1> QED BY <1>1, <1>2, <1>3, <1>4 DEF ManageOrder

(* The sweep alone: only orders with a mission are unassigned.             *)
LEMMA SweepLives ==
  ASSUME TypeOK, Linked, NEW late, NEW o \in Order
  PROVE  \/ SweptOrder(late)[o] = order[o]
         \/ HasMission(o) /\ SweptOrder(late)[o].status = "unassigned"
<1>1. CASE o \in SweptStops(late)
  <2>1. HasMission(o)
    BY <1>1, OnRoute, ListedAreStops DEF Overdue, Listed, PastShift
  <2> QED BY <1>1, <2>1 DEF SweptOrder, TypeOK, OrderRow
<1>2. CASE o \notin SweptStops(late)
  BY <1>2 DEF SweptOrder
<1> QED BY <1>1, <1>2

(* A plan: only orders of the request change status beyond the sweep.      *)
LEMMA PlanLives ==
  ASSUME TypeOK, Linked, NEW c, NEW s, NEW req \in SUBSET Order, NEW assigned, NEW late,
         MayGenerate(c, s, req, late),
         order' = PlannedOrder(req, assigned, late)
  PROVE  \A o \in Order : Moves(o)
<1> SUFFICES ASSUME NEW o \in Order
             PROVE  Moves(o)
  OBVIOUS
<1>1. SweptOrder(late) \in [Order -> OrderRow] /\ order[o] \in OrderRow
  BY SweptTypes DEF TypeOK
<1>2. CASE o \in req
  <2>1. order'[o].status \in {"scheduled", "unassigned"}
    BY <1>1, <1>2 DEF PlannedOrder, OrderRow
  <2>2. SweptOrder(late)[o].status \in {"registered", "unassigned", "scheduled"}
    BY <1>2 DEF MayGenerate
  <2> QED BY <2>1, <2>2, SweepLives DEF Moves
<1>3. CASE o \notin req
  <2>1. order'[o] = SweptOrder(late)[o]
    BY <1>3 DEF PlannedOrder
  <2> QED BY <2>1, SweepLives DEF Moves
<1> QED BY <1>2, <1>3

(* A plan: only orders it schedules get a first mission.                   *)
LEMMA PlanTracks ==
  ASSUME TypeOK, Linked, NEW req, NEW assigned \in SUBSET req, NEW late, NEW r \in Route,
         NEW pos, NEW written \in SUBSET assigned,
         order' = PlannedOrder(req, assigned, late),
         mission' = PlannedMission(pos, written, late, r)
  PROVE  \A o \in Order : Tracks(o)
<1> SUFFICES ASSUME NEW o \in Order
             PROVE  Tracks(o)
  OBVIOUS
<1>1. CASE o \in written
  BY <1>1, SweptTypes DEF PlannedOrder, OrderRow, Tracks
<1>2. CASE o \notin written
  <2>1. mission'[o] = SweptMission(late)[o]
    BY <1>2 DEF PlannedMission
  <2> QED BY <2>1, SweepKeeps DEF Tracks, HasMission
<1> QED BY <1>1, <1>2

(* The requests that manage routes.                                        *)
LEMMA RoutesLive ==
  ASSUME TypeOK, Linked, ManageRoute
  PROVE  LifeStep
<1>1. ASSUME NEW late
      PROVE  \A o \in Order : SweptMission(late)[o].status # "none" => HasMission(o)
  BY <1>1, SweepKeeps DEF HasMission
<1>2. ASSUME NEW late, ReadRoutes(late)
      PROVE  LifeStep
  BY <1>1, <1>2, SweepLives DEF ReadRoutes, LifeStep, Moves, Tracks, HasMission
<1>3. ASSUME NEW c, NEW s, NEW req \in SUBSET Order, NEW late,
             GenerateNothing(c, s, req, late)
      PROVE  LifeStep
  BY <1>1, <1>3, PlanLives DEF GenerateNothing, LifeStep, Tracks, HasMission
<1>4. ASSUME NEW c, NEW s, NEW req \in SUBSET Order, NEW late,
             NEW assigned \in SUBSET req, NEW r \in Route,
             NEW pos \in Bijection(assigned, 1..Cardinality(assigned)),
             GenerateNew(c, s, req, late, pos, r)
      PROVE  LifeStep
  <2>1. DOMAIN pos = assigned
    BY StopsAreNaturals
  <2>2. \A o \in Order : Moves(o)
    BY <1>4, PlanLives DEF GenerateNew
  <2>3. \A o \in Order : Tracks(o)
    BY <1>4, <2>1, ReachedAreStops, PlanTracks DEF GenerateNew
  <2> QED BY <2>2, <2>3 DEF LifeStep
<1>5. ASSUME NEW c, NEW s, NEW req \in SUBSET Order, NEW late,
             NEW assigned \in SUBSET req, NEW r \in Route,
             NEW pos \in Bijection(assigned, 1..Cardinality(assigned)),
             GenerateReuse(c, s, req, late, pos, r)
      PROVE  LifeStep
  <2>1. DOMAIN pos = assigned
    BY StopsAreNaturals
  <2>2. \A o \in Order : Moves(o)
    BY <1>5, PlanLives DEF GenerateReuse
  <2>3. \A o \in Order : Tracks(o)
    BY <1>5, <2>1, ReachedAreStops, PlanTracks DEF GenerateReuse
  <2> QED BY <2>2, <2>3 DEF LifeStep
<1>6. ASSUME NEW r \in Route, CancelRoute(r)
      PROVE  LifeStep
  <2>1. ASSUME NEW o \in Order
        PROVE  Moves(o) /\ Tracks(o)
    <3>1. o \in ListedStops(r) => HasMission(o)
      BY OnRoute, ListedAreStops
    <3> QED BY <1>6, <3>1 DEF CancelRoute, Moves, Tracks, HasMission, TypeOK, OrderRow
  <2> QED BY <2>1 DEF LifeStep
<1> QED BY <1>2, <1>3, <1>4, <1>5, <1>6 DEF ManageRoute

(* The requests of a courier.                                              *)
LEMMA CouriersLive ==
  ASSUME TypeOK, Linked, NEW c \in Courier, NEW r \in Route,
         CourierOnRoute(c, r) \/ \E o \in Order : CourierAtStop(c, r, o)
  PROVE  LifeStep
<1>1. ASSUME UNCHANGED order, \A o \in Order : HasMission(o)' => HasMission(o)
      PROVE  LifeStep
  BY <1>1 DEF LifeStep, Moves, Tracks
<1>2. \A o \in Order : mission[o].route = r => HasMission(o)
  BY OnRoute
<1>3. \A m, what : m \in MissionRow => Stamped(m, what).status = m.status
  BY DEF Stamped, MissionRow
<1>4. ASSUME NEW loaded
      PROVE  /\ Scanned(loaded) \in [Order -> MissionRow]
             /\ \A o \in Order : /\ Scanned(loaded)[o].status = mission[o].status
                                 /\ Scanned(loaded)[o].route = mission[o].route
  BY StampedType DEF Scanned, Stamped, TypeOK, MissionRow
<1>5. StartLoading(c, r) => LifeStep
  BY <1>1 DEF StartLoading, HasMission
<1>6. ASSUME NEW o, NEW times, StartRoute(c, r, o, times)
      PROVE  LifeStep
  BY <1>1, <1>2, <1>6 DEF StartRoute, Started, HasMission, TypeOK
<1>7. ASSUME NEW o \in Order, StartNextDelivery(c, r, o) \/ StartNextDeliveryFails(c, r, o)
                              \/ ReturnToHub(c, r, o) \/ ArrivedAtDelivery(c, r, o)
      PROVE  LifeStep
  <2>1. UNCHANGED order /\ \E what : mission' = [mission EXCEPT ![o] = Stamped(@, what)]
    BY <1>7 DEF StartNextDelivery, StartNextDeliveryFails, ReturnToHub, ArrivedAtDelivery
  <2> QED BY <1>1, <1>3, <2>1 DEF HasMission, TypeOK
<1>15. ASSUME NEW o \in Order, CompletionFails(c, r, o) \/ FinishFails(c, r, o)
       PROVE  LifeStep
  <2>1. UNCHANGED order
        /\ mission' = [mission EXCEPT ![o] = [Stamped(@, "finished") EXCEPT !.reversed = TRUE]]
    BY <1>15 DEF CompletionFails, FinishFails, CompletedInReverse
  <2>2. mission'[o].status = mission[o].status
    BY <2>1 DEF Stamped, MissionRow, TypeOK
  <2> QED BY <1>1, <2>1, <2>2 DEF HasMission, TypeOK
<1>8. ASSUME NEW times, FinishRoute(c, r, times)
      PROVE  LifeStep
  BY <1>1, <1>3, <1>8 DEF FinishRoute, HasMission, TypeOK
<1>9. ASSUME NEW req, NEW first, NEW times, StartSelfManaged(c, r, req, first, times)
      PROVE  LifeStep
  <2>1. UNCHANGED order /\ mission' = Started(Scanned(Parcels(req)), r)
    BY <1>9 DEF StartSelfManaged
  <2> QED BY <1>1, <1>2, <1>4, <2>1 DEF Started, HasMission, MissionRow
<1>10. ASSUME NEW req, NEW loaded, NEW first,
              LoadingFails(r, req, loaded) \/ LoadedStartFails(c, r, req, first)
       PROVE  LifeStep
  <2>1. UNCHANGED order /\ \E rows : mission' = Scanned(rows)
    BY <1>10 DEF LoadingFails, LoadedStartFails
  <2> QED BY <1>1, <1>4, <2>1 DEF HasMission
<1>11. ASSUME NEW o \in Order, NEW outcome, Delivered(c, r, o, outcome)
       PROVE  LifeStep
  BY <1>2, <1>11 DEF Delivered, AcceptStop, LifeStep, Moves, Tracks, HasMission, TypeOK,
                     OrderRow
<1>12. ASSUME NEW o \in Order, NEW reason, Undelivered(c, r, o, reason)
       PROVE  LifeStep
  BY <1>2, <1>12 DEF Undelivered, AcceptStop, LifeStep, Moves, Tracks, HasMission, TypeOK,
                     OrderRow
<1>13. CASE CourierOnRoute(c, r)
  BY <1>5, <1>6, <1>7, <1>8, <1>9, <1>10, <1>13 DEF CourierOnRoute
<1>14. CASE \E o \in Order : CourierAtStop(c, r, o)
  BY <1>7, <1>11, <1>12, <1>14, <1>15 DEF CourierAtStop
<1> QED BY <1>13, <1>14

(* An order's life is the one OrderLifecycle describes: deleted only       *)
(* before it has a stop, delivered only with one, cancelled only when      *)
(* postponed or unassigned, tracked for good from when it was scheduled.   *)
THEOREM LifecycleImplemented == Spec => ImplementsLifecycle
<1>1. Init => Lifecycle!Init
  BY DEF Init, Lifecycle!Init, HasMission, NoOrder, NoMission
<1>2. ASSUME TypeOK, TypeOK', Linked, Next
      PROVE  Lifecycle!Next
  <2>1. LifeStep
    BY <1>2, OrdersLive, RoutesLive, CouriersLive DEF Next
  <2>2. \A o \in Order : HasMission(o) => HasMission(o)'
    BY <1>2, LinksStep DEF LinkStep, KeepsMission, HasMission
  <2>3. [o \in Order |-> order'[o].status] \in [Order -> Lifecycle!Statuses]
    BY <1>2 DEF TypeOK, OrderRow, OrderStatusTypes, Lifecycle!Statuses
  <2>4. \A o \in Order : Lifecycle!Move(o)
    BY <2>1 DEF LifeStep, Moves, Exists, Lifecycle!Move, Lifecycle!Plannable, Lifecycle!Absent
  <2>5. Lifecycle!Track
    BY <2>1, <2>2 DEF LifeStep, Tracks, Lifecycle!Track
  <2> QED BY <2>3, <2>4, <2>5 DEF Lifecycle!Next
<1>3. UNCHANGED vars => UNCHANGED Lifecycle!lifeVars
  BY DEF vars, Lifecycle!lifeVars, HasMission
<1>4. TypeOK /\ TypeOK' /\ Linked /\ [Next]_vars => [Lifecycle!Next]_Lifecycle!lifeVars
  BY <1>2, <1>3
<1> QED
  BY <1>1, <1>4, LinksInvariant, PTL DEF Spec, ImplementsLifecycle, Lifecycle!Spec
=============================================================================
