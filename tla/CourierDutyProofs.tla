-------------------------- MODULE CourierDutyProofs --------------------------
(***************************************************************************)
(* Theorems about CourierDuty for any couriers, orders and routes: its     *)
(* requests are requests of Dispatch and keep what it promises, and the    *)
(* list of delivered orders is kept.                                       *)
(***************************************************************************)
EXTENDS CourierDuty, DispatchProofs

(* What a courier reports, whatever the request, is a step of Dispatch or  *)
(* leaves its tables alone.                                                *)
LEMMA ReportIsDispatch ==
  ASSUME NEW c \in Courier, Report(c)
  PROVE  Next \/ UNCHANGED vars
<1>1. ASSUME NEW st, NEW ref,
             RejectedRequest(c, st, ref) \/ \E r \in Route : Waypoint(c, r, st, ref)
      PROVE  UNCHANGED vars
  BY <1>1 DEF RejectedRequest, Waypoint
<1>2. ASSUME NEW r \in Route, ReportFinish(c, r)
      PROVE  Next
  BY <1>2 DEF ReportFinish, Next, CourierOnRoute
<1>3. ASSUME NEW r \in Route, NEW o \in Order,
             ReportLoading(c, r, o) \/ ReportReturn(c, r, o)
      PROVE  Next
  BY <1>3 DEF ReportLoading, ReportReturn, Next, CourierOnRoute
<1>4. ASSUME NEW r \in Route, NEW o \in Order, ReportRouteStart(c, r, o)
      PROVE  Next
  <2>1. PICK times \in ActualTimes :
          \/ StartRoute(c, r, o, times)
          \/ \E req \in SUBSET Order : StartSelfManaged(c, r, req, o, times)
    BY <1>4 DEF ReportRouteStart
  <2>2. CASE StartRoute(c, r, o, times)
    BY <2>2 DEF Next, CourierOnRoute
  <2>3. ASSUME NEW req \in SUBSET Order, StartSelfManaged(c, r, req, o, times)
        PROVE  Next
    <3>1. o \in req
      BY <2>3 DEF StartSelfManaged
    <3> QED BY <2>3, <3>1 DEF Next, CourierOnRoute
  <2> QED BY <2>1, <2>2, <2>3
<1>5. ASSUME NEW r \in Route, NEW o \in Order, ReportFailedStart(c, r, o)
      PROVE  Next
  <2>1. PICK req \in SUBSET Order : LoadedStartFails(c, r, req, o)
    BY <1>5 DEF ReportFailedStart
  <2>2. o \in req
    BY <2>1 DEF LoadedStartFails
  <2> QED BY <2>1, <2>2 DEF Next, CourierOnRoute
<1>6. ASSUME NEW r \in Route, NEW o \in Order,
             \/ ReportArrival(c, r, o)
             \/ ReportDelivered(c, r, o)
             \/ ReportUndelivered(c, r, o)
             \/ ReportNextDelivery(c, r, o)
      PROVE  Next
  BY <1>6 DEF ReportArrival, ReportDelivered, ReportUndelivered, ReportNextDelivery,
              Next, CourierAtStop
<1>7. ASSUME NEW r \in Route, NEW o \in Order, ReportFailedCompletion(c, r, o)
      PROVE  Next
  BY <1>7 DEF ReportFailedCompletion, Next, CourierAtStop
<1> QED BY <1>1, <1>2, <1>3, <1>4, <1>5, <1>6, <1>7 DEF Report

(* The tables of Dispatch move as Dispatch allows, by construction: the    *)
(* theorems of Dispatch hold here too.                                     *)
LEMMA DutyImplementsDispatch == DutySpec => Spec
<1>1. ASSUME DutyNext \/ UNCHANGED dutyVars
      PROVE  Next \/ UNCHANGED vars
  <2>1. ASSUME NEW c \in Courier, Report(c)
        PROVE  Next \/ UNCHANGED vars
    BY <2>1, ReportIsDispatch
  <2>2. CASE ManageOrder \/ ManageRoute
    BY <2>2 DEF Next
  <2>3. ASSUME NEW c \in Courier, NEW r \in Route, NEW req \in SUBSET Order,
               NEW loaded \in SUBSET req, LoadingFails(r, req, loaded)
        PROVE  Next
    BY <2>3 DEF Next, CourierOnRoute
  <2> QED BY <1>1, <2>1, <2>2, <2>3 DEF DutyNext, dutyVars
<1> QED BY <1>1, PTL DEF DutySpec, DutyInit, Spec

-----------------------------------------------------------------------------
(* The row a request finds or creates, and stores, is a row of the table.  *)
LEMMA KnownRow ==
  ASSUME DutyTypeOK, NEW c \in Courier, NEW st \in CourierStatesType, NEW ref \in SUBSET Order
  PROVE  /\ As(st) \in CourierStatesType \cup {"other"}
         /\ Known(c, st, ref) \in CourierRow
BY DEF DutyTypeOK, As, Known, CourierRow

(* What a courier reports keeps the table of the couriers' states typed.   *)
LEMMA ReportKeepsRows ==
  ASSUME DutyTypeOK, NEW c \in Courier, Report(c)
  PROVE  DutyTypeOK'
<1>1. ASSUME NEW st \in CourierStatesType, NEW ref \in SUBSET Order,
             Reports(c, st, ref) \/ OnlyKnown(c, st, ref)
      PROVE  DutyTypeOK'
  BY <1>1, KnownRow DEF Reports, OnlyKnown, DutyTypeOK, CourierRow
<1>2. \A o \in Order : {o} \in SUBSET Order
  OBVIOUS
<1>3. {"idle", "arrived_at_hub", "start_loading", "start_route", "arrived_at_delivery",
       "undelivered", "start_next_delivery", "return_to_hub", "finish_route", "delivered"}
        \subseteq CourierStatesType
  BY DEF CourierStatesType
<1>4. ASSUME NEW st \in CourierStatesType, NEW ref \in {{}} \cup {{o} : o \in Order},
             RejectedRequest(c, st, ref) \/ \E r \in Route : Waypoint(c, r, st, ref)
      PROVE  DutyTypeOK'
  <2>1. ref \in SUBSET Order
    OBVIOUS
  <2> QED BY <1>1, <1>4, <2>1 DEF RejectedRequest, Waypoint
<1>5. ASSUME NEW r \in Route, ReportFinish(c, r)
      PROVE  DutyTypeOK'
  <2>1. PICK times \in ActualTimes : cstate' = [cstate EXCEPT ![c] =
          [state |-> As(IF times = "reversed" THEN "idle" ELSE "finish_route"),
           delivered |-> {}]]
    BY <1>5 DEF ReportFinish
  <2>2. As(IF times = "reversed" THEN "idle" ELSE "finish_route")
          \in CourierStatesType \cup {"other"}
    BY <1>3 DEF As
  <2> QED BY <2>1, <2>2 DEF DutyTypeOK, CourierRow
<1>6. ASSUME NEW r \in Route, NEW o \in Order, ReportDelivered(c, r, o)
      PROVE  DutyTypeOK'
  <2>1. /\ Known(c, "delivered", {o}) \in CourierRow
        /\ As("delivered") \in CourierStatesType \cup {"other"}
    BY KnownRow, <1>2, <1>3
  <2>2. Known(c, "delivered", {o}).delivered \cup {o} \in SUBSET Order
    BY <2>1 DEF CourierRow
  <2> QED BY <1>6, <2>1, <2>2 DEF ReportDelivered, DutyTypeOK, CourierRow
<1>7. ASSUME NEW r \in Route, NEW o \in Order,
             \/ ReportLoading(c, r, o)
             \/ ReportRouteStart(c, r, o)
             \/ ReportFailedStart(c, r, o)
             \/ ReportArrival(c, r, o)
             \/ ReportUndelivered(c, r, o)
             \/ ReportNextDelivery(c, r, o)
             \/ ReportReturn(c, r, o)
             \/ ReportFailedCompletion(c, r, o)
      PROVE  DutyTypeOK'
  BY <1>1, <1>2, <1>3, <1>7
     DEF ReportFailedCompletion,
         ReportLoading, ReportRouteStart, StartReported, ReportFailedStart, ReportArrival,
         ReportUndelivered, ReportNextDelivery, ReportReturn
<1> QED BY <1>3, <1>4, <1>5, <1>6, <1>7 DEF Report

(* The couriers' table holds one row per courier, of known states and      *)
(* orders, in every behaviour.                                             *)
THEOREM DutyTypeCorrect == DutySpec => []DutyTypeOK
<1>1. DutyInit => DutyTypeOK
  BY DEF DutyInit, DutyTypeOK, NoState, CourierRow
<1>2. ASSUME DutyTypeOK, DutyNext \/ UNCHANGED dutyVars
      PROVE  DutyTypeOK'
  <2>1. ASSUME UNCHANGED cstate
        PROVE  DutyTypeOK'
    BY <1>2, <2>1 DEF DutyTypeOK
  <2> QED BY <1>2, <2>1, ReportKeepsRows DEF DutyNext, dutyVars
<1> QED BY <1>1, <1>2, PTL DEF DutySpec

-----------------------------------------------------------------------------
(* A courier without a row has delivered nothing: needed to see that the   *)
(* row of a first request takes no order out of a list.                    *)
NoRowNoList == \A c \in Courier : cstate[c].state = "none" => cstate[c].delivered = {}

DutyInv == TypeOK /\ DutyTypeOK /\ NoRowNoList

(* How one courier's row may change.                                       *)
ListKept(c) ==
  /\ cstate'[c].state = "none" => cstate'[c] = cstate[c]
  /\ \/ cstate[c].delivered \subseteq cstate'[c].delivered
     \/ cstate'[c] \in [state: {As("finish_route"), As("idle")}, delivered: {{}}]

(* Every request keeps the lists, and a courier's first row starts its own. *)
LEMMA ReportKeepsLists ==
  ASSUME DutyInv, NEW c \in Courier, Report(c)
  PROVE  \A d \in Courier : ListKept(d)
<1>. USE DEF DutyInv
<1>1. ASSUME NEW st \in CourierStatesType, NEW ref \in SUBSET Order,
             Reports(c, st, ref) \/ OnlyKnown(c, st, ref)
      PROVE  \A d \in Courier : ListKept(d)
  <2>1. As(st) # "none"
    BY <1>1 DEF As, CourierStatesType
  <2>2. /\ cstate[c].delivered \subseteq Known(c, st, ref).delivered
        /\ Known(c, st, ref).state # "none"
    BY <2>1 DEF Known, NoRowNoList
  <2>3. Known(c, st, ref) \in CourierRow
    BY KnownRow
  <2>4. cstate'[c].state # "none" /\ cstate[c].delivered \subseteq cstate'[c].delivered
    BY <1>1, <2>1, <2>2, <2>3 DEF Reports, OnlyKnown, DutyTypeOK, CourierRow
  <2>5. \A d \in Courier \ {c} : cstate'[d] = cstate[d]
    BY <1>1 DEF Reports, OnlyKnown, DutyTypeOK
  <2> QED BY <2>4, <2>5 DEF ListKept
<1>2. \A o \in Order : {o} \in SUBSET Order
  OBVIOUS
<1>3. {"idle", "arrived_at_hub", "start_loading", "start_route", "arrived_at_delivery",
       "undelivered", "start_next_delivery", "return_to_hub", "finish_route", "delivered"}
        \subseteq CourierStatesType
  BY DEF CourierStatesType
<1>4. ASSUME NEW st \in CourierStatesType, NEW ref \in {{}} \cup {{o} : o \in Order},
             RejectedRequest(c, st, ref) \/ \E r \in Route : Waypoint(c, r, st, ref)
      PROVE  \A d \in Courier : ListKept(d)
  <2>1. ref \in SUBSET Order
    OBVIOUS
  <2> QED BY <1>1, <1>4, <2>1 DEF RejectedRequest, Waypoint
<1>5. ASSUME NEW r \in Route, ReportFinish(c, r)
      PROVE  \A d \in Courier : ListKept(d)
  <2>1. PICK times \in ActualTimes : cstate' = [cstate EXCEPT ![c] =
          [state |-> As(IF times = "reversed" THEN "idle" ELSE "finish_route"),
           delivered |-> {}]]
    BY <1>5 DEF ReportFinish
  <2>2. /\ As(IF times = "reversed" THEN "idle" ELSE "finish_route")
             \in {As("finish_route"), As("idle")}
        /\ As(IF times = "reversed" THEN "idle" ELSE "finish_route") # "none"
    BY DEF As
  <2>3. /\ cstate'[c].state # "none"
        /\ cstate'[c] \in [state: {As("finish_route"), As("idle")}, delivered: {{}}]
    BY <2>1, <2>2 DEF DutyTypeOK
  <2>4. \A d \in Courier \ {c} : cstate'[d] = cstate[d]
    BY <2>1 DEF DutyTypeOK
  <2> QED BY <2>3, <2>4 DEF ListKept
<1>6. ASSUME NEW r \in Route, NEW o \in Order, ReportDelivered(c, r, o)
      PROVE  \A d \in Courier : ListKept(d)
  <2>1. /\ cstate[c].delivered \subseteq Known(c, "delivered", {o}).delivered
        /\ As("delivered") # "none"
    BY DEF Known, As, NoRowNoList
  <2>2. /\ cstate'[c].state # "none"
        /\ cstate[c].delivered \subseteq cstate'[c].delivered
    BY <1>6, <2>1 DEF ReportDelivered, DutyTypeOK
  <2>3. \A d \in Courier \ {c} : cstate'[d] = cstate[d]
    BY <1>6 DEF ReportDelivered, DutyTypeOK
  <2> QED BY <2>2, <2>3 DEF ListKept
<1>7. ASSUME NEW r \in Route, NEW o \in Order,
             \/ ReportLoading(c, r, o)
             \/ ReportRouteStart(c, r, o)
             \/ ReportFailedStart(c, r, o)
             \/ ReportArrival(c, r, o)
             \/ ReportUndelivered(c, r, o)
             \/ ReportNextDelivery(c, r, o)
             \/ ReportReturn(c, r, o)
             \/ ReportFailedCompletion(c, r, o)
      PROVE  \A d \in Courier : ListKept(d)
  BY <1>1, <1>2, <1>3, <1>7
     DEF ReportFailedCompletion,
         ReportLoading, ReportRouteStart, StartReported, ReportFailedStart, ReportArrival,
         ReportUndelivered, ReportNextDelivery, ReportReturn
<1> QED BY <1>3, <1>4, <1>5, <1>6, <1>7 DEF Report

(* Only a delivery is metered.                                             *)
LEMMA OnlyDeliveriesMetered ==
  ASSUME NEW c \in Courier, Report(c)
  PROVE  \/ UNCHANGED usage
         \/ \E r \in Route, o \in Order : ReportDelivered(c, r, o)
<1>1. \A st, ref : RejectedRequest(c, st, ref) => UNCHANGED usage
  BY DEF RejectedRequest, vars
<1>2. \A r, st, ref : Waypoint(c, r, st, ref) => UNCHANGED usage
  BY DEF Waypoint, vars
<1>3. \A r : ReportFinish(c, r) => UNCHANGED usage
  BY DEF ReportFinish, FinishRoute
<1>4. \A r, o : ReportLoading(c, r, o) => UNCHANGED usage
  BY DEF ReportLoading, StartLoading
<1>5. \A r, o : ReportRouteStart(c, r, o) => UNCHANGED usage
  BY DEF ReportRouteStart, StartRoute, StartSelfManaged
<1>6. \A r, o : ReportFailedStart(c, r, o) => UNCHANGED usage
  BY DEF ReportFailedStart, LoadedStartFails
<1>7. \A r, o : ReportArrival(c, r, o) \/ ReportUndelivered(c, r, o) => UNCHANGED usage
  BY DEF ReportArrival, ArrivedAtDelivery, ReportUndelivered, Undelivered
<1>8. \A r, o : ReportNextDelivery(c, r, o) \/ ReportReturn(c, r, o) => UNCHANGED usage
  BY DEF ReportNextDelivery, StartNextDelivery, StartNextDeliveryFails, ReportReturn,
         ReturnToHub
<1>9. \A r, o : ReportFailedCompletion(c, r, o) => UNCHANGED usage
  BY DEF ReportFailedCompletion, CompletionFails, FinishFails, CompletedInReverse
<1> QED BY <1>1, <1>2, <1>3, <1>4, <1>5, <1>6, <1>7, <1>8, <1>9 DEF Report

(* A request that meters a delivery lists the order it delivered.          *)
LEMMA MeteredIsListed ==
  ASSUME DutyInv, NEW c \in Courier, NEW r \in Route, NEW o \in Order,
         ReportDelivered(c, r, o)
  PROVE  \A d \in Courier, p \in Order :
           usage'[d] > usage[d] /\ order[p] # order'[p] => p \in cstate'[d].delivered
<1>. USE DEF DutyInv
<1>1. PICK outcome \in Outcomes : Delivered(c, r, o, outcome)
  BY DEF ReportDelivered
<1>2. \A d \in Courier \ {c} : usage'[d] = usage[d] /\ usage[d] \in Nat
  BY <1>1 DEF Delivered, TypeOK
<1>3. \A p \in Order \ {o} : order'[p] = order[p]
  BY <1>1 DEF Delivered, TypeOK
<1>4. o \in cstate'[c].delivered
  BY DEF ReportDelivered, DutyTypeOK
<1>5. \A d \in Courier \ {c} : ~(usage'[d] > usage[d])
  BY <1>2
<1> QED BY <1>3, <1>4, <1>5

(* No order leaves a courier's list but by its own finishing of a route,   *)
(* and no delivery is metered without being listed, in every behaviour.    *)
THEOREM DeliveriesStayListed == DutySpec => DeliveriesKeptListed
<1>1. DutyInit => NoRowNoList
  BY DEF DutyInit, NoRowNoList, NoState
<1>2. ASSUME DutyInv, [DutyNext]_dutyVars
      PROVE  \A c \in Courier : ListKept(c)
  <2>1. ASSUME UNCHANGED cstate
        PROVE  \A c \in Courier : ListKept(c)
    BY <2>1 DEF ListKept
  <2> QED BY <1>2, <2>1, ReportKeepsLists DEF DutyNext, dutyVars
<1>3. ASSUME DutyInv, [DutyNext]_dutyVars
      PROVE  NoRowNoList'
  BY <1>2, <1>3 DEF NoRowNoList, ListKept, DutyInv
<1>4. ASSUME DutyInv, [DutyNext]_dutyVars
      PROVE  \A c \in Courier, o \in Order :
               usage'[c] > usage[c] /\ order[o] # order'[o] => o \in cstate'[c].delivered
  <2>1. ASSUME UNCHANGED usage
        PROVE  \A c \in Courier : ~(usage'[c] > usage[c])
    BY <1>4, <2>1 DEF DutyInv, TypeOK
  <2>2. CASE (ManageOrder \/ ManageRoute) \/ UNCHANGED dutyVars
    <3>1. UNCHANGED usage
      BY <2>2, ManagingMetersNothing DEF dutyVars, vars
    <3> QED BY <2>1, <3>1
  <2>3. ASSUME NEW r \in Route, NEW req \in SUBSET Order,
               NEW loaded \in SUBSET req, LoadingFails(r, req, loaded)
        PROVE  UNCHANGED usage
    BY <2>3 DEF LoadingFails
  <2>4. ASSUME NEW c \in Courier, Report(c)
        PROVE  \A d \in Courier, o \in Order :
                 usage'[d] > usage[d] /\ order[o] # order'[o] => o \in cstate'[d].delivered
    BY <1>4, <2>1, <2>4, OnlyDeliveriesMetered, MeteredIsListed
  <2> QED BY <1>4, <2>1, <2>2, <2>3, <2>4 DEF DutyNext
<1>5. ASSUME DutyInv, [DutyNext]_dutyVars
      PROVE  [\A c \in Courier :
               /\ \A o \in Order : usage'[c] > usage[c] /\ order[o] # order'[o]
                    => o \in cstate'[c].delivered
               /\ \/ cstate[c].delivered \subseteq cstate'[c].delivered
                  \/ cstate'[c] \in [state: {As("finish_route"), As("idle")},
                                     delivered: {{}}]]_dutyVars
  BY <1>2, <1>4, <1>5 DEF ListKept
<1>6. DutySpec => []TypeOK
  BY DutyImplementsDispatch, TypeCorrect, PTL
<1> QED
  BY <1>1, <1>3, <1>5, <1>6, DutyTypeCorrect, PTL
     DEF DutySpec, DutyInv, DeliveriesKeptListed

-----------------------------------------------------------------------------
(* Whatever couriers report, and in whatever order, every promise of        *)
(* Dispatch is kept: missions stay with their orders and routes, a courier  *)
(* has one scheduled route, deliveries are metered, nothing begun goes back,*)
(* a mission that cannot be read stays as it is                            *)
(* (courier_state_service.py:48-431).                                      *)
THEOREM ReportsKeepPromises ==
  DutySpec =>
    /\ [](TypeOK /\ RegisteredHasNoMission /\ MissionOwnership /\ CurrentMissionOnRoute)
    /\ [](OneScheduledRoute /\ DeliveriesMetered)
    /\ NeverBackToScheduled /\ MissionPinned /\ UnreadableForGood
    /\ ImplementsLifecycle
BY DutyImplementsDispatch, TypeCorrect, DeletionTakesNoStop, MissionsOwned,
   CurrentMissionIsOnRoute, ScheduledRouteIsOne, NoDeliveryUnmetered, BegunRoutesMoveOn,
   MissionsPinned, UnreadableStays, LifecycleImplemented, PTL
=============================================================================
