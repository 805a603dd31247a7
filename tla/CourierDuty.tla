----------------------------- MODULE CourierDuty -----------------------------
(***************************************************************************)
(* The state a courier reports: set_courier_state of                       *)
(* core/services/courier_state_service.py as the courier sees it.  Each    *)
(* request is the step of Dispatch it makes on orders, missions and        *)
(* routes, joined with what it writes to table courier_current_states.     *)
(***************************************************************************)
EXTENDS Dispatch

CONSTANT Reported    \* the reported states the model tells apart

VARIABLE cstate      \* table courier_current_states, keyed by its courier_id

dutyVars == <<vars, cstate>>

CourierStatesType ==
  {"idle", "arrived_at_hub", "start_loading", "start_route",
   "arrived_at_delivery", "delivered", "undelivered", "start_next_delivery",
   "return_to_hub", "finish_route"}

ASSUME ReportedAreStates == Reported \subseteq CourierStatesType

(* "none" is a courier without a row, "other" a state not told apart.      *)
CourierRow ==
  [state: CourierStatesType \cup {"none", "other"}, delivered: SUBSET Order]

NoState == [state |-> "none", delivered |-> {}]

DutyInit == Init /\ cstate = [c \in Courier |-> NoState]

As(st) == IF st \in Reported THEN st ELSE "other"

(* The first request of a courier creates its row, whatever comes of the   *)
(* request, with the order it names already in the delivered list.         *)
Known(c, st, ref) ==
  IF cstate[c].state = "none" THEN [state |-> As(st), delivered |-> ref] ELSE cstate[c]

Reports(c, st, ref) ==
  cstate' = [cstate EXCEPT ![c] = [Known(c, st, ref) EXCEPT !.state = As(st)]]

OnlyKnown(c, st, ref) == cstate' = [cstate EXCEPT ![c] = Known(c, st, ref)]

(* A request that is turned down: only a first one leaves a trace.         *)
RejectedRequest(c, st, ref) ==
  /\ cstate[c].state = "none"
  /\ OnlyKnown(c, st, ref)
  /\ UNCHANGED vars

Waypoint(c, r, st, ref) ==
  /\ AcceptRoute(c, r)
  /\ Reports(c, st, ref)
  /\ UNCHANGED vars

(* The order of the request is required but never looked up.               *)
ReportLoading(c, r, o) == StartLoading(c, r) /\ Reports(c, "start_loading", {o})

(* With reversed times the stored route cannot be read back and the        *)
(* request fails before the courier's state is stored.                     *)
StartReported(c, o, times) ==
  IF times = "reversed" THEN OnlyKnown(c, "start_route", {o})
  ELSE Reports(c, "start_route", {o})

ReportRouteStart(c, r, o) ==
  \E times \in ActualTimes :
    /\ StartReported(c, o, times)
    /\ \/ StartRoute(c, r, o, times)
       \/ \E req \in SUBSET Order : StartSelfManaged(c, r, req, o, times)

ReportFailedStart(c, r, o) ==
  /\ OnlyKnown(c, "start_route", {o})
  /\ \E req \in SUBSET Order : LoadedStartFails(c, r, req, o)

ReportArrival(c, r, o) ==
  ArrivedAtDelivery(c, r, o) /\ Reports(c, "arrived_at_delivery", {o})

(* Mutant of ReportDelivered: only the state is stored.                    *)
ReportDeliveredUnlisted(c, r, o) ==
  /\ \E outcome \in Outcomes : Delivered(c, r, o, outcome)
  /\ Reports(c, "delivered", {o})

ReportDelivered(c, r, o) ==
  /\ \E outcome \in Outcomes : Delivered(c, r, o, outcome)
  /\ cstate' = [cstate EXCEPT ![c] =
       [state |-> As("delivered"),
        delivered |-> Known(c, "delivered", {o}).delivered \cup {o}]]

ReportUndelivered(c, r, o) ==
  /\ \E reason \in UndeliveredMissionStatus : Undelivered(c, r, o, reason)
  /\ Reports(c, "undelivered", {o})

ReportNextDelivery(c, r, o) ==
  /\ StartNextDelivery(c, r, o) \/ StartNextDeliveryFails(c, r, o)
  /\ IF NextFails(r, o)
     THEN OnlyKnown(c, "start_next_delivery", {o})
     ELSE Reports(c, "start_next_delivery", {o})

ReportReturn(c, r, o) == ReturnToHub(c, r, o) /\ Reports(c, "return_to_hub", {o})

(* A request that ends where it completed a mission stores no state.       *)
ReportFailedCompletion(c, r, o) ==
  \/ /\ CompletionFails(c, r, o)
     /\ \E st \in {"start_next_delivery", "return_to_hub"} : OnlyKnown(c, st, {o})
  \/ /\ FinishFails(c, r, o)
     /\ \E ref \in {{}} \cup {{p} : p \in Order} : OnlyKnown(c, "finish_route", ref)

(* The courier is set idle, its list cleared, and then the state of the    *)
(* request is stored, unless the stored route cannot be read back.         *)
ReportFinish(c, r) ==
  \E times \in ActualTimes :
    /\ FinishRoute(c, r, times)
    /\ cstate' = [cstate EXCEPT ![c] =
         [state |-> As(IF times = "reversed" THEN "idle" ELSE "finish_route"),
          delivered |-> {}]]

Report(c) ==
  \/ \E st \in CourierStatesType, ref \in {{}} \cup {{o} : o \in Order} :
       RejectedRequest(c, st, ref)
  \/ \E r \in Route, st \in {"idle", "arrived_at_hub"},
        ref \in {{}} \cup {{o} : o \in Order} : Waypoint(c, r, st, ref)
  \/ \E r \in Route : ReportFinish(c, r)
  \/ \E r \in Route, o \in Order :
       \/ ReportLoading(c, r, o)
       \/ ReportRouteStart(c, r, o)
       \/ ReportFailedStart(c, r, o)
       \/ ReportArrival(c, r, o)
       \/ ReportDelivered(c, r, o)
       \/ ReportUndelivered(c, r, o)
       \/ ReportNextDelivery(c, r, o)
       \/ ReportReturn(c, r, o)
       \/ ReportFailedCompletion(c, r, o)

DutyNext ==
  \/ \E c \in Courier : Report(c)
  \/ (ManageOrder \/ ManageRoute) /\ UNCHANGED cstate
  \/ \E c \in Courier, r \in Route, req \in SUBSET Order : \E loaded \in SUBSET req :
       LoadingFails(r, req, loaded) /\ UNCHANGED cstate

DutySpec == DutyInit /\ [][DutyNext]_dutyVars

-----------------------------------------------------------------------------
(* The courier's table holds one row per courier, of known states.         *)
DutyTypeOK == cstate \in [Courier -> CourierRow]

(* Every parcel a courier handed over stays in its list until the courier  *)
(* itself finishes a route: a metered delivery adds it in the same         *)
(* request, and no sweep, cancellation, postponement or planning, and no   *)
(* request of another courier, takes one out.                              *)
DeliveriesKeptListed ==
  [][\A c \in Courier :
       /\ \A o \in Order : usage'[c] > usage[c] /\ order[o] # order'[o]
            => o \in cstate'[c].delivered
       /\ \/ cstate[c].delivered \subseteq cstate'[c].delivered
          \/ cstate'[c] \in [state: {As("finish_route"), As("idle")},
                             delivered: {{}}]]_dutyVars

(* Claim of courier_state_service.py:425, "Reset courier state": a courier *)
(* whose route was just finished by its request is idle.                   *)
FinishResetsState ==
  [][\A c \in Courier :
       (\E r \in Route : ReportFinish(c, r)) => cstate'[c].state = "idle"]_dutyVars
=============================================================================
