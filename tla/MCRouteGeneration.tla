------------------------- MODULE MCRouteGeneration -------------------------
(* Instances of RouteGeneration, for requests that overlap and for requests *)
(* in turn, for TLC: ids are model values of the cfg.                       *)
EXTENDS RouteTurns

(* "Cannot generate route while another route is active" (the error of      *)
(* route_service.py:451): no plan is written next to a route being driven.  *)
NoPlanNextToActive ==
  [][\A p \in Request :
       req[p].pc = "plan_route" /\ req'[p].pc = "plan_orders" =>
         \A r \in Route : Readable(r) => route[r].status \notin Active]_vars
=============================================================================
