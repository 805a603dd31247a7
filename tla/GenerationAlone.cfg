SPECIFICATION Spec
CONSTANTS
  Order = {o1, o2}
  Route = {r1, r2}
  Request = {p1, reader}
  Reader = reader
  Nil = Nil
  Reported = {}
  MaxStops = 0
PROPERTIES
  LostWritesNeedOverlap
  PlanEndsWhole
  FirstStopsFit
  StopsKeepTheirRoute
