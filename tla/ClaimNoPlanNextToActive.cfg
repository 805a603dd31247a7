SPECIFICATION Spec
CONSTANTS
  Order = {o1}
  Route = {r1, r2}
  Request = {p1, p2, reader}
  Reader = reader
  Nil = Nil
  Reported = {"ongoing", "finished"}
  MaxStops = 1
PROPERTIES
  NoPlanNextToActive
CHECK_DEADLOCK FALSE
