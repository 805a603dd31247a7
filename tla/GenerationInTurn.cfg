SPECIFICATION TurnsSpec
CONSTANTS
  Order = {o1, o2}
  Route = {r1, r2}
  Request = {p1, reader}
  Reader = reader
  Nil = Nil
  Reported = {"ongoing", "finished"}
  MaxStops = 1
PROPERTIES
  RequestsAreWhole
