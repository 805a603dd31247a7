SPECIFICATION Spec
CONSTANTS
  Order = {o1}
  Route = {r1, r2}
  Request = {p1, reader}
  Reader = reader
  Nil = Nil
  Reported = {"ongoing"}
  MaxStops = 2
INVARIANTS
  TypeOK
  TrackedFirst
PROPERTIES
  ClosingLeavesNoOpenStop
  OrdersMoveOn
  UndisturbedPlanFits
  OverdueRoutesClose
