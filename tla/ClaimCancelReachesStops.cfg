SPECIFICATION Spec
CONSTANTS
  c1 = c1
  c2 = c2
  o1 = o1
  o2 = o2
  o3 = o3
  r1 = r1
  r2 = r2
  s1 = s1
  s2 = s2
  hub = hub
  hub2 = hub2
  Nil = Nil
  Courier = {c1}
  Terminal = {hub, hub2}
  Shift = {s1}
  Order = {o1, o2}
  Route = {r1, r2}
  TerminalOf <- OneHub
  FinishOf <- FinishTimes
  Limit = 2
  MaxUsage = 0
  MaxReversed = 1
  Stamps = {}
  Outcomes = {"delivered"}
SYMMETRY Ids
PROPERTIES
  CancelReachesStops
CHECK_DEADLOCK FALSE
