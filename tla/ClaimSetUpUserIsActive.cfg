SPECIFICATION Spec
CONSTANTS
  Token = {t1}
  Code = {k1}
  Password = {p1}
  Request = {q1}
  Nil = Nil
  Chosen = {}
  MaxRequests = 5
  MaxStops = 0
INVARIANT
  SetUpUserIsActive
CHECK_DEADLOCK FALSE
