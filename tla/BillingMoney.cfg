SPECIFICATION Spec
CONSTANTS
  s1 = s1
  s2 = s2
  Sub = {s1}
  Free = free
  Request = {q1}
  Nil = Nil
  EventsOf <- Everything
  MaxDeliveries = 2
  MaxStops = 1
INVARIANTS
  AnsweredIsRecorded
PROPERTY
  MoneyIsRecorded
CHECK_DEADLOCK FALSE
