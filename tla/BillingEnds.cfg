SPECIFICATION Spec
CONSTANTS
  s1 = s1
  s2 = s2
  Sub = {s1, s2}
  Free = free
  Request = {q1, q2}
  Nil = Nil
  EventsOf <- Ends
  MaxDeliveries = 1
  MaxStops = 1
INVARIANTS
  BillingTypeOK
  NeverOverMetered
  FreeIsForGood
PROPERTIES
  CanceledStays
  EndingArrives
CHECK_DEADLOCK FALSE
