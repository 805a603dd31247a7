SPECIFICATION Spec
CONSTANTS
  Shift = {h1, h2, h3}
  Recipient = {r1, r2}
  Order = {o1, o2}
  Request = {q1, q2}
  Nil = Nil
  LastHour = 2
SYMMETRY Symmetries
INVARIANTS
  IntakeTypeOK
  ShiftsPileUp
PROPERTIES
  NoAddressReturns
  OneRowUnlessRaced
CHECK_DEADLOCK FALSE
