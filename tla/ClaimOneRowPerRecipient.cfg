SPECIFICATION Spec
CONSTANTS
  Shift = {h1}
  Recipient = {r1, r2}
  Order = {o1, o2}
  Request = {q1}
  Nil = Nil
  LastHour = 1
INVARIANT
  OneRowPerRecipient
