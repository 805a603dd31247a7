SPECIFICATION Spec
CONSTANTS
  Token = {t1}
  Code = {k1}
  Password = {p1, p2}
  Request = {q1, q2}
  Nil = Nil
  Chosen = {"inactive"}
  MaxRequests = 5
  MaxStops = 1
INVARIANTS
  AccountsTypeOK
  MarksAreTrue
  UsedCodeChangedPassword
PROPERTIES
  ResetEndsSessions
  LetterIsNotWasted
  VerificationStays
CHECK_DEADLOCK FALSE
