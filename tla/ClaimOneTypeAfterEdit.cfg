SPECIFICATION Spec
CONSTANTS
  Type = {car, bike}
  Value = {v1}
  Extension = {jpg}
  Jpg = jpg
  Upload = {u1}
  Request = {q1}
  Nil = Nil
PROPERTY
  OneTypeAfterEdit
CHECK_DEADLOCK FALSE
