SPECIFICATION Spec
CONSTANTS
  Type = {car, bike}
  Value = {v1, v2}
  Extension = {jpg, png}
  Jpg = jpg
  Upload = {u1, u2, u3, u4}
  Request = {q1, q2}
  Nil = Nil
SYMMETRY Symmetries
INVARIANTS
  ProfileTypeOK
PROPERTIES
  TypesAgree
  OnlyGivenChanges
  UploadIsShown
  OwnPicture
