SPECIFICATION Spec
CONSTANTS
  Events = {e1}
  Orders = {}
  Subjects = {c1}
  Versions = {v1, v2, v3}
  MaxRotations = 2
  MaxMatches = 1
  NoVersion = NoVersion
INVARIANT DigestsAreAuthorized
SYMMETRY RotationSymmetry
CHECK_DEADLOCK FALSE
