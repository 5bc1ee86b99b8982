SPECIFICATION Spec
CONSTANTS
  Events = {e1}
  Orders = {o1}
  Subjects = {c1, c2}
  Versions = {v1, v2}
  MaxRotations = 1
  MaxMatches = 1
  NoVersion = NoVersion
INVARIANT SuppressedWereErased
SYMMETRY RotationSymmetry
CHECK_DEADLOCK FALSE
