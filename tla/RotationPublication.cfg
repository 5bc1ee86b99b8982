SPECIFICATION Spec
CONSTANTS
  Events = {e1}
  Orders = {}
  Subjects = {c1}
  Versions = {v1, v2}
  MaxRotations = 1
  MaxMatches = 1
  NoVersion = NoVersion
INVARIANT ResultsUseKeysInForce
SYMMETRY RotationSymmetry
CHECK_DEADLOCK FALSE
