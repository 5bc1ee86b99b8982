SPECIFICATION Spec
CONSTANTS
  Events = {e1}
  Orders = {o1}
  Subjects = {c1, c2}
  Versions = {v1, v2}
  MaxRotations = 2
  MaxMatches = 1
  NoVersion = NoVersion
INVARIANTS
  TypeOK
  GateFollowsRotation
  ErasedStayErased
  RollbackIsSafe
PROPERTIES
  CutoversKeepSources
  ImplementsKeyRing
SYMMETRY RotationSymmetry
CHECK_DEADLOCK FALSE
