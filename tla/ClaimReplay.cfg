SPECIFICATION ClaimSpec
CONSTANTS
  NumEvents = 2
  RowId <- MCRowId
  Partial = {1}
  o1 = o1
  Orders <- MCOrders
  EventsIn <- MCEventsIn
  OrdersIn <- MCOrdersIn
  Scope <- MCScope
  Links <- MCLinks
  Contents <- MCContents
  Edits <- MCEdits
  Erased = {2}
  MaxRuns = 2
  NoOrder = NoOrder
  Idle = Idle
  MaxGraphs = 2
  MaxRetries = 1
  ClaimCounts = {0, 1}
INVARIANTS TypeOK ConclusionsAgree CurrentnessAgrees ClaimCountsAgree
PROPERTIES SuccessIsCovered
CHECK_DEADLOCK FALSE
