SPECIFICATION UnleasedSpec
CONSTANTS
  MaxRuns = 1
  Requests = {oc}
  OrderCore = {oc}
  Bindings = {b1}
  NoBinding = NoBinding
  Kinds = 2
  MaxPages = 2
  BatchPages = 1
  MaxAttempts = 2
  Lease = 1
  Concurrency = 2
  Callers = {manual}
  Manual = manual
  First = First
  NoRun = NoRun
INVARIANTS
  SuccessIsWholeWindow
PROPERTIES
  ChainCarriesRun
CHECK_DEADLOCK FALSE
