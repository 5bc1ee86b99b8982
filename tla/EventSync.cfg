SPECIFICATION SupervisedSpec
CONSTANTS
  MaxRuns = 2
  Requests = {oc, jr}
  OrderCore = {oc}
  Bindings = {b1, b2}
  NoBinding = NoBinding
  Kinds = 2
  MaxPages = 1
  BatchPages = 1
  MaxAttempts = 1
  Lease = 1
  Concurrency = 2
  Callers = {manual, nightly}
  Manual = manual
  First = First
  NoRun = NoRun
INVARIANTS
  TypeOK
  OneRunningEventRun
  RunningUnderApproval
  OneBindingPerRun
PROPERTIES
  RunHistoryIsFinal
  ImplementsLedger
  EveryRunEnds
