SPECIFICATION FairSpec
CONSTANTS
  MaxRuns = 2
  MaxWorkers = 2
  LastPage = 2
  PageEvents <- Overlapping
  ProfileOf <- Senders
  Emails = {"a", "b"}
  BatchPages = 1
  MaxAttempts = 2
  MaxFailures = 2
  MaxVersion = 2
INVARIANTS
  TypeOK
  PublishedIsWhole
  ErasedSubjectsLeave
  CountsAgree
  OneRunningOneCurrent
PROPERTIES
  CurrentMovesForward
  ImplementsShelf
  AbandonedRunIsReaped
CHECK_DEADLOCK FALSE
