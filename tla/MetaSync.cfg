SPECIFICATION Spec
CONSTANTS
  FirstDay = 1
  LastDay = 3
  BaseDays = 1
  BreakdownDays = 0
  MaxReports = 2
  NoCall = NoCall
  LateAds <- MCLateAds
  DeletableAds <- MCDeletableAds
INVARIANTS
  TypeOK
  SuccessIsWholeReport
  CleanJobIsWhole
CHECK_DEADLOCK FALSE
