SPECIFICATION NightlySpec
CONSTANTS
  FirstDay = 1
  LastDay = 3
  BaseDays = 0
  MonthDays = 2
  Writers = {import, user}
INVARIANTS
  TypeOK
PROPERTIES
  NoPartialMonth
  ExpiredRowsGo
CHECK_DEADLOCK FALSE
