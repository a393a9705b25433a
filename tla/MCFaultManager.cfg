SPECIFICATION Spec
CONSTANTS
  Producers = {"p", "q"}
  Alarms = {"a", "b"}
  CacheTime = 1
  QueueLimit = 2
  MaxReports = 4
  MaxTime = 1
  MaxFailures = 1
INVARIANTS
    IInv
    NoLostWakeup
    LastReportStands
PROPERTIES
    ExpiredClearsLeave
CHECK_DEADLOCK FALSE
