SPECIFICATION LifecycleSpec
CONSTANTS
  Admins = {a1}
  Workers = {w1, w2}
  MaxRevision = 4
  MaxAttempts = 2
  MaxTroubles = 1
  NULL = NULL
CHECK_DEADLOCK FALSE
PROPERTIES
  ImplementsMirror
  ReactivatesItsSuspension
  JobsEnd
