CONSTANTS
  Employees = {e1}
  RetryCount = 2
  MaxConcurrentCalls = 1
  Invocations = {map, t60}
  Trigger <- Map60
  ArnGiven = {t60}
  TimersConfigured = TRUE
  MaxTries = 0
  Heard = {"SAFE", "OTHER"}
  Disturbances = {"empty", "table", "connect", "redelivery", "inbound"}
  map = map
  t30 = t30
  t60 = t60
  t60b = t60b
SPECIFICATION FairSpec
CHECK_DEADLOCK FALSE
PROPERTIES
  CycleCloses
  TimeoutAnnounced
