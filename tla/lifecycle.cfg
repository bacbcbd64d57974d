CONSTANTS
  Employees = {e1}
  RetryCount = 1
  MaxConcurrentCalls = 1
  Invocations = {map, t30, t60}
  Trigger <- All3
  ArnGiven = {t60}
  TimersConfigured = TRUE
  MaxTries = 1
  Heard = {"SAFE"}
  Disturbances = {"crash"}
  map = map
  t30 = t30
  t60 = t60
  t60b = t60b
SPECIFICATION Spec
CHECK_DEADLOCK FALSE
PROPERTIES
  ImplementsLifecycle
