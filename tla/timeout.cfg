CONSTANTS
  Employees = {e1, e2}
  RetryCount = 1
  MaxConcurrentCalls = 1
  Invocations = {map, t60, t60b}
  Trigger <- Map60Twice
  ArnGiven = {t60, t60b}
  TimersConfigured = TRUE
  MaxTries = 0
  Heard = {"SAFE", "OTHER"}
  Disturbances = {"inbound"}
  map = map
  t30 = t30
  t60 = t60
  t60b = t60b
SPECIFICATION Spec
CHECK_DEADLOCK FALSE
SYMMETRY Symmetry
INVARIANTS
  CompletedMeansSettled
  
PROPERTIES
  TimeoutKeepsAnswers
