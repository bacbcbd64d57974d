CONSTANTS
  Employees = {e1}
  RetryCount = 1
  MaxConcurrentCalls = 1
  Invocations = {map}
  Trigger <- MapOnly
  ArnGiven = {}
  TimersConfigured = FALSE
  MaxTries = 0
  Heard = {"SAFE"}
  Disturbances = {}
  map = map
  t30 = t30
  t60 = t60
  t60b = t60b
SPECIFICATION Spec
CHECK_DEADLOCK FALSE
PROPERTY
  AnswerNeverBecomesUnreachable
