CONSTANTS
  Employees = {e1}
  RetryCount = 2
  MaxConcurrentCalls = 1
  Invocations = {map}
  Trigger <- MapOnly
  ArnGiven = {}
  TimersConfigured = FALSE
  MaxTries = 1
  Heard = {"SAFE", "OTHER"}
  Disturbances = {"table", "connect", "pipeline", "crash", "redelivery"}
  map = map
  t30 = t30
  t60 = t60
  t60b = t60b
SPECIFICATION FairSpec
CHECK_DEADLOCK FALSE
INVARIANTS
  TypeOK
  DialBudget
  RecordingKeyUnique
PROPERTIES
  ReadAnswersEndDialing
  ExecutionEnds
