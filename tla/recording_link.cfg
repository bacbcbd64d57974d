CONSTANTS
  MaxAttempts = 2
  Deliveries = {d1}
SPECIFICATION RecordingSpec
CHECK_DEADLOCK FALSE
INVARIANT
  LinkOpensTheRecording
