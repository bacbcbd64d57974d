CONSTANTS
  MaxAttempts = 2
  Deliveries = {d1, d2}
SPECIFICATION RecordingSpec
CHECK_DEADLOCK FALSE
SYMMETRY DeliverySymmetry
INVARIANTS
  RecordingTypeOK
  RecordingNeverLost
  EveryRecordingDescribed
  TranscriptIsOfTheRecording
PROPERTIES
  KeyNeverChangesHands
