SPECIFICATION TelemetryLiveSpec
CONSTANTS
  MaxRecords = 2
  MaxBatch = 2
  BatchSize = 2
  FromStart = FALSE
  Unwanted = {1}
  MaxClock = 1
  MaxCrashes = 1
INVARIANTS EvidenceNotLost JournaledFirst
PROPERTIES SentInOrder EvidenceArrives
CHECK_DEADLOCK FALSE
