SPECIFICATION Spec
CONSTANTS
  Modes <- MCModes
  Buckets = {1, 2, 3}
  MaxPending = 3
  MaxSequenceKeys = 2
  MaxBuckets = 2
  MaxKeys = 3
  MaxCalls = 4
  MaxFaults = 1
  MaxSessions = 2
  None = None
INVARIANTS
  TypeOK
  PublishedIsValid
  WrittenOnceInOrder
PROPERTIES
  NothingLostSilently
  PendingIsWritten
CHECK_DEADLOCK FALSE
