SPECIFICATION Spec
CONSTANTS
  Modes <- MCModes
  Buckets = {1}
  MaxPending = 3
  MaxSequenceKeys = 2
  MaxBuckets = 1
  MaxKeys = 3
  MaxCalls = 4
  MaxFaults = 1
  MaxSessions = 1
  None = None
INVARIANTS
  RetryIsExact
CHECK_DEADLOCK FALSE
