SPECIFICATION Spec
SYMMETRY Symmetry
CONSTANTS
  Procs = {w1, w2}
  Pids = {p1, p2}
  Sessions = {1, 2}
  KeepSessions = 1
  KeepAge = 0
  MaxDeletions = 1
  MaxScanned = 8
  MaxWrites = 1
  MaxNow = 0
  MaxCrashes = 1
  MaxFaults = 0
  MaxEdits = 1
  MaxPurges = 2
  None = None
INVARIANTS
  LiveSessionKeepsFiles
  NothingStaysHidden
PROPERTIES
  DeletesOnlyWhatItSaw
CHECK_DEADLOCK FALSE
