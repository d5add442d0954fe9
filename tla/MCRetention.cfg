SPECIFICATION Spec
SYMMETRY Symmetry
CONSTANTS
  Procs = {w1, w2}
  Pids = {p1, p2}
  Sessions = {1, 2, 3}
  KeepSessions = 1
  KeepAge = 0
  MaxDeletions = 1
  MaxScanned = 4
  MaxWrites = 0
  MaxNow = 1
  MaxCrashes = 1
  MaxFaults = 1
  MaxEdits = 0
  MaxPurges = 0
  None = None
INVARIANTS
  TypeOK
  LiveSessionKeepsFiles
PROPERTIES
  RetentionConverges
CHECK_DEADLOCK FALSE
