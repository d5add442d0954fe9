SPECIFICATION FairSpec
CONSTANTS
  None = None
  b1 = b1
  b2 = b2
  term = term
  Buffers = {b1, b2, term}
  Excluded = {term}
  Modes = {"normal"}
  Lhs <- MCLhs
  Unsupported <- MCUnsupported
  MaxApiEntries = 3
  Initial <- MCInitial
  MaxChanges = 1
  MaxFaults = 1
  MaxSessions = 2
INVARIANTS TypeOK AttributionIsLive
PROPERTIES RefreshIsTried
CHECK_DEADLOCK FALSE
