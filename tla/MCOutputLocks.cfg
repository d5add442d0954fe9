SPECIFICATION FairSpec
CONSTANTS
  A = A
  B = B
  C = C
  D = D
  EA = EA
  EB = EB
  Runs = {r1, r2}
  Outputs = {A, B, C, D}
  Targets <- MCTargets
  Paths = {1, 2, 3}
  LockPath <- MCLockPath
  Entries = {EA, EB}
  EntryOf <- MCEntryOf
  Inodes = {1, 2, 3, 4}
  MaxRemovals = 2
INVARIANTS TypeOK WaitsIncrease
PROPERTIES OutputsAreExclusive EveryRunEnds
CHECK_DEADLOCK FALSE
