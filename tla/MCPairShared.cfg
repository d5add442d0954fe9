SPECIFICATION Spec
CONSTANTS
  None = None
  S = S
  R1 = R1
  R2 = R2
  P1 = P1
  P2 = P2
  Procs = {w1}
  Outputs = {S, R1, R2}
  Pairs = {P1, P2}
  SummaryOf <- MCSummaryOf
  ReportOf <- MCReportOf
  Initial = {0, 1}
  MaxVersion = 3
  MaxCrashes = 2
  MaxFaults = 1
  MaxEdits = 0
INVARIANTS TypeOK RollbackIsPossible OutputStaysPublic JournalIsCoherent
PROPERTIES PairIsAtomic RunEndsClean
