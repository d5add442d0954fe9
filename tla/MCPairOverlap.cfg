SPECIFICATION Spec
CONSTANTS
  None = None
  S1 = S1
  S2 = S2
  R1 = R1
  R2 = R2
  P1 = P1
  P2 = P2
  P3 = P3
  Procs = {w1, w2}
  Outputs = {S1, S2, R1, R2}
  Pairs = {P1, P2, P3}
  SummaryOf <- MCSummaryOf
  ReportOf <- MCReportOf
  Initial = {1}
  MaxVersion = 3
  MaxCrashes = 1
  MaxFaults = 0
  MaxEdits = 0
INVARIANTS RollbackIsPossible OneDecision
PROPERTIES PairIsAtomic
