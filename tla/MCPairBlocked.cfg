SPECIFICATION Spec
CONSTANTS
  None = None
  S = S
  R1 = R1
  R2 = R2
  P1 = P1
  P2 = P2
  Procs = {w1}
  Outputs = {S, R1, R2}
  Pairs = {P1, P2}
  SummaryOf <- MCSummaryOf
  ReportOf <- MCReportOf
  Initial = {0, 1}
  MaxVersion = 3
  MaxCrashes = 1
  MaxFaults = 0
  MaxEdits = 0
INVARIANT NextRunRecovers
