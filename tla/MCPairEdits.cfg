SPECIFICATION Spec
CONSTANTS
  None = None
  S = S
  R1 = R1
  P1 = P1
  Procs = {w1, w2}
  Outputs = {S, R1}
  Pairs = {P1}
  SummaryOf <- MCSummaryOf
  ReportOf <- MCReportOf
  Initial = {0, 1}
  MaxVersion = 3
  MaxCrashes = 1
  MaxFaults = 2
  MaxEdits = 1
INVARIANTS AbortKeepsEdit
