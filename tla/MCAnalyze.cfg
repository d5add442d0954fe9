SPECIFICATION Spec
CONSTANTS
  None = None
  d1 = d1
  d2 = d2
  Names = {1, 2, 3, 4}
  Finalized = {1, 2, 3}
  Partial = {4}
  Inodes = {1, 2, 3, 4}
  Dirs = {d1, d2}
  MaxEntries = 3
  MaxInputs = 2
  MaxChanges = 2
  Order <- MCOrder
  Size <- MCSize
  MaxSessions = 3
  MaxDistinctItems = 4
  MaxRetainedTokenBytes = 13
  MaxRankedItems = 2
  MaxCandidates = 2
  MinSessions = 2
  MinSequenceKeys = 4
  MinObservations = 2
  MaxTime = 2000
  MappingIds <- MCMappingIds
  IdOf <- MCIdOf
  BracketEnds = {">", "<C-R>"}
  RefusedTokens = {"bslash"}
  MaxLhsTokens = 2
  MaxSnapshotMappings = 2
  MaxPayload = 8
  MaxEvidence = 2
  Scenarios <- MCScenarios
INVARIANTS TypeOK WholeListing SummaryIsExact FirstBadInput ObservedFirst PreviewAcceptsAnalysis ConflictsAreKnown
CHECK_DEADLOCK FALSE
