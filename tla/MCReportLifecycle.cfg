SPECIFICATION FairSpec
CONSTANTS
  None = None
  b1 = b1
  b2 = b2
  Binaries = {b1, b2}
  MaxGenerations = 3
  MaxVersions = 3
INVARIANTS TypeOK LiveGroupIsTheJob CodexSendsTheShownPreview
PROPERTIES SuggestionsFitConsent EveryJobEnds
CHECK_DEADLOCK FALSE
