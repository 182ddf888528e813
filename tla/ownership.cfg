SPECIFICATION FairSpec
CONSTANTS
  N = 2
  MaxCrashes = 1
  MaxFaults = 2
INVARIANTS TypeOK ClearedStaysCleared
PROPERTIES NewHistorySurvives HeirWaits StopReleases
CHECK_DEADLOCK FALSE
