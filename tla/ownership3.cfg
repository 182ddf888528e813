SPECIFICATION Spec
CONSTANTS
  N = 3
  MaxCrashes = 1
  MaxFaults = 1
INVARIANTS TypeOK ClearedStaysCleared
PROPERTIES NewHistorySurvives HeirWaits
CHECK_DEADLOCK FALSE
