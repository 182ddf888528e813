SPECIFICATION Spec
CONSTANTS
  N = 3
  MaxCrashes = 1
  MaxFaults = 1
INVARIANT NothingBehindPurge
CHECK_DEADLOCK FALSE
