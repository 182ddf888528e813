SPECIFICATION FairSpec
CONSTANTS
  None = None
  Contents = {a}
  Unreadable = {}
  Denied = {}
  CaptureInitial = TRUE
  FailClosed = TRUE
  FailThreshold = 1
  MaxClips = 2
  MaxPauses = 1
  MaxSleeps = 1
  MaxRestarts = 0
  SelfWrites = FALSE
PROPERTY ClipIsDecided
CHECK_DEADLOCK FALSE
