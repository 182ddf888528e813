SPECIFICATION Spec
CONSTANTS
  None = None
  Contents = {a}
  Unreadable = {}
  Denied = {}
  CaptureInitial = TRUE
  FailClosed = FALSE
  FailThreshold = 1
  MaxClips = 4
  MaxPauses = 0
  MaxSleeps = 1
  MaxRestarts = 0
  SelfWrites = TRUE
PROPERTY CollidingClipNotSuppressed
CHECK_DEADLOCK FALSE
