SPECIFICATION Spec
CONSTANTS
  None = None
  Contents = {a}
  Unreadable = {}
  Denied = {}
  CaptureInitial = TRUE
  FailClosed = FALSE
  FailThreshold = 1
  MaxClips = 2
  MaxPauses = 1
  MaxSleeps = 0
  MaxRestarts = 0
  SelfWrites = FALSE
PROPERTY PausedClipNotRecordedOnResume
CHECK_DEADLOCK FALSE
