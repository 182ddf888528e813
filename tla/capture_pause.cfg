SPECIFICATION Spec
CONSTANTS
  None = None
  Contents = {a}
  Unreadable = {}
  Denied = {}
  CaptureInitial = FALSE
  FailClosed = FALSE
  FailThreshold = 1
  MaxClips = 3
  MaxPauses = 2
  MaxSleeps = 1
  MaxRestarts = 1
  SelfWrites = FALSE
INVARIANT LaunchClipStaysOut
PROPERTY PausedClipStaysOut
CHECK_DEADLOCK FALSE
