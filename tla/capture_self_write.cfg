SPECIFICATION Spec
CONSTANTS
  None = None
  Contents = {a}
  Unreadable = {}
  Denied = {}
  CaptureInitial = TRUE
  FailClosed = FALSE
  FailThreshold = 1
  MaxClips = 3
  MaxPauses = 0
  MaxSleeps = 0
  MaxRestarts = 0
  SelfWrites = TRUE
PROPERTY SelfWriteNotRecaptured
CHECK_DEADLOCK FALSE
