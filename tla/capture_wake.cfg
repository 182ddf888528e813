SPECIFICATION Spec
CONSTANTS
  None = None
  Contents = {a, d, u}
  Unreadable = {u}
  Denied = {d}
  CaptureInitial = TRUE
  FailClosed = TRUE
  FailThreshold = 2
  MaxClips = 3
  MaxPauses = 0
  MaxSleeps = 1
  MaxRestarts = 0
  SelfWrites = TRUE
INVARIANTS
  TypeOK
  NoStrandedClip
PROPERTIES
  SecureClipStaysOut
  StaleSourceIsDropped
CHECK_DEADLOCK FALSE
