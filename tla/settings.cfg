SPECIFICATION Spec
CONSTANTS
  None = None
  Callers = {tray, cli1}
  Remote = {cli1}
  Flags = {capture_enabled, global_hotkey}
  Markers = {accessibility_first_granted_at, accessibility_prompted_at}
  Sticky = {accessibility_first_granted_at}
  Default = {capture_enabled}
  MaxRevision = 3
  MaxRestarts = 1
SYMMETRY Symmetric
CHECK_DEADLOCK FALSE
INVARIANTS
  TypeOK
  WatchFollowsStore
PROPERTIES
  KeepsOtherFields
