SPECIFICATION FairSpec
CONSTANTS
  Requests = {r1, r2}
  None = None
  Foreign = Foreign
  Kinds = {"paste", "pasteEntry", "keep", "copy", "ipcCopy", "ipcPaste"}
  Platforms = {"macos", "wayland"}
INVARIANTS TypeOK KeysTypeTheRightClip OverwritesNothingNewer KeysReachTheTarget
PROPERTY RequestsEnd
