SPECIFICATION Spec
CONSTANTS
  None = None
  Hosts = {d, g}
  Daemons = {d}
  Conns = {c1}
  Permits = 1
  WedgeTicks = 2
  MaxFlips = 1
  MaxFaults = 2
CHECK_DEADLOCK FALSE
INVARIANTS
  TypeOK
  EndpointIsWhole
  DisabledStaysDown
PROPERTIES
  BusyIsNotWedged
  StopLeavesNoFiles
