SPECIFICATION FairSpec
CONSTANTS
  None = None
  Hosts = {d, g}
  Daemons = {d}
  Conns = {c1}
  Permits = 1
  WedgeTicks = 1
  MaxFlips = 0
  MaxFaults = 1
CHECK_DEADLOCK FALSE
PROPERTIES
  ShutdownEnds
  ConnectionEnds
  EndpointServed
