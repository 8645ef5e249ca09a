\* Two signal commands and a reconfiguration on one pin, near the end of 32 bits.
CONSTANTS
  p1 = p1
  c1 = c1
  c2 = c2
  Pin = {p1}
  Command = {c1, c2}
  None = None
  QueueLen = 1
  MaxEdges = 2
  Listen = 1
  Modulus = 64
  Uptime = {62}
  MaxConfigs = 1
SPECIFICATION Spec
INVARIANTS ChannelsReturned HandlerHasBuffer EdgesOfListening ListensLongEnough InterruptPinReports
PROPERTY EveryCommandAnswered
CHECK_DEADLOCK FALSE
