\* Two descriptors, two faults, a clock of three ticks: what the device knows of its
\* connection, and that it comes back to one.
CONSTANTS
  Fd = {f1, f2}
  NoSock = NoSock
  HEARTBEAT_INTERVAL = 1
  HEARTBEAT_TIMEOUT = 2
  TimeWrap = 16
  MaxTime = 3
  MaxFaults = 2
SPECIFICATION FairSpec
INVARIANTS NoSilentDrop SendsOnConnection
PROPERTIES LinkRecovers
CHECK_DEADLOCK FALSE
