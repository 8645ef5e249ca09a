\* Two connections, two senders, two faults: who closes what, who is served, and how stop() ends.
CONSTANTS
  Conn = {c1, c2}
  Sender = {s1, s2}
  NoConn = NoConn
  Free = Free
  MaxFaults = 2
SPECIFICATION FairSpec
INVARIANTS ConnectedMeansOpen SendUndisturbed NoLeak
PROPERTIES DroppedForCause DeviceServed DepartureNoticed StopCloses
CHECK_DEADLOCK FALSE
