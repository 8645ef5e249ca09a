\* One caller, two calls of every kind with a retry or an uncorrelated wait, two faults.
CONSTANTS
  Caller = {c1}
  Gpio = {g1}
  ErrCode = {"WRONG_MODE"}
  NoError = "none"
  NoEvent = NoEvent
  Ops = {"set", "configure", "get", "sync", "heartbeat"}
  MaxCmdId = 6
  MaxCalls = 2
  MaxFaults = 2
SPECIFICATION FairSpec
INVARIANTS SuccessMeansExecuted ConfiguredMeansBound
PROPERTIES EveryCallReturns
CHECK_DEADLOCK FALSE
