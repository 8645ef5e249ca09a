\* Concurrent callers: two threads, three calls, one fault; ids do not wrap.
CONSTANTS
  Caller = {c1, c2}
  Gpio = {g1}
  ErrCode = {"WRONG_MODE"}
  NoError = "none"
  NoEvent = NoEvent
  Ops = {"receive", "exchange"}
  MaxCmdId = 3
  MaxCalls = 3
  MaxFaults = 1
SPECIFICATION Spec
INVARIANTS OwnAnswer NoDoubleDelivery
PROPERTIES AnswerStays
SYMMETRY Symmetry
CHECK_DEADLOCK FALSE
