\* Three producers at a queue of two places: frames, memory and order.
CONSTANTS
  Producer = {p1, p2, p3}
  QUEUE_SIZE = 2
  MaxFrames = 2
  NoFrame = NoFrame
SPECIFICATION FairSpec
INVARIANTS FramesOwned RoomTakenByOthers
PROPERTIES IsLossyChannel EveryFrameFreed
CHECK_DEADLOCK FALSE
