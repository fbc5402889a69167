SPECIFICATION Spec
CONSTANTS
  Wrap = 32
  StartTime = 28
  MaxTime = 36
  WaitTime = 2
  MaxFrames = 4
  InvalidIndex = 9
  MaxAdded = 0
  Intervals = {1}
  Interrupted = FALSE
CHECK_DEADLOCK FALSE
INVARIANTS FrameBound
