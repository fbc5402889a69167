SPECIFICATION Spec
CONSTANTS
  Wrap = 32
  StartTime = 29
  MaxTime = 34
  WaitTime = 2
  MaxFrames = 2
  InvalidIndex = 3
  MaxAdded = 3
  Intervals = {0, 2, 31}
  Interrupted = TRUE
CHECK_DEADLOCK FALSE
INVARIANTS DeletedOnce NoneOverdue
PROPERTIES IndexKept NotEarly
