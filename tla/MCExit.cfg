SPECIFICATION FairSpec
CONSTANTS
  MaxTasks = 2
CHECK_DEADLOCK FALSE
PROPERTIES ExitSucceeds
