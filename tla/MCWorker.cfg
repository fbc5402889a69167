SPECIFICATION FairSpec
CONSTANTS
  Services = {"mysql", "mongo", "http", "log"}
  Pinged = {"mysql", "mongo"}
  MaxItems = 3
  MaxQueue = 3
  MaxPosts = 3
CHECK_DEADLOCK FALSE
INVARIANTS InOrder
PROPERTIES NotifyWakes Executed
