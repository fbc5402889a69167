SPECIFICATION FairSpec
CONSTANTS
  Services = {"mysql"}
  Pinged = {}
  MaxItems = 2
  MaxQueue = 3
  MaxPosts = 3
CHECK_DEADLOCK FALSE
PROPERTIES Ends
