SPECIFICATION FairSpec
CONSTANTS
  Ends = {a, b}
  Talkers = {a, b}
  Room = 2
  MaxSends = 4
CHECK_DEADLOCK FALSE
PROPERTIES Flows
