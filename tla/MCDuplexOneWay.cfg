SPECIFICATION FairSpec
CONSTANTS
  Ends = {a, b}
  Talkers = {a}
  Room = 2
  MaxSends = 8
CHECK_DEADLOCK FALSE
PROPERTIES Flows
