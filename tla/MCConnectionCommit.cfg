SPECIFICATION Spec
CONSTANTS
  MaxQueries = 4
  MaxPings = 1
  CommitFails = TRUE
  LossPoints = {"idle", "txn"}
CHECK_DEADLOCK FALSE
INVARIANTS CommitAnswer
