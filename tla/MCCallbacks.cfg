SPECIFICATION CallbacksSpec
CONSTANTS
  MaxQueries = 4
  MaxPings = 0
  CommitFails = FALSE
  LossPoints = {"idle"}
  MaxRef = 6
  HeldRefs = {1}
  FirstRef = 5
CHECK_DEADLOCK FALSE
INVARIANTS CallbacksTypeOK Atomic CommitAnswer FailedMeansNothing AnsweredIsDurable BackToAutocommit ReferencesExact
PROPERTIES LoneCalled
