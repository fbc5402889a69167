SPECIFICATION FairSpec
CONSTANTS
  Conns = {c1}
  NoConn = none
  EarlySend = FALSE
  AddMayFail = TRUE
  PeerFaults = {"fin", "err"}
  MaxUnsent = 2
  MaxInbound = 2
  MaxQueue = 2
INVARIANTS TypeOK RefCount NoDangling CallOrder LockArmed QueueWakes NoStrandedData NoMissedInput
PROPERTIES DisconnectCompletes OutputMoves InputMoves ConnectAnswered
