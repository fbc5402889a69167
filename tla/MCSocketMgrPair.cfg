SPECIFICATION Spec
CONSTANTS
  Conns = {c1, c2}
  NoConn = none
  EarlySend = TRUE
  AddMayFail = FALSE
  PeerFaults = {"err"}
  MaxUnsent = 1
  MaxInbound = 1
  MaxQueue = 1
INVARIANTS NoDangling
SYMMETRY ConnSymmetry
