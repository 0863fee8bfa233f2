SPECIFICATION Spec
CONSTANTS
  MaxConns = 3
  MaxSockets = 2
  MaxGlobal = 4
  MaxSeq = 3
  MaxFaults = 1
  Policies <- PeersOnly
INVARIANTS SameSession
CHECK_DEADLOCK FALSE
