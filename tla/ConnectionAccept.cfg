SPECIFICATION Spec
CONSTANTS
  MaxConns = 3
  MaxSockets = 2
  MaxGlobal = 3
  MaxSeq = 3
  MaxFaults = 1
  Policies <- PeersOnly
INVARIANTS AcceptedOrClosed
CHECK_DEADLOCK FALSE
