SPECIFICATION Spec
CONSTANTS
  Fds = {2, 8}
  InitEventNumber = 2
  MaxOpens = 3
CHECK_DEADLOCK FALSE
INVARIANTS TablesAgree NoLostEdge AssertionsHold
