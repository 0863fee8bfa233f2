SPECIFICATION Spec
CONSTANTS
  MaxConns = 3
  MaxSockets = 2
  MaxGlobal = 4
  MaxSeq = 3
  MaxFaults = 1
  Policies <- AllPolicies
INVARIANTS AssertionsHold OneConnection Agreement SameSessionServed
PROPERTIES Undisturbed
CHECK_DEADLOCK FALSE
