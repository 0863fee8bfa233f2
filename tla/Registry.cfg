SPECIFICATION Spec
CONSTANTS
  c1 = c1
  c2 = c2
  c3 = c3
  a1 = a1
  Conns = {c1, c2, c3}
  Addrs = {a1}
  NoConn = NoConn
  NoAddr = NoAddr
  NumWorkers = 2
  Ports = {1, 2}
  ReapDeadConnectionThreshold = 2
  MaxEmpty = 1
  MaxRebinds = 1
SYMMETRY Interchangeable
CHECK_DEADLOCK FALSE
INVARIANTS ReferencesExact NoStale AllReachable WaitClosesAll
 
