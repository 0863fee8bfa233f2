SPECIFICATION FairSpec
CONSTANTS
  w1 = w1
  w2 = w2
  s1 = s1
  s2 = s2
  Workers = {w1, w2}
  Sockets = {s1, s2}
  Owner <- TwoWorkers
  Servers = {s2}
  NumChunks = 2
  MaxData = 2
INVARIANTS ChunksConserved PendingKnown ForgottenOnlyInWindow PostedWhenReady
PROPERTY DataPosted
CHECK_DEADLOCK FALSE
