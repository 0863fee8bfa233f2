SPECIFICATION Spec
CONSTANTS
  Chunks = {c1, c2}
  QueueLen = 2
  Sockets = {s1, s2}
  ZeroCopy = {s2}
  MaxData = 2
INVARIANTS OneOwner BacklogExact StarvedOnlyByDead SleepSafe ReaderNotified ReadInOrder
SYMMETRY Interchangeable
CHECK_DEADLOCK FALSE
