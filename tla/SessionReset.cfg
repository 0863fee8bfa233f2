SPECIFICATION Spec
CONSTANTS
  MaxMsgs = 3
  MaxReads = 2
  MaxResets = 2
  Word = 16
INVARIANTS NothingOld NewKept AckLeftCounts
CHECK_DEADLOCK FALSE
