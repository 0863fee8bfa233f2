SPECIFICATION Spec
CONSTANTS
  a = a
  b = b
  Conns = {a, b}
  Streams <- TheStreams
  InPieces = {a}
  Lossy = {b}
  HeaderLen = 2
  recv_max_prefetch = 2
  MaxReopen = 1
  MaxMessages = 2
  MaxBytes = 3
  MaxDispatch = 2
INVARIANTS NeverGarbled ThrottlesExact NothingLeftUnread NoThrottleDeadlock
CHECK_DEADLOCK FALSE
