CONSTANTS
  a = a
  b = b
  c = c
  Null = null
  Items = {a, b}
  Threads <- MCThreads
  Order = "fifo"
  DequeKinds = {"hardware", "stutter", "interval"}
  QueueKinds = {"hardware", "interval", "atomic"}
  QuasiFactor = 2
  RetryLimits = {0, 1}
SPECIFICATION Spec
SYMMETRY MCSymmetry
INVARIANTS Conserved EmptyIsTrue InOrder
CHECK_DEADLOCK FALSE
