CONSTANTS
  t1 = t1
  t2 = t2
  t3 = t3
  a = a
  b = b
  c = c
  d = d
  Null = null
  Threads = {t1, t2}
  Items = {a, b, c, d}
  Order = "kfifo"
  K = 2
  NumSegments = 2
  MaxHead = 2
  MaxTail = 4
  Calls <- MCCalls
SPECIFICATION Spec
SYMMETRY MCSymmetry
CONSTRAINT Undisturbed
INVARIANTS Conserved EmptyIsTrue KOutOfOrder
CHECK_DEADLOCK FALSE
