CONSTANTS
  t1 = t1
  t2 = t2
  t3 = t3
  a = a
  b = b
  c = c
  d = d
  Null = null
  Threads = {t1, t2}
  Items = {a, b, c}
  Order = "kfifo"
  K = 1
  NumSegments = 2
  MaxHead = 2
  MaxTail = 4
  Calls <- MCCalls
SPECIFICATION Spec
SYMMETRY MCSymmetry
INVARIANT WithinRing
CHECK_DEADLOCK FALSE
