CONSTANTS
  t1 = t1
  t2 = t2
  t3 = t3
  a = a
  b = b
  c = c
  d = d
  Null = null
  Threads = {t1, t2, t3}
  Items = {a, b}
  Order = "kfifo"
  K = 1
  NumSegments = 2
  MaxHead = 1
  MaxTail = 2
  Calls <- LostCalls
SPECIFICATION Spec
SYMMETRY MCSymmetry
INVARIANT Conserved
CHECK_DEADLOCK FALSE
