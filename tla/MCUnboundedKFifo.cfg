CONSTANTS
  t1 = t1
  t2 = t2
  a = a
  b = b
  c = c
  Null = null
  Threads = {t1, t2}
  Items = {a, b, c}
  Order = "kfifo"
  K = 2
  MaxSegments = 3
  Calls <- MCCalls
SPECIFICATION Spec
SYMMETRY MCSymmetry
INVARIANTS ListSound Conserved EmptyIsTrue KOutOfOrder
CHECK_DEADLOCK FALSE
