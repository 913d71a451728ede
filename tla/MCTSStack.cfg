CONSTANTS
  a = a
  b = b
  t0 = t0
  t1 = t1
  t2 = t2
  Null = null
  Entry = entry
  Items = {a, b}
  Threads = {t0, t1, t2}
  Thread <- MCThread
  Order = "lifo"
  Kinds = {"interval", "atomic"}
  Calls <- MCCalls
SPECIFICATION Spec
SYMMETRY MCSymmetry
INVARIANTS Conserved EmptyIsTrue InOrder
CHECK_DEADLOCK FALSE
