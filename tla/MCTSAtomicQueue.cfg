CONSTANTS
  a = a
  b = b
  Null = null
  Items = {a, b}
  Threads <- MCThreads
  Thread <- MCThread
  Order = "deque"
  Kinds = {"atomic"}
  Calls <- MCCalls
  MaxGets <- MCMaxGets
SPECIFICATION Spec
SYMMETRY MCSymmetry
INVARIANTS InOrder
CHECK_DEADLOCK FALSE
