CONSTANTS
  t1 = t1
  t2 = t2
  t3 = t3
  a = a
  b = b
  s = s
  n1 = n1
  n2 = n2
  Null = null
  Threads = {t1, t2, t3}
  Values = {a, b}
  Nodes = {s, n1, n2}
  Sentinel = s
  AbaMod = 2
  Live = {t1, t3}
  Calls <- MixedCalls
SPECIFICATION FairSpec
INVARIANTS TypeOK IInv NoNullDereference EmptyStateSound
PROPERTIES Linearizable LiveCallsReturn
\* Nodes bounds the memory: try_enqueue cannot allocate once it is used up.
CHECK_DEADLOCK FALSE
