CONSTANTS
  t1 = t1
  t2 = t2
  t3 = t3
  a = a
  b = b
  n1 = n1
  n2 = n2
  Null = null
  Threads = {t1, t2, t3}
  Values = {a, b}
  Nodes = {n1, n2}
  AbaMod = 3
  Live = {t2}
  Calls <- MixedCalls
SPECIFICATION FairSpec
INVARIANTS TypeOK IInv EmptyStateSound
PROPERTIES Linearizable LiveCallsReturn
