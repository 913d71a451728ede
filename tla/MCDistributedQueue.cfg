CONSTANTS
  x1 = x1
  x2 = x2
  Null = null
  Threads = {1, 2, 3}
  Items = {x1, x2}
  NumQueues = 2
  Partitions = 2
  TagMod = 8
  Live = {2, 3}
  Calls <- MixedCalls
SPECIFICATION FairSpec
INVARIANTS TypeOK IInv
PROPERTIES Linearizable LiveCallsReturn
