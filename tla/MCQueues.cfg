CONSTANTS
  a = a
  b = b
  t0 = t0
  t1 = t1
  t2 = t2
  Null = null
  Items = {a, b}
  Threads = {t0, t1, t2}
  Order = "fifo"
  Modes = {"default", "blocking", "timeout", "combining"}
  Versions = {"ppopp11", "ppopp12"}
  MaxSpurious = 1
  MaxRetries = 1
  HelpingDelay = 0
  LockedNum <- MCLockedNum
  WaitfreeNum <- MCWaitfreeNum
  Calls <- MCCalls
  MaxGets <- MCMaxGets
  Runner = t1
SPECIFICATION Spec
INVARIANTS Conserved EmptyIsTrue InOrder NoSleeperByItem
PROPERTIES Settles DoneOnlyIfCarriedOut NonBlocking
CHECK_DEADLOCK FALSE
