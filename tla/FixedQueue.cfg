SPECIFICATION FairSpec
INVARIANTS IInv
PROPERTIES FlushReturns ImplementsFifo
CONSTANTS
  t1 = t1
  t2 = t2
  t3 = t3
  Threads <- MCThreads
  Usages <- MCUsages
  Items = {a, b}
  Null = null
  Capacity = 2
  MaxCalls = 5
CHECK_DEADLOCK FALSE
