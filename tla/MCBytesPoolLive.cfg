CONSTANTS
  Procs = {p1, p2}
  InitSize = 1
  MaxSize = 1
  MemorySize = 3
  Requests = {1}
SPECIFICATION FairSpec
PROPERTY SomeCallReturns
