CONSTANTS
  Procs = {p1}
  InitSize = 1
  MaxSize = 1
  MemorySize = 2
  Requests = {1}
SPECIFICATION Spec
PROPERTY ReleaseKeepsFreeList
