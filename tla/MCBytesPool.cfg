CONSTANTS
  Procs = {p1, p2}
  InitSize = 1
  MaxSize = 3
  MemorySize = 3
  Requests = {1, 2, 3}
SPECIFICATION Spec
SYMMETRY Symmetry
INVARIANTS TypeOK NoDoubleOwner OwnedNotFree NoFalsePanic
PROPERTIES SwapInstallsTheLink RefinesChunkPool
