CONSTANTS
  s1 = s1
  s2 = s2
  Nobody = Nobody
  Services = {s1}
  CtxServices = {}
  Outputs <- OneOutputs
  Requests = {r1, r2}
  Queries <- OneQueries
  Tracers = {}
  AppRate = 512
  AppBlockRate = 10
SPECIFICATION Spec
CHECK_DEADLOCK FALSE
SYMMETRY Symmetry
INVARIANTS TypeOK OneSession NoWorkerLeftBehind SamplerFileOpen GlobalsRestored
