CONSTANTS
  s1 = s1
  s2 = s2
  Nobody = Nobody
  Services = {s1, s2}
  CtxServices = {s2}
  Outputs <- TwoOutputs
  Requests = {r1, r2}
  Queries <- TwoQueries
  Tracers = {t1}
  AppRate = 512
  AppBlockRate = 10
SPECIFICATION FairSpec
CHECK_DEADLOCK FALSE
PROPERTIES StopsItsOwn EveryRequestAnswered
