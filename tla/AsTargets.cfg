SPECIFICATION FairSpec
CONSTANTS
  n1 = n1
  n2 = n2
  v1 = v1
  v2 = v2
  v3 = v3
  Nodes = {n1, n2}
  Volumes = {v1, v2, v3}
  Procs = {p1, p2}
  MaxTargets = 4
  OptimalTargets = 1
  MaxLuns = 2
  OtherTargets = 1
  Shared = {v1}
  Asks <- SharedTarget
  MaxCalls = 3
  MaxFaults = 1
INVARIANTS
  TypeOK
  NoLunForAll
  QuiescentTargets
PROPERTIES
  TargetsKeepPromise
  TargetRequestsSucceed
