SPECIFICATION FairSpec
CONSTANTS
  v1 = v1
  v2 = v2
  l1 = l1
  l2 = l2
  p1 = p1
  p2 = p2
  Vols = {v1, v2}
  Luns = {l1, l2}
  Procs = {p1, p2}
  Links = {"fc", "iscsi"}
  MaxTries = 2
  MaxCalls = 3
  MaxFaults = 2
INVARIANTS
  TypeOK
  MountedReachable
  NeverWiped
  UnpublishSound
PROPERTIES
  PublishServed
