SPECIFICATION FairSpec
CONSTANTS
  v1 = v1
  v2 = v2
  Vols = {v1, v2}
  AAVols = {v1}
  Procs = {p1, p2}
  GB = 2
  FirstSize = 1
  Asks <- OneEach
  Room = 7
  MaxCalls = 2
  MaxFaults = 2
INVARIANTS
  TypeOK
  ExtendSound
  NeverTooLarge
  BrokenIsBarred
  QuietDuringTasks
  Thawed
PROPERTIES
  ExtendsServed
