SPECIFICATION Spec
CONSTANTS
  b1 = b1
  Blocks = {b1}
  Shares <- TwoShares
  Length = 2
  Asks <- AllAsks
  Procs = {p1, p2}
  MaxCalls = 3
  MaxFaults = 2
INVARIANTS
  TypeOK
  AnswerSound
  NoDanglingExport
  WholeOrGone
PROPERTIES
  VolumesServed
