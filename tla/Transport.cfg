SPECIFICATION Spec
CONSTANTS
  Procs = {p1, p2}
  MaxCalls = 3
  MaxFaults = 2
INVARIANTS
  TypeOK
  FaultsExplainFailure
  ConnectionsBounded
PROPERTIES
  AtMostOnce
  CallsServed
