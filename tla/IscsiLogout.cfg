SPECIFICATION Spec
CONSTANTS
  v1 = v1
  v2 = v2
  l1 = l1
  l2 = l2
  p1 = p1
  p2 = p2
  Vols = {v1, v2}
  Luns = {l1, l2}
  Procs = {p1, p2}
  Links = {"iscsi"}
  MaxTries = 1
  MaxCalls = 4
  MaxFaults = 0
SYMMETRY Symmetry
PROPERTIES
  LogoutWhenEmpty
