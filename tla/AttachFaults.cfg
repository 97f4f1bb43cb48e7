SPECIFICATION Spec
CONSTANTS
  n1 = n1
  n2 = n2
  a1 = a1
  v1 = v1
  v2 = v2
  w1 = w1
  w2 = w2
  w3 = w3
  Nodes = {n1, n2}
  Volumes = {v1, v2}
  Ports = {w1, w2, w3}
  PortsOf <- TwoNodesFC
  AdminHosts = {a1}
  AdminNode <- AdminOfN1
  AdminPorts <- AdminLastPort
  Procs = {p1, p2}
  Link = "fc"
  BlankReplies = TRUE
  Ops = {"attach","detach"}
  MaxCalls = 3
  MaxFaults = 2
SYMMETRY Symmetry
INVARIANTS
  TypeOK
  AttachSound
  QuiescentHosts
PROPERTIES
  Isolation
