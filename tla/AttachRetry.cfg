SPECIFICATION FairSpec
CONSTANTS
  n1 = n1
  n2 = n2
  a1 = a1
  v1 = v1
  v2 = v2
  w1 = w1
  w2 = w2
  w3 = w3
  Nodes = {n1}
  Volumes = {v1, v2}
  Ports = {w1, w2, w3}
  PortsOf <- OneNodeISCSI
  AdminHosts = {}
  AdminNode <- NoAdminNode
  AdminPorts <- NoAdminPorts
  Procs = {p1, p2}
  Link = "iscsi"
  BlankReplies = FALSE
  Ops = {"attach","detach"}
  MaxCalls = 3
  MaxFaults = 1
INVARIANTS
  DetachSound
PROPERTIES
  RequestsSucceed
  KeepsPromise
