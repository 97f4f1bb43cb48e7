SPECIFICATION Spec
CONSTANTS
  Vols = {v1, v2}
  Snaps = {s1}
  MapIds = {m1, m2}
  Procs = {p1, p2}
  Ops = {"create", "clone", "snap", "delvol", "delsnap"}
  Levels = {"basic", "aa"}
  SingleFlight = TRUE
  MaxPolls = 2
  MaxCalls = 4
  MaxFaults = 1
SYMMETRY Symmetry
INVARIANTS
  TypeOK
  PromiseKept
  VolumesStayGone
