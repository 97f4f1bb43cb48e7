SPECIFICATION FairSpec
CONSTANTS
  Vols = {v1}
  Snaps = {s1}
  MapIds = {m1}
  Procs = {p1, p2}
  Ops = {"create","snap","delsnap"}
  Levels = {"basic"}
  SingleFlight = TRUE
  MaxPolls = 2
  MaxCalls = 4
  MaxFaults = 2
PROPERTIES
  DeletesSucceed
