SPECIFICATION Spec
CONSTANTS
  Vols = {v1}
  Snaps = {s1}
  MapIds = {m1}
  Procs = {p1, p2}
  Ops = {"create","snap","delvol"}
  Levels = {"basic"}
  SingleFlight = TRUE
  MaxPolls = 1
  MaxCalls = 3
  MaxFaults = 0
PROPERTIES
  SourcesStay
