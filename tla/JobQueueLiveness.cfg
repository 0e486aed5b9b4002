SPECIFICATION FairSpec
CONSTANTS
  c1 = c1  c2 = c2  d1 = d1  d2 = d2  i1 = i1  i2 = i2  u1 = u1  u2 = u2
  NoUser = NoUser  NoRun = NoRun  NoClient = NoClient
  Daemon = {d1}  Inline = {i1}  Clients = {c1}
  Users = {u1}  Limited = {u1}  Quota <- QuotaOfOne
  MaxRuns = 2  MaxAttempts = 2  MaxStalls = 0  MaxStops = 1
  Panicking = {}  DiskFaults = TRUE  Ageing = {1}
PROPERTIES LifecycleSpec EveryRunFinishes
CHECK_DEADLOCK FALSE
