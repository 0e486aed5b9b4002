SPECIFICATION ToolRunsSpec
CONSTANTS
  c1 = c1  c2 = c2  d1 = d1  d2 = d2  i1 = i1  i2 = i2  u1 = u1  u2 = u2
  NoUser = NoUser  NoRun = NoRun  NoClient = NoClient
  Daemon = {d1}  Inline = {i1}  Clients = {c1, c2}
  Users = {u1}  Limited = {u1}  Quota <- QuotaOfOne
  MaxRuns = 2  MaxAttempts = 2  MaxStalls = 1  MaxStops = 0
  Panicking = {d1}  DiskFaults = FALSE  Ageing = {1}
  g1 = g1  g2 = g2  g3 = g3  home = home  Common = Common
  Projects = {home}  Calls = {g1, g2, g3}  ToolPlans <- TwoAnalysesAndAnother
  MaxFlips = 1  MaxKills = 2
SYMMETRY ClientSymmetry
INVARIANTS QuotaRespected ExclusiveExecution ScratchLossExplained AnswerMatchesRow PartialExplained AnalyzedIsFound
CHECK_DEADLOCK FALSE
