\* A workflow of three groups, two extracted files, one signal, one abort, one repivot per thread.
SPECIFICATION FairSpec
CONSTANTS
  t1 = t1
  t2 = t2
  t3 = t3
  none = none
  scan = scan
  deep = deep
  sample = sample
  inner = inner
  other = other
  h1 = h1
  h2 = h2
  Threads = {t1, t2, t3}
  Root = t1
  None = none
  Agents = {scan, deep}
  Known = {scan, deep}
  Stays = {deep}
  LastGroup = 3
  Plan <- MCPlan
  Files = {sample, inner, other}
  Hashes = {h1, h2}
  Sha256 <- MCSha256
  Sample = h1
  Extracts <- MCExtracts
  MaxRepivots = 1
  MaxDepth = 2
  MaxChildren = 2
  MaxSignals = 1
  MaxArtifacts = 2
  MaxAborts = 1
INVARIANTS
  ChainDistinct
  ParentWaits
  RunsExplained
PROPERTIES
  EveryWorkflowEnds
CHECK_DEADLOCK FALSE
