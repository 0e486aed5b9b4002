SPECIFICATION ProjectsSpec
CONSTANTS
  h = h  k = k  t = t  u = u  a = a  b = b  c = c  d = d  p = p  q = q
  HookIds = {h, k}  Ticks = {t, u}  Intervals = {1, 2}  Plans <- OneOfEachOrUploads
  MaxPerEvent = 1  MaxTime = 2  MaxEdits = 2  MaxUploads = 1  MaxFaults = 1
  Contents <- WithAndWithoutMemory  Seats = {"admin", "owner", "user"}  MaxInterference = 2
  Threads = {a, b, c, d}  Projects = {p, q}  Homes <- TwoProjects  Shapes <- ChainAndStar
  NoThread = NoThread  MaxSettings = 2
INVARIANT DeletedIsGone
CHECK_DEADLOCK FALSE
