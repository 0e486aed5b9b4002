SPECIFICATION LimitsSpec
CONSTANTS
  a = a  b = b  c = c  NoSession = NoSession
  Sessions = {a, b, c}  Streaming = {b, c}
  Estimate = 3  Reports <- PromptOrCompletion  Excess = 1  Limit = 6
  MaxStreams = 1  MaxCalls = 1  MaxChunks = 2  MaxNights = 1  MaxFaults = 1
  r1 = r1  r2 = r2  r3 = r3  ann = ann  ben = ben  p = p  q = q  x = x  y = y  z = z
  NoUser = NoUser  Nothing = Nothing  Shared = Shared
  Requests = {r1, r2, r3}  Users = {ann, ben}
  Pages = {p, q}  Asks <- PairAndThird  Addresses = {x, y, z}  Barred = {y}
  Rules <- BlockThenAllow  MaxUsers <- SmallMaps
  GlobalRpm = 2  UserRpm = 1  Minute = 2
  ShortWait = 1  LongWait = 2  MaxRedirects = 1  CacheTtl = 1  LimiterTtl = 3
INVARIANTS LedgerExplained OverrunBounded CallsVetted AnswersExplained RequestsPaced
PROPERTY SlotsAsPool
CHECK_DEADLOCK FALSE
