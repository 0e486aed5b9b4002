SPECIFICATION FairSpec
CONSTANTS
  t1 = t1  t2 = t2  u1 = u1  u2 = u2  None = None
  Ticks = {t1, t2}  Urls = {u1}
  UrlRows = {1}  Docs = {2}  Rows = {1, 2}
  Batches = 2  MaxAttempts = 2  UrlLimit = 1  EmbedLimit = 1
  MaxFaults = 1  MaxRetries = 1
INVARIANTS EmbeddingsBacked ResultQueued
PROPERTY EveryRowSettles
CHECK_DEADLOCK FALSE
