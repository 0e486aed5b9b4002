SPECIFICATION FairSpec
CONSTANTS
  s1 = s1  s2 = s2  t1 = t1  t2 = t2  h1 = h1  h2 = h2  u1 = u1
  NoUser = NoUser  NoHash = NoHash
  Stores = {s1, s2}  Collectors = {t1, t2}  Hashes = {h1, h2}
  Users = {u1}  Size <- SmallAndLarge  Limit <- LimitOfTwo
  MaxArtifacts = 2  MaxMishaps = 1
INVARIANTS LossOnlyByRace StoredWithinQuota AccountingExact
PROPERTY GarbageCollected
CHECK_DEADLOCK FALSE
