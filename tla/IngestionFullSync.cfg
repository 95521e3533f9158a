SPECIFICATION Spec
CONSTANTS
  s1 = s1
  s2 = s2
  h1 = h1
  h2 = h2
  None = None
  Jobs = {j1}
  Tenants = {t1}
  Skus = {s1, s2}
  Hashes = {h1, h2}
  Feeds <- MCFeeds
  Catalogs <- MCBothIndexed
  Limit = 1
  EmbedBatch = 1
  MongoBatch = 1
  Attempts = 2
  Faulty = {}
  MaxFaults = 0
  MaxCrashes = 0
PROPERTIES
  FullSyncKeepsMentioned
CHECK_DEADLOCK FALSE
