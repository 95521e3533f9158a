SPECIFICATION FairSpec
CONSTANTS
  s1 = s1
  s2 = s2
  h1 = h1
  h2 = h2
  None = None
  Jobs = {j1, j2}
  Tenants = {t1}
  Skus = {s1, s2}
  Hashes = {h1, h2}
  Feeds <- MCFeeds
  Catalogs <- MCCatalogs
  Limit = 1
  EmbedBatch = 2
  MongoBatch = 2
  Attempts = 2
  Faulty = {"weaviate", "mongo", "redis", "postgres"}
  MaxFaults = 2
  MaxCrashes = 1
PROPERTIES
  JobsEnd
CHECK_DEADLOCK FALSE
