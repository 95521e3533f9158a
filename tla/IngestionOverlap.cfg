SPECIFICATION Spec
CONSTANTS
  s1 = s1
  s2 = s2
  h1 = h1
  h2 = h2
  None = None
  Jobs = {j1, j2}
  Tenants = {t1, t2}
  Skus = {s1, s2}
  Hashes = {h1, h2}
  Feeds <- MCFeeds
  Catalogs <- MCCatalogs
  Limit = 2
  EmbedBatch = 1
  MongoBatch = 1
  Attempts = 2
  Faulty = {"weaviate", "mongo", "redis", "postgres"}
  MaxFaults = 2
  MaxCrashes = 0
INVARIANTS
  SoloJobIndexesItsFeed
  IndexedIsReplayable
  ReportAddsUp
  CompletedJobInvalidated
PROPERTIES
  OnlyFullSyncDeletes
CHECK_DEADLOCK FALSE
