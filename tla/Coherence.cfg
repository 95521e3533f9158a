SPECIFICATION FairSpec
CONSTANTS
  c1 = c1
  c2 = c2
  t1 = t1
  q1 = q1
  q2 = q2
  None = None
  Tenants = {t1}
  Conversations = {c1, c2}
  Jobs = {j1}
  Questions = {q1, q2}
  TenantOf <- MCTenantOf
  Asks <- MCAsks
  Similarity <- MCSimilarity
  Threshold = 2
  Capacity = 1
  TTL = 2
  MaxRounds = 1
  MaxChanges = 1
  MaxFaults = 1
INVARIANTS
  StaleNeedsOverlapOrRecall
  ListsExpire
PROPERTIES
  KeepsPromise
  StaleAnswersGo
CHECK_DEADLOCK FALSE
