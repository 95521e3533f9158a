SPECIFICATION ServicesSpec
CONSTANTS
  None = None
  Callers = {c1, c2, c3}
  Limit = 1
  Window = 2
  MaxCount = 3
  MaxFailures = 1
  s1 = s1
  s2 = s2
  s3 = s3
  m1 = m1
  m2 = m2
  fast = fast
  odd = odd
  Streams = {s1, s2, s3}
  Merchants = {m1, m2}
  MerchantOf <- MCMerchantOf
  LongIds = {s3}
  Models = {fast, odd}
  Priced <- MCPriced
  Usages <- MCUsages
  PoolSize = 3
  MaxCalls = 1
  MaxFaults = 1
  MaxTime = 2
  Routers = {r1}
  Maps = {e1}
  Torn = Torn
  MaxWrites = 2
  k1 = k1
  k2 = k2
  k3 = k3
  k4 = k4
  k5 = k5
  Feed <- MCFeed
  Taxonomy = {Other}
  Uncategorized = Other
  BatchSize = 2
  WaveSize = 2
  Attempts = 2
  Pilots = {4, None}
  MaxStops = 2
  Skus = {s1, s2}
  Hashes = {h1, h2}
  Unusable = Unusable
  RetrieveTopK = 2
  SortPoolSize = 3
  SearchLimit = 1
  LongMessageTokens = 5
  EscalateAfterRounds = 2
  MaxToolCallRounds = 2
  RateUnit = 15
  Discount <- MCDiscount
  Unreadable = Unreadable
  NotANumber = NotANumber
  Infinite = Infinite
  DefaultCategory = DefaultCategory
  Absent = Absent
  Classes = {kA, kB}
  Alphas = {0, 1, 2}
  kA = kA
  kB = kB
  Older = {c3}
  Wares = {w1, w2}
  Stale = w0
  Environments = {"local", "prod"}
  d1 = d1
  d2 = d2
  d3 = d3
  MaxRows = 4
  MaxProducts = 4
  MaxRounds = 2
  MaxDigits = 7
  MaxWords = 9
  MaxCatalogs = 16
  MaxPrices = 6
  MaxRanking = 4
  MaxListed = 2
  MaxScored = 3
  MaxSwept = 4
INVARIANTS
  TwiceTheLimitAtMost
  BillsAddUp
  StaleNeedsABadMoment
  PaidForOnce
  SchemaSettles
  OneOfEach
  ReRunsHeal
  LastRowWins
  PagesAreFull
  SortedAgreesWithStats
  OnlySiblingsMislead
  FlagsAreFair
  CluesDecideTheClass
  PricesSurvive
  SuspectsAreFlagged
  RowsAreMapped
  RowsAreIdentified
  RegressionsAreCaught
PROPERTIES
  WindowsEnd
  StreamsEnd
CHECK_DEADLOCK FALSE
