SPECIFICATION TradingSpec
CONSTANTS
  p1 = p1
  l1 = l1
  l2 = l2
  w1 = w1
  w2 = w2
  k1 = k1
  Plans = {p1}
  Legs = {l1, l2}
  Workers = {w1, w2}
  Keys = {k1}
  PlanOf <- MCPlanOf
  Kind <- MCKind
  Target = 3
  AutoFail = TRUE
  MaxCrashes = 1
  NoLeg = NoLeg
  NoPlan = NoPlan
  NoKey = NoKey
  Ingests = {1, 2, 3, 4, 5, 6, 7}
  IngestTerms <- MCIngestTerms
  NoIngestKey = NoIngestKey
  NoContent = NoContent
  Rounded <- MCRounded
  PrintedAlike = {"y"}
  MaxThrottles = 2
  Resolvers = {r1, r2}
  Lookups = {"key", "pair"}
  Matches <- MCMatches
  MaxRowVersion = 2
  Instances = {"n1", "n2"}
  Enabled = {"n1"}
  RemoteInstances = {{"n1"}, {"n2"}}
  Whitelist <- MCWhitelist
  PoolFacts <- MCPoolFacts
  Prices = {5, 7}
  MinPoolLiquidity = 5
  MinSpread = 1
  MinLiquidity = 1
  VolumeFilter = FALSE
  BucketCapacity = 1
  Scans = {c1}
  Republishers = {"operator"}
  MaxFindings = 2
  MaxOpportunities = 2
  MaxScans = 1
  MaxRepublished = 1
  MaxPublishAttempts = 2
  OrphanBatch = 1
  Opps = {1, 2}
  Evaluations = {"e1", "e2", "e3"}
  KeyOf <- MCKeyOf
  MaxDecisions = 3
  Nil = Nil
  Quotes <- MCQuotes
  Policies = {"null", "wide"}
  PolicyOf <- MCPolicyOf
  MaxDiscoveries = 2
  MaxRowsFound = 2
  Reviewers = {v1}
  DriftKeys <- MCDriftKeys
  Recorders = {d1, d2}
  MaxClock = 6
  RpcDelay = 1
  PoolTtl = 1
  PriceTtl = 1
  FeeTtl = 2
  OraclePools = {1}
  SeedReads = {s1, s2}
  Askers = {a1, a2}
  FeeTiers = {1, 2, 3}
  TierLiquidity <- MCTierLiquidity
  DefaultTier = 3
  HealthChecks = {h1, h2}
  GatedPlans <- MCGatedPlans
  PairPools <- MCPairPools
  GrossProfit = 17
  MinNetSeen <- MCMinNetSeen
  SafeMinNet = 5
  EnvMinNet = 1
SYMMETRY WorkerSymmetry
INVARIANTS
  TypeOK CompletedMeansFilled AtMostOneSubmission ProgressIsReal ProofMatchesLeg OutboxMatchesRows
  FilledPlanIsBeingFinished
  HistoryMatchesRow PublishedNamesOpportunity DecisionIsOwn VerdictOnce PricesAreRecent GateCoversCosts
PROPERTIES
  HistoryStands
CHECK_DEADLOCK FALSE
