SPECIFICATION ServicesSpec
SYMMETRY Interchangeable
CONSTANTS
  Candidates = {1, 2}
  ManualTrades = {3}
  Instrument <- MCInstrument
  Profit <- MCProfit
  Spread <- MCSpread
  Eligible = {1, 2}
  MinNetProfit = 5
  MaxConcurrent = 1
  Cycles = {c1, c2}
  Operators = {o1}
  MaxVersion = 2
  MaxStarts = 3
  NoProfit = NoProfit
  MaxRequests = 3
  MaxAttempts = 2
  Relays = {r1, r2}
  Fills = {"f1", "f2"}
  FillQuantity <- MCFillQuantity
  Confirms = {d1, d2}
  Closes = {x1, x2}
  CloseKeys = {"k1", "k2", NoKey}
  NoKey = NoKey
  RiskWindowIds = {"v1", "v2"}
  WindowTerms <- MCWindowTerms
  RiskRequests = {1, 2, 3, 4, 5, 6}
  RequestTerms <- MCRequestTerms
  ProfileMax <- MCProfileMax
  ModeLimit <- MCModeLimit
  Hours = {3, 10, 14}
  MaxVerdicts = 3
  NoWindow = NoWindow
  NoRiskKey = NoRiskKey
  Kinds = {1, 2}
  PortfolioKind = 1
  Subjects = {"s1", "s2"}
  MockOnly = {"s2"}
  DetectorLimit = 1
  Detectors = {e1, e2}
  Hooks = {h1, h2}
  MaxRows = 3
  MaxReconSteps = 3
  Orders = {1, 2}
  Playbooks <- MCPlaybooks
  NoEntry = NoEntry
  NoVenueKey = NoVenueKey
  NoAmount = NoAmount
  DEX_VENUE_ENABLED = TRUE
  VENUE_HTTP_BASE_URL = TRUE
  DEX_DEFAULT_SLIPPAGE_BPS = 50
  MOCK_VENUE_FAIL_SUBMIT_REMAINING = 1
  PaperImpactBps = 5
  PaperMultiplier = 10000
  Rates = {98, 101, 102}
  RoundTrips <- MCRoundTrips
  Fees <- MCFees
  GasPolicy <- MCGasPolicy
  KeyIds = {"k1", "k2"}
  Secret <- MCSecret
  ImportSecret <- MCImportSecret
  AddressOf <- MCAddressOf
  NoAddress = NoAddress
  NoRow = NoRow
  Chain = 1
  MaxVaultCalls = 3
  MaxVaultRestarts = 1
  Users = {"ann", "bob"}
  RoleOf <- MCRoleOf
  NoUser = NoUser
  Production = TRUE
  DevRole = "operator"
  MaxConfirms = 2
  MaxOpenings = 2
  ScanPools = {"p","q","r"}
  CreatedAt <- MCCreatedAt
  MaxHead = 8
  EVENT_PAGE_BLOCKS = 1
  EVENT_MAX_PAGES = 2
  ChunkAddrs = 2
  SyncPage = 2
  SyncOverlap = 1
  Factory <- MCFactory
  NumFactories = 2
  BackfillBlocks = 2
  MaxFailures = 2
  NoBlock = NoBlock
  ProbePools <- MCProbePools
  Tokens <- MCTokens
  CanonicalGroups = {"W"}
  ProbePrices = {100, 101}
  LadderPrices = {NoPrice, 100}
  Tvls = {5, 50}
  TvlMin = 1
  TvlMax = 10
  TRIGGER_BPS = 10
  MaxHeuristicGapBps = 2500
  LadderSanityBps = 50
  MinNetPpBps = 0
  ImpactBps <- MCImpactBps
  GasSamples = {1, 30}
  WINDOW = 1
  RAW_FRESH = 2
  HOUR = 2
  COOLDOWN = 1
  RAW_INTERVAL = 3
  REFRESH_INTERVAL = 5
  MAX_QUOTES_PER_HOUR = 1
  SwapSizes = {5}
  MIN_SWAP = 5
  DEPTH_DIVISOR = 10
  MaxProbeClock = 2
  MaxCycles = 2
  MaxPolls = 1
  MaxMoves = 1
  MaxProbeRestarts = 1
  NoPrice = NoPrice
  NoProbeRun = NoProbeRun
  NoProbeTime = NoProbeTime
  HermesCalls <- MCHermesCalls
  HERMES_API_KEYS = {"bff", "agent"}
  HERMES_OPERATOR_ID = "tg"
  AllowedKeys = {"dex"}
  RATE_MAX = 1
  RATE_WINDOW = 2
  MAX_AGE = 1
  MaxHermesClock = 2
  MaxHermesFaults = 1
  MaxGatewayRestarts = 1
  NoOperator = NoOperator
  NoIdem = NoIdem
  Opps <- MCOpps
  Trips <- MCTrips
  Book <- MCBook
  STAPLE_DECIMALS <- MCStaples
  KnownDecimals <- MCKnown
  Addresses = {"0xweth", "0xcrv", "0xnew"}
  UsdPrices = {100, 300}
  FeeTiers = {500}
  RoundTripAnswers = {0, 7}
  NotionalUsd = 50
  MinRoundTrip = 0
  SCALE = 100
  Lanes <- MCLanes
  LegCount = 1
  Absent = Absent
  Empty = Empty
  Junk = Junk
INVARIANTS
  ActiveIsReserved  FillsCountOnce
  WindowSpentOnce AnswersAreTrue SignerMatchesAddress
  WritesAreConfirmed NothingPassedOver WindowsMatchRows AcknowledgedIsAudited
  LegsCarryTheAsk
PROPERTY IncidentsAreSound
CHECK_DEADLOCK FALSE
