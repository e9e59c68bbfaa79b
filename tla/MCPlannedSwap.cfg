CONSTANTS
  a1 = a1  a2 = a2  b1 = b1  b2 = b2  alice = alice  bob = bob
  Makers <- MCMakers
  Strategies <- MCStrategies
  OwnerOf <- MCOwnerOf
  Faithful <- MCStrategies
  Rate <- MCRate
  QuoteLevels = {}
  MaxDelta = 7
  Routes <- MCRoutes
  Requests = {7}
  Floors = {0}
  WalletLevels = {2, 3}
  AllowanceLevels = {4}
  VirtualLevels = {3}
  PoolLevels = {50}
  Budget = 7
  Listed <- MCListed
  Books <- MCBooks
  Whole = 100
  Tolerance = 10
  Prices <- MCPrices
  ProbeShare = 2
  GeometricSteps = 3
  LinearSteps = 2
  TrimPasses = 4
SPECIFICATION PlannedSpec
INVARIANTS PlannedInv AnswersAddUp
PROPERTIES QuoteIsHonoured IsAtomic SwapEnds
