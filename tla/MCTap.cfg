CONSTANTS
  a1 = a1  b1 = b1  alice = alice  bob = bob
  Makers <- MCMakers
  Strategies <- MCStrategies
  OwnerOf <- MCOwnerOf
  Faithful = {b1}
  Rate <- OneForOne
  QuoteLevels = {0, 1}
  MaxDelta = 2
  Routes <- MCRoutes
  Requests = {2, 3}
  Floors = {0, 2}
  WalletLevels = {1, 3}
  AllowanceLevels = {3}
  VirtualLevels = {1, 3}
  PoolLevels = {1, 8}
  Budget = 2
SPECIFICATION Spec
INVARIANTS TapInv
PROPERTIES AllOrNothing 
