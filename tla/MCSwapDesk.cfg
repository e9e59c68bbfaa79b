CONSTANTS
    Chains = {8453, 1}
    Pairs = {"usdc-weth", "custom"}
    Amounts = {1}
    DefaultChain = 8453
    DefaultPair = "usdc-weth"
    DefaultAmount = 1
    Offers <- MCOffers
    MaxMoves = 1
    MaxGen = 3
    MaxRuns = 1
SPECIFICATION Spec
INVARIANTS DeskInv 
PROPERTIES DoneOnItsChain BusyEnds
CHECK_DEADLOCK FALSE
