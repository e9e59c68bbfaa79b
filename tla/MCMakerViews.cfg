CONSTANTS
    Strategies = {"a", "b", "c"}
    Router = "router"
    AppOf <- MCAppOf
    Genesis <- MCGenesis
    MaxAmt = 1
    MaxHeld = 2
    MaxBlock = 3
    MaxMoves = 1
    Readers = {"r1", "r2"}
    MaxScans = 2
    Page = 0
    Budget = 2
    Cap = 1
    TTL = 1
    MaxScan = 1
    MaxFaults = 1
    Asks <- MCAsks
    MaxLag = 1
    MakersTTL = 1
SPECIFICATION Spec
INVARIANTS ViewsInv  
PROPERTIES AnswersAreRecent
CHECK_DEADLOCK FALSE
