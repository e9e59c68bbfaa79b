SPECIFICATION DiscoverySpec
CONSTANTS
    Keys <- MCKeys
    Values <- MCValues
    MaxCalls = 3
    Unit = 2000
    Addresses = {t1, t2}
    Malformed = none
    MaxAsked = 3
    MaxEndpoints = 2
    Deployments = {0, 1}
INVARIANTS PanelsInv 
CHECK_DEADLOCK FALSE
