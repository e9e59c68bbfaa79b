CONSTANTS
    Requests = {"r1", "r2", "r3"}
    Keys = {1, 2}
    TTL = 1
    CacheMax = 0
    MaxCompute = 2
    MaxNow = 3
SPECIFICATION FairSpec
INVARIANTS RouteInv
PROPERTIES PlansAreCurrent Answered
CHECK_DEADLOCK FALSE
