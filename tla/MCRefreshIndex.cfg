CONSTANTS
    s1 = s1  s2 = s2   j1 = j1  j2 = j2
    Strategies = {s1, s2}
    Listing <- Cursor
    PageSize = 1
    MaxPages = 3
    Jobs = {j1, j2}
    Depths = {0, 1}
    Budget = 3
    Failures = 1
SPECIFICATION FairSpec
INVARIANTS RefreshInv
PROPERTIES DocksOnlyTheClosed Converges
