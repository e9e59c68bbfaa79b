SPECIFICATION Spec
CONSTANTS
    Chains = {"base", "ethereum"}
    Rows = {"r1", "r2"}
    Home <- MCHome
    Mislisted = {"r2"}
    MaxJobs = 2
    MaxMounts = 2
INVARIANTS MakerDeskInv 
PROPERTIES WaitingEnds
CHECK_DEADLOCK FALSE
