SPECIFICATION FairSpec
CONSTANTS
    Task <- MCTask
    CpuOf <- MCCpuOf
    MaxTimeout = 1
    MaxLost = 1
    MaxMixed = 1
INVARIANTS
    TypeOK
    MutualExclusion
    GrantKept
    CountsMatch
PROPERTIES
    Granted
CHECK_DEADLOCK FALSE
