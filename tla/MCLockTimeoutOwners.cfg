SPECIFICATION Spec
CONSTANTS
    Task <- MCTask
    CpuOf <- MCCpuOf
    MaxTimeout = 1
    MaxLost = 0
    MaxMixed = 0
INVARIANTS
    OneHolder
