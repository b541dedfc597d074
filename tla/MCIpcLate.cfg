SPECIFICATION Spec
CONSTANTS
    Task <- MCTask
    Cmd <- MCCmd
    MaxCalls = 2
    MaxTimeout = 1
INVARIANTS
    CallbackDone
CHECK_DEADLOCK FALSE
