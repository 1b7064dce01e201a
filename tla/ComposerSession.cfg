SPECIFICATION Spec
CONSTANTS
    c1 = c1
    c2 = c2
    w1 = w1
    w2 = w2
    None = None
    Calls <- MCCalls
    Workspaces <- MCWorkspaces
    MaxSessions = 2
    MaxTurns = 2
    MaxCalls = 4
SYMMETRY Interchangeable
INVARIANTS
    TypeOK
    ActiveIsInMemory
    TurnsFollowBindings
    ApplyFindsThread
    RestartLosesNothing
CHECK_DEADLOCK FALSE
