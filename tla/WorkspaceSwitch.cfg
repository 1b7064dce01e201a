SPECIFICATION FairSpec
CONSTANTS
    a = a
    b = b
    r1 = r1
    None = None
    Workspaces = {a, b}
    MaxTransitions = 3
    MaxLeaks = 1
    Askable <- Asks
    Refreshes = {r1}
INVARIANTS
    
    ConnectionsAreTracked
    LastRequestWins
PROPERTIES
    EveryTransitionEnds
    ImplementsRegister
CHECK_DEADLOCK FALSE
