SPECIFICATION Spec
CONSTANTS
    c1 = c1
    c2 = c2
    c3 = c3
    s1 = s1
    s2 = s2
    p1 = p1
    Nobody = Nobody
    NoPid = NoPid
    Commands <- TwoCommands
    Seeds <- OneSeed
    Pids <- MCPids
    MaxPolls = 2
    Offered <- AnyOperation
    EnqueueModes <- Modes
    TaktOverlaps = TRUE
INVARIANTS
    RunsAreOnFile
CHECK_DEADLOCK FALSE
