SPECIFICATION Spec
CONSTANTS
    c1 = c1
    c2 = c2
    c3 = c3
    s1 = s1
    s2 = s2
    p1 = p1
    Nobody = Nobody
    NoPid = NoPid
    Commands <- MCCommands
    Seeds <- MCSeeds
    Pids <- MCPids
    MaxPolls = 2
    Offered <- OneIsLimited
    EnqueueModes <- Modes
    TaktOverlaps = FALSE
SYMMETRY Interchangeable
INVARIANTS
    TypeOK
    NoRowLost
    TaktAcceptsFile
    QueuedHasPackage
    RunsAreOnFile
    PackageEnqueueReturnsOwnTask
PROPERTIES
    OutcomeIsFinal
CHECK_DEADLOCK FALSE
