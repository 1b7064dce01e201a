SPECIFICATION Spec
CONSTANTS
    s1 = s1
    s2 = s2
    l1 = l1
    l2 = l2
    None = None
    Sends <- MCSends
    Loads <- MCLoads
    MaxThreads = 2
INVARIANTS
    BusyHasSender
    SenderIsBusy
    TurnsAreOfThread
PROPERTIES
    BusyEnds
