SPECIFICATION Spec
CONSTANTS
    k1 = k1
    k2 = k2
    Watcher = Watcher
    None = None
    Roots <- OneRoot
    Spare <- TwoSpares
    Calls <- TwoCalls
    Settling <- OneRoot
    Outside = {}
    EnqueueModes <- Modes
    Settable = {}
    TornReads = FALSE
SYMMETRY Interchangeable
INVARIANTS
    PlanCreatedOnce
CHECK_DEADLOCK FALSE
