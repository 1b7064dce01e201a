SPECIFICATION Spec
CONSTANTS
    k1 = k1
    k2 = k2
    Watcher = Watcher
    None = None
    Roots <- OneRoot
    Spare <- TwoSpares
    Calls <- TwoCalls
    Settling <- OneRoot
    Outside = {2}
    EnqueueModes <- Modes
    Settable = {"ready_to_create"}
    TornReads = TRUE
SYMMETRY Interchangeable
INVARIANTS
    CreatedAfterUpstream
    ReadyNeedsCompletedUpstream
    LinksAreReal
    FlightsAreExclusive
CHECK_DEADLOCK FALSE
