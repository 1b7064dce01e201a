SPECIFICATION FairSpec
CONSTANTS
    c1 = c1
    c2 = c2
    c3 = c3
    c4 = c4
    c5 = c5
    main = main
    isolated = isolated
    NoCall = NoCall
    Calls <- MCCalls
    Keys <- MCKeys
    KeyOf <- MCKeyOf
INVARIANTS
    MutualExclusion
    FirstComeFirstServed
    EntryIffActive
PROPERTIES
    ImplementsExclusiveSection
    EveryCallLeaves
CHECK_DEADLOCK FALSE
