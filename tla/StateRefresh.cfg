SPECIFICATION FairSpec
CONSTANTS
    t1 = t1
    w1 = w1
    w2 = w2
    a1 = a1
    NoView = NoView
    Tasks <- OneTask
    Watched <- MCWatched
    Asked <- MCAsked
    MaxLog = 2
    EventsLost = TRUE
INVARIANTS
    EveryChangeIsShown
    NoticesMatchFailures
PROPERTIES
    RunningIsNotForever
