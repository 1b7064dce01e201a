SPECIFICATION WatchSpec
CONSTANTS
    a = a
    c1 = c1
    c2 = c2
    p1 = p1
    p2 = p2
    p3 = p3
    NoPid = NoPid
    Broken = Broken
    None = None
    Workspaces = {a}
    Calls = {c1, c2}
    Pids = {p1, p2, p3}
    MaxSessions = 2
SYMMETRY PidSymmetry
INVARIANTS
    OneWatchPerWorkspace
    RunningWatchIsRecorded
CHECK_DEADLOCK FALSE
