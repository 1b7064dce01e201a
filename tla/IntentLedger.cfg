SPECIFICATION Spec
CONSTANTS
    u1 = u1
    u2 = u2
    None = None
    Users <- MCUsers
    MaxPasses = 2
    MaxAttempts = 2
    MaxSessions = 2
SYMMETRY Interchangeable
INVARIANTS
    TypeOK
    NoReportForgotten
    RequirementsAreAdopted
PROPERTIES
    VerdictIsLocked
CHECK_DEADLOCK FALSE
