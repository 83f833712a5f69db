SPECIFICATION Spec
CONSTANTS
    s1 = s1
    s2 = s2
    a1 = a1
    a2 = a2
    u1 = u1
    None = None
    Subs = {s1, s2}
    Attempts = {a1, a2}
    Users = {u1}
    AttemptOf <- OwnAttempt
    Owner <- OneOwner
    LatePairs <- NoLatePair
    Year = 1
    Grace = 1
    MaxTime = 1
    MaxOps = 5
    MaxInvoices = 1
    MaxRuns = 1
    MaxDelay = 2
    CatchAll = FALSE
CONSTRAINTS
    FirstEndsSecondReturned
PROPERTIES
    CreationRevivesNothing
CHECK_DEADLOCK FALSE
