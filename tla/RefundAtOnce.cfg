SPECIFICATION Spec
CONSTANTS
    s1 = s1
    s2 = s2
    a1 = a1
    a2 = a2
    u1 = u1
    None = None
    Subs = {s1}
    Attempts = {a1}
    Users = {u1}
    AttemptOf <- OneAttemptOf
    Owner <- OneOwner
    LatePairs <- NoLatePair
    Year = 1
    Grace = 1
    MaxTime = 1
    MaxOps = 4
    MaxInvoices = 3
    MaxRuns = 0
    MaxDelay = None
    CatchAll = FALSE
INVARIANTS
    FullRefundEndsAccessAtOnce
CHECK_DEADLOCK FALSE
