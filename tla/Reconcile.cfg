SPECIFICATION Spec
CONSTANTS
    s1 = s1
    s2 = s2
    a1 = a1
    a2 = a2
    u1 = u1
    None = None
    Subs = {s1, s2}
    Attempts = {a1, a2}
    Users = {u1}
    AttemptOf <- OwnAttempt
    Owner <- OneOwner
    LatePairs <- NoLatePair
    Year = 1
    Grace = 1
    MaxTime = 2
    MaxOps = 4
    MaxInvoices = 3
    MaxRuns = 1
    MaxDelay = None
    CatchAll = TRUE
CONSTRAINTS
    OneOrReturning
INVARIANTS
    OneLivePerUser
    TypeOK
    PaidTimeIsInvoiced
    PeriodsDisjoint
    FreshMeansTrue
PROPERTIES
    InvoicesAreFinal
    RevivedByPayment
    RevivedByNews
CHECK_DEADLOCK FALSE
