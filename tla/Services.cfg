SPECIFICATION ServicesSpec
CONSTANTS
    u1 = u1
    u2 = u2
    m1 = m1
    k1 = k1
    k2 = k2
    c1 = c1
    c2 = c2
    c3 = c3
    None = None
    Nothing = Nothing
    NoPlan = NoPlan
    NoRow = NoRow
    Users = {u1, u2}
    Mails = {m1}
    Mail <- OneMail
    Words = {w1, w2}
    Requests = {c1, c2, c3}
    MaxSessions = 2
    MaxTokens = 3
    MaxWrites = 2
    MaxAttempts = 2
    Lease = 2
    RetryBase = 1
    RetryMax = 1
    ProviderRetry = 2
    Keys = {k1, k2}
    MaxFaults = 1
    Customers = {p1}
    MaxCheckouts = 3
    Capacity = 1
    Eaters = {e1}
    Inputs = {i1, i2}
    Recent = {}
    LimitFree = 1
    LimitPremium = 1
    Seats = 2
    LastDay = 1
    MaxPlans = 3
    Collectors = {q1, q2}
    CapDay = 2
    CapLast = 3
    Estimate = 1
    Price = 2
    Retries = 1
    StartReserve = 1
    RunLimit = 3
    Backlog = 1
    LastWeek = 1
    LastHour = 1
    MaxKills = 1
    MaxPaid = 1
    MaxStamps = 3
INVARIANTS
    ServicesTypeOK
    OnlyCurrent
    NoLeftoverEnters
    SpentStaysSpent
    PlacesHeld
    QuotaHeld
    BudgetHeld
PROPERTIES
    ResetSettles
CHECK_DEADLOCK FALSE
