SPECIFICATION Spec
CONSTANTS
    u1 = u1
    m1 = m1
    NoLimit = NoLimit
    Users <- MCUsers
    Models <- MCModels
    Estimates <- MCEstimates
    Usages <- MCUsages
    LimitSettings <- MCLimitSettings
    Window = 1
    DayLength = 2
    MaxNow = 2
    MaxEvents = 3
INVARIANTS
    TypeOK
    WithinRateLimit
    WithinTokenLimits
    WithinLimitOfOwnDay
