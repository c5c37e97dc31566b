SPECIFICATION Spec
CONSTANTS
    c1 = c1
    c2 = c2
    c3 = c3
    u1 = u1
    m1 = m1
    NoLimit = NoLimit
    NoCaller = NoCaller
    Callers <- MCCallers
    Users <- MCUsers
    Models <- MCModels
    Estimates <- MCEstimates
    Usages <- MCUsages
    LimitSettings <- MCLimitSettings
    Window = 0
    DayLength = 1
    MaxNow = 1
    MaxEvents = 3
SYMMETRY MCSymmetry
INVARIANTS
    TypeOK
PROPERTY
    Atomic
