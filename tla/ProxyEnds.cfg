SPECIFICATION FairSpec
CONSTANTS
    r1 = r1
    r2 = r2
    u1 = u1
    m1 = m1
    NoLimit = NoLimit
    NoUsage = NoUsage
    Requests <- MCTwoRequests
    Users <- MCUsers
    Models <- MCModels
    Estimates <- MCEstimates
    Usages <- MCUsages
    LimitSettings <- MCNoSettings
    Window = 1
    DayLength = 2
    MaxNow = 0
    MaxEvents = 2
    MaxConcurrency = 1
    Faults = {"disconnect", "broken", "locked"}
    MaxCrashes = 0
PROPERTY
    EveryRequestEnds
    ReservationsSettle
