SPECIFICATION ReportSpec
CONSTANTS
    u1 = u1
    u2 = u2
    u3 = u3
    m1 = m1
    m2 = m2
    NoLimit = NoLimit
    Users <- MCUsers
    Models <- MCModels
    AdminUsers <- MCAdminUsers
    Estimates <- MCEstimates
    Usages <- MCUsages
    LimitSettings <- MCLimitSettings
    RecentLimit = 2
    Window = 1
    DayLength = 1
    MaxNow = 0
    MaxEvents = 3
SYMMETRY MCSymmetry
INVARIANTS
    ReportTypeOK
    SummaryAccountedFor
    ListFollowsSections
    TotalsMatchEvents
PROPERTY
    SettledRowsStay
