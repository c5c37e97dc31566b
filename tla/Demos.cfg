SPECIFICATION DemoSpec
CONSTANTS
    s1 = s1
    s2 = s2
    ua = ua
    ub = ub
    uc = uc
    m1 = m1
    NoLimit = NoLimit
    TextModel = m1
    Scripts <- MCScripts
    Users <- MCUsers
    Models <- MCModels
    Estimates <- MCEstimates
    Usages <- MCUsages
    LimitSettings <- MCLimitSettings
    LineUps <- MCLineUps
    Window = 1
    DayLength = 3
    MaxNow = 2
    MaxEvents = 12
    MaxRetries = 1
    MaxFaults = 1
INVARIANTS
    DemoTypeOK
    DemosDoNotInterfere
    PassMeansProved
    LimitsRestored
    PreflightPredictsChat
