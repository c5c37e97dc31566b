SPECIFICATION SeedFairSpec
CONSTANTS
    p1 = p1
    p2 = p2
    p3 = p3
    ua = ua
    admin = admin
    ta = ta
    tadmin = tadmin
    other = other
    m1 = m1
    Processes <- MCProcesses
    Seeders <- MCSeeders
    UserIds <- MCUserIds
    TokenIds <- MCTokenIds
    Tokens <- MCTokens
    ModelIds <- MCModelIds
    SeedUsers <- MCSeedUsers
    SeedModels <- MCSeedModels
    Admin = admin
    OldRows <- MCOldRows
    MaxKills = 1
    MaxEdits = 1
CHECK_DEADLOCK FALSE
INVARIANTS
    SeedTypeOK
    ReadyMeansComplete
    FailureExplained
    SeedLasts
    ReferencesKept
    SeedsDoNotCollide
PROPERTY
    SomeoneGetsReady
