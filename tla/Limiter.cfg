SPECIFICATION FairSpec
CONSTANTS
    c1 = c1
    c2 = c2
    c3 = c3
    c4 = c4
    Clients <- MCClients
    MaxConcurrency = 2
INVARIANTS
    TypeOK
    PermitsConserved
    NoLostWakeUp
PROPERTY
    FirstComeFirstServed
    WaitersGetIn
