\* Two conversations, three transactions or listings, two at a time, one fault.
SPECIFICATION Spec
CONSTANTS
    k1 = k1
    k2 = k2
    c1 = c1
    c2 = c2
    Clients <- MCClients
    Convs <- MCConvs
    MinAccess = 1
    PageSize = 1
    MaxStarts = 3
    MaxClock = 3
    MaxBoots = 1
    MaxFaults = 1
\* The bounds stop the model.
CHECK_DEADLOCK FALSE
INVARIANTS
    TypeOK
    PurgeIsSafe
    WorkNeedsDatabase
    SameTitleOnlyByRace
    MessageCountAgrees
    PagesMissOnlyTies
PROPERTY
    StaleIsPurged
