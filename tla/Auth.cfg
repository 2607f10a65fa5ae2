\* At most four requests, two at a time, one fault.
SPECIFICATION Spec
CONSTANTS
    h1 = h1
    h2 = h2
    plain = plain
    capital = capital
    Handlers <- MCHandlers
    Spellings <- MCSpellings
    Stored <- MCLower
    Key <- MCLower
    SoftLimit = 2
    RateLimit = 3
    AccessLife = 2
    RefreshLife = 3
    MaxRequests = 4
    MaxPairs = 4
    MaxTime = 3
    MaxFaults = 1
\* The bounds stop the model.
CHECK_DEADLOCK FALSE
INVARIANTS
    TypeOK
    GuessesBounded
    UntimedOnlyByFault
    RotatedTwiceOnlyByOverlap
    RotationIsAtomic
    RepliedTokensAreStored
    LoggedOutIsRejected
PROPERTY BlockEnds
