\* One turn, up to one approval; one exception anywhere; ticks of five minutes.
SPECIFICATION FairSpec
CONSTANTS
    NormalTtl = 1
    HitlTtl = 3
    ContextTtl = 1
    ApprovalTtl = 2
    MaxSteps = 1
    MaxFailures = 1
    MaxPolls = 2
\* The turn ends: nothing happens after the client has left.
CHECK_DEADLOCK FALSE
INVARIANTS
    TypeOK
    IdsAreIndexes
    ReplayNeverSkips
    BufferOutlivesApproval
    LiveInOrder
PROPERTY StreamEnds
