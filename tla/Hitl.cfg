\* Two approvals, two requests, one failure or restart at any point.
SPECIFICATION FairSpec
CONSTANTS
    a1 = a1
    a2 = a2
    r1 = r1
    r2 = r2
    Approvals <- MCApprovals
    Requests <- MCRequests
    NoApproval = NoApproval
    MaxFailures = 1
INVARIANTS
    TypeOK
    RowLockInv
    AuditMatchesRow
    ExtraResumeNeedsFailure
    ResumeAgreesWithAudit
PROPERTIES
    DecisionIsFinal
    RequestsFinish
    AcceptedIsResumed
    ImplementsLifecycle
