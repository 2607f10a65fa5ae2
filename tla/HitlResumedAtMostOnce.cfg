SPECIFICATION Spec
CONSTANTS
    a1 = a1
    a2 = a2
    r1 = r1
    r2 = r2
    Approvals = {a1}
    Requests <- MCRequests
    NoApproval = NoApproval
    MaxFailures = 1
INVARIANT ResumedAtMostOnce
