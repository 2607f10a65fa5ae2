\* No failures at all: approve, reconnect, and the answer is not shown.
SPECIFICATION Spec
CONSTANTS
    NormalTtl = 1
    HitlTtl = 3
    ContextTtl = 1
    ApprovalTtl = 2
    MaxSteps = 1
    MaxFailures = 0
    MaxPolls = 2
CHECK_DEADLOCK FALSE
INVARIANT ResumedEventsDisplayed
