\* No failures at all: a reconnect is refused while the buffer is alive.
SPECIFICATION Spec
CONSTANTS
    NormalTtl = 1
    HitlTtl = 3
    ContextTtl = 1
    ApprovalTtl = 2
    MaxSteps = 0
    MaxFailures = 0
    MaxPolls = 2
CHECK_DEADLOCK FALSE
INVARIANT ExpiredMeansNoBuffer
