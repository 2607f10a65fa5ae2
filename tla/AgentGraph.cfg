\* Two messages, two approvals, three runs of the graph, one fault.
SPECIFICATION Spec
CONSTANTS
    weather = weather
    search = search
    Tools <- MCTools
    Sensitive <- MCSensitive
    Attempts = 2
    Primary = 1
    Fallbacks = 1
    MaxTurns = 2
    MaxApprovals = 2
    MaxRuns = 3
    MaxActive = 2
    MaxFaults = 1
\* The bounds stop the model.
CHECK_DEADLOCK FALSE
INVARIANTS
    TypeOK
    SensitiveNeedsApproval
    DecisionIsCarriedOut
    SuspendedIsResumable
    AnsweredOnce
PROPERTY
    RunsEnd
