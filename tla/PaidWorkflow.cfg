\* Two tasks of one workflow try two routes each.
SPECIFICATION PaidSpec
CONSTANTS
    a = a
    b = b
    Tasks = {a, b}
    Plan <- MCWorkflowPlan
    Unpriced = Unpriced
    Calls <- MCCalls
    LegacyIds = {}
    LegacyStates <- MCNoLegacyStates
    FloatMax = 4
    Unreadable = Unreadable
    NoSource = NoSource
    InitialFiles <- MCWorkflowFiles
    LegacyDirs = {}
    Absent = Absent
    Requests <- MCRequests
    Costs <- MCCosts
INVARIANTS
    PaidTypeOK
    SentIsReserved
    OwedIsAccounted
    LeftoversAreExplained
    FinalVerdicts
PROPERTIES
    ImplementsAuthority
\* A task that has ended takes no step.
CHECK_DEADLOCK FALSE
