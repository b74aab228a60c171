\* The liability that a refused settlement leaves, against the handler that releases it.
SPECIFICATION PaidSpec
CONSTANTS
    a = a
    b = b
    Tasks = {a, b}
    Plan <- MCWorkflowPlan
    Unpriced = Unpriced
    Calls <- MCCalls
    LegacyIds = {}
    LegacyStates <- MCNoLegacyStates
    FloatMax = 4
    Unreadable = Unreadable
    NoSource = NoSource
    InitialFiles <- MCWorkflowFiles
    LegacyDirs = {}
    Absent = Absent
    Requests <- MCRequests
    Costs <- MCCosts
PROPERTIES
    LiabilityKept
CHECK_DEADLOCK FALSE
