\* A workflow task beside one without a workflow, with skipped and free routes.
SPECIFICATION PaidSpec
CONSTANTS
    a = a
    b = b
    Tasks = {a, b}
    Plan <- MCMixedPlan
    Unpriced = Unpriced
    Calls <- MCCalls
    LegacyIds = {}
    LegacyStates <- MCMixedLegacyStates
    FloatMax = 4
    Unreadable = Unreadable
    NoSource = NoSource
    InitialFiles <- MCMixedFiles
    LegacyDirs = {d1}
    Absent = Absent
    Requests <- MCRequests
    Costs <- MCFewCosts
INVARIANTS
    AnswersArePaidFor
PROPERTIES
    TaskEnds
    ReservationResolved
\* A task that has ended takes no step.
CHECK_DEADLOCK FALSE
