\* Three commands on two adapters, and one check of a route.
SPECIFICATION LifecycleSpec
CONSTANTS
    text = text
    vision = vision
    ours = ours
    other = other
    Adapters = {text, vision}
    Routes <- MCRoutes
    Commands = {c1, c2, c3}
    Selections = {t1}
    Handwritten <- MCTwins
    Requests <- MCRequests
    Decisions <- MCDecisions
SYMMETRY Symmetry
INVARIANTS
    LifecycleTypeOK
    StateHasReceipt
    NoSkippedStage
    AllowedIsBacked
\* Every command may be over and the check answered.
CHECK_DEADLOCK FALSE
