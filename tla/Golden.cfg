CONSTANTS
    cand = cand
    base = base
    twin = twin
    none = none
    Routes <- MCRoutes
    TaskTypes <- MCTaskTypes
    Unpriced = Unpriced
    NoLimit = NoLimit
    Inventory <- MCInventory
    Matches <- MCMatches
    Candidate = cand
    Baseline = base
    NoRoute = none
    Suites <- MCSuites
    Absent = Absent
    Reviews <- MCReviews
    NoReview = none
    Allowances <- MCAllowances
    Window = 4
    MaxOthers = 1

SPECIFICATION GoldenSpec

INVARIANTS
    GoldenTypeOK
    EvidenceIsOwn
    

CHECK_DEADLOCK FALSE
