CONSTANTS
    local = local
    free = free
    paid = paid
    t1 = t1
    t2 = t2
    Routes <- MCRoutes
    TaskTypes <- MCTaskTypes
    Unpriced = Unpriced
    NoLimit = NoLimit
    Tasks <- MCTasks
    Cached <- MCTasks
    Asked <- MCAsked
    Inventories <- MCInventories
    Seeds <- MCSeeds
    MaxItems = 1
    MaxFaults = 1

SPECIFICATION CacheSpec
SYMMETRY MCSymmetry

INVARIANTS
    CacheTypeOK
    AnswersObeyPolicy
    NothingLostWithoutOverlap

PROPERTY
    HitIsAdmissible

CHECK_DEADLOCK FALSE
