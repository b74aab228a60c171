\* Two callers, and two legacy directories whose files an earlier release rewrites.
SPECIFICATION Spec
CONSTANTS
    Calls = {c1, c2}
    l1 = l1
    LegacyIds = {l1}
    LegacyStates <- MCLegacyStates
    FloatMax = 5
    Unreadable = Unreadable
    NoSource = NoSource
    InitialFiles <- MCInitialFiles
    LegacyDirs = {d1, d2}
    Absent = Absent
    Requests <- MCRequests
    Costs <- MCCosts
SYMMETRY Symmetry
INVARIANTS
    TypeOK
    ActiveWithinMax
    ExposureBounded
    ReservationsMatchCallers
    SpentIsAccounted
    ImportedIsKept
PROPERTIES
    StopIsFinal
    NothingIsReset
    AdmissionAgreesWithLegacy
    ImplementsCap
