\* Three calls, two of them threads of one process, and one legacy directory whose
\* file may become unreadable and be removed again.
SPECIFICATION FileSpec
CONSTANTS
    c3 = c3
    Calls = {c1, c2, c3}
    Pid <- MCPid
    NoOne = NoOne
    LegacyIds = {}
    LegacyStates = {}
    FloatMax = 4
    Unreadable = Unreadable
    NoSource = NoSource
    InitialFiles <- MCInitialFiles
    LegacyDirs = {d1}
    Absent = Absent
    Requests <- MCRequests
    Costs = {1}
INVARIANT
    CopyIsCurrent
PROPERTIES
    ImplementsAuthority
    LockIsFreed
\* Every process may have died, or every call may be over.
CHECK_DEADLOCK FALSE
