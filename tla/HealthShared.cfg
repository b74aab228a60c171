SPECIFICATION HealthSpec
CONSTANTS
    listed = listed
    found = found
    s1 = s1
    s2 = s2
    Routes <- MCRoutes
    Declared <- MCDeclared
    Trials <- MCTrials
    Barred <- MCNone
    Sessions <- MCPair
    Kind <- MCTaskAndTrial
    Errors <- MCUsual
    Base = 1
    Cap = 2
    Quarantine = 3
    TTL = 0
    Horizon = 1
    MaxFaults = 0
    MaxActive = 2
CHECK_DEADLOCK FALSE
INVARIANTS
    HealthTypeOK
    CooldownsAreBounded
PROPERTY
    UndeclaredNeedsSuccess
