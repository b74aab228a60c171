SPECIFICATION HealthSpec
CONSTANTS
    listed = listed
    found = found
    s1 = s1
    s2 = s2
    Routes <- MCRoutes
    Declared <- MCDeclared
    Trials <- MCTrials
    Barred <- MCNone
    Sessions <- MCPair
    Kind <- MCRefreshAndAdapter
    Errors <- MCEvery
    Base = 1
    Cap = 2
    Quarantine = 3
    TTL = 1
    Horizon = 2
    MaxFaults = 1
    MaxActive = 1
CHECK_DEADLOCK FALSE
INVARIANT
    LoneSessionIsExact
