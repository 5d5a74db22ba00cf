SPECIFICATION WindowsSpec
CONSTANTS
    D = 2
    QueryWindow = 2
    RunWindow = 2
    Duration = 3
    MonthToDateRunInterval = 2
    MonthDays = 2
    Refresh = 1
    Latency = 1
    MaxOutage = 1
    FirstDay = 5
    LastDay = 8
    MaxStops = 1
    MaxRepairs = 1
INVARIANTS NothingLeftBehind StoredIsCovered
PROPERTIES GoodRunStoresAll
CHECK_DEADLOCK FALSE
ACTION_CONSTRAINT CallsOverlap
CONSTRAINT BuildBound
