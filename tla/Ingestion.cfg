SPECIFICATION FairSpec
CONSTANTS
    Keys = {k1, k2}
    Versions = {v1, alien}
    UnknownVersions = {alien}
    MaxIngestors = 2
    MaxWindows = 1
INVARIANTS RemovedIsQuiet RunningIsComplete
PROPERTIES ImplementsObserver OnlyStopAllStops HealthyCallsReturn
CHECK_DEADLOCK FALSE
