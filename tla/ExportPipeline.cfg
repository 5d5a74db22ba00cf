SPECIFICATION Spec
CONSTANTS
    Resolutions <- FineAndCoarse
    ExportRes <- Fine
    Second = 2
    ScrapeInterval = 2
    ExportInterval = 2
    JanitorRetention = 2
    MaxTime = 9
    MaxLate = 2
    MaxCrashes = 1
    MaxFaults = 1
INVARIANTS InOrder Recovered Backed SealedUnlessMissed
 
CHECK_DEADLOCK FALSE
