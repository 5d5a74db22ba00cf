SPECIFICATION CustomFairSpec
CONSTANTS
    MaxTicks = 3
    Domains = {p1, p2}
    LastWindow = 1
    RunFrom = 1
    Callers = {c1, c2}
    MaxStarts = 1
INVARIANTS NoSendOnClosed OneTickPerJob
PROPERTIES TickArrives QuietAfterStop StopReturns
CHECK_DEADLOCK FALSE
