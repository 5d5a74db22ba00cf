SPECIFICATION FairSpec
CONSTANTS
    Subscribers = {u1}
    Clients = {c1, c2}
    MaxRuns = 3
INVARIANTS SingleLoop RunnerOwnsRun NoPanic WaitersAwaitedReset
PROPERTIES StopCompletes StartReturns
CHECK_DEADLOCK FALSE
