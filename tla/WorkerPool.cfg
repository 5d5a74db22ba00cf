SPECIFICATION FairSpec
CONSTANTS
    N = 3
    NilInputs = {2}
    Sizes = {0, 1, 2, 3}
    Kinds = {"ordered", "noResult", "collector", "processor"}
    Sharings = {FALSE, TRUE}
INVARIANTS EachInputOnce ResultsComplete ProcessedInOrder
PROPERTIES DriverTerminates AcceptedIsDone ShutdownStopsWorkers
CHECK_DEADLOCK FALSE
