SPECIFICATION FairSpec
CONSTANTS
    Group = {q1, q2}
    MapQuery = qm
    Workers = {w1, w2}
    Retry = TRUE
    MaxRetries = 2
    LoadRetries = 2
    MaxTroubles = 4
    MaxChanges = 1
INVARIANTS NoPanic
CHECK_DEADLOCK FALSE
