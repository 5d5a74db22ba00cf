SPECIFICATION FairSpec
CONSTANTS
    Updates = {u1, u2}
    Handlers = {pricing, other}
    Pricing = pricing
    Bad = {2}
    MaxEdits = 3
    MaxRemoves = 1
    MaxFaults = 1
INVARIANTS HandledIsWatched
PROPERTIES Converges
CHECK_DEADLOCK FALSE
