SPECIFICATION FairSpec
CONSTANTS
    Updates = {u1, u2}
    Handlers = {pricing, other}
    Pricing = pricing
    Bad = {}
    MaxEdits = 1
    MaxRemoves = 0
    MaxFaults = 1
PROPERTY EditedNotDefaulted
CHECK_DEADLOCK FALSE
