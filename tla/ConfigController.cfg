SPECIFICATION FairSpec
CONSTANTS
    Keys = {k1, k2}
    Versions = {v1, bad, alien}
    InvalidVersions = {bad}
    UnknownVersions = {alien}
    Watched = {"configfile", "helm"}
    Observers = {o1}
    MaxFaults = 1
    MaxChanges = 2
    MaxCrashes = 1
INVARIANTS NoOrphan
PROPERTIES ServedUnlessDoubled OnlyUpdateDoubles DisabledStays WatchersConverge
