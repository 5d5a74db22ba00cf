SPECIFICATION Spec
CONSTANTS
    Keys = {k1}
    Versions = {v1, v2}
    InvalidVersions = {}
    UnknownVersions = {}
    Watched = {"multicloud"}
    Observers = {o1}
    MaxFaults = 0
    MaxChanges = 2
    MaxCrashes = 0
INVARIANTS ActiveServed
