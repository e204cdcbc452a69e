SPECIFICATION ActorSpec
CONSTANTS
    Calls = {c1, c2}
    Creator = Creator
    ActorWorkers = {w1, w2}
    NoOwner = NoOwner
    SnapshotEvery = 1
    MaxOwnerEpoch = 1
    MaxLeases = 1
    MaxStalls = 0
    MaxCrashes = 0
SYMMETRY Symmetry
CHECK_DEADLOCK FALSE
INVARIANTS AckedReplayed
