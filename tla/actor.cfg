SPECIFICATION ActorSpec
CONSTANTS
    Calls = {c1, c2}
    Creator = Creator
    ActorWorkers = {w1, w2}
    NoOwner = NoOwner
    SnapshotEvery = 2
    MaxOwnerEpoch = 2
    MaxLeases = 2
    MaxStalls = 0
    MaxCrashes = 1
SYMMETRY Symmetry
CONSTRAINT UpToRestart
CHECK_DEADLOCK FALSE
INVARIANTS
    AckedReplayed
    StateInOrder
    ReplayMatches
