SPECIFICATION Spec
CONSTANTS
    w1 = w1
    w2 = w2
    Workers = {w1, w2}
    NoWorker = NoWorker
    NoKey = NoKey
    Tasks <- TwoTasks
    Key <- SharedKey
    Target <- AnyWorker
    HighWatermark = 1
    MaxEpoch = 2
    MaxFaults = 1
    MaxCrashes = 1
CONSTRAINT Bounded
SYMMETRY WorkerSymmetry
INVARIANTS TypeOK QueueExact FinishedOnce NoLoadLeft KeyNamesOneTask
PROPERTIES ReplayOutcomeStable LeaseEpochMonotonic
