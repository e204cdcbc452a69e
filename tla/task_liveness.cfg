SPECIFICATION FairSpec
CONSTANTS
    w1 = w1
    w2 = w2
    Workers = {w1}
    NoWorker = NoWorker
    NoKey = NoKey
    Tasks <- OneTask
    Key <- NoKeys
    Target <- AnyWorker
    HighWatermark = 0
    MaxEpoch = 3
    MaxFaults = 1
    MaxCrashes = 1
PROPERTIES EveryTaskFinishes
