SPECIFICATION FaultSpec
CONSTANTS
    Streams = {a}
    Keys = {}
    NoKey = NoKey
    Torn = Torn
    SegCap = 2
    CopyPartial = FALSE
    Readers = {}
    Batch = 1
    MaxSeg = 2
    MaxAppends = 2
    MaxStops = 1
    FaultKinds = {"sync", "write", "trim", "copy"}
    MaxFaults = 1
CHECK_DEADLOCK FALSE
INVARIANTS AckedStored
