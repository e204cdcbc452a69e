SPECIFICATION Spec
CONSTANTS
    Streams = {a, b}
    Keys = {}
    NoKey = NoKey
    Torn = Torn
    SegCap = 2
    CopyPartial = TRUE
    Readers = {}
    Batch = 1
    MaxSeg = 7
    MaxAppends = 5
    MaxStops = 2
    FaultKinds = {}
    MaxFaults = 0
SYMMETRY Symmetry
CHECK_DEADLOCK FALSE
INVARIANTS AckedStored
