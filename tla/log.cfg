SPECIFICATION Spec
CONSTANTS
    Streams = {a, b}
    Keys = {k}
    NoKey = NoKey
    Torn = Torn
    SegCap = 2
    CopyPartial = TRUE
    Readers = {r1}
    Batch = 2
    MaxSeg = 7
    MaxAppends = 5
    MaxStops = 2
    FaultKinds = {}
    MaxFaults = 0
SYMMETRY Symmetry
CONSTRAINT Bounded
CHECK_DEADLOCK FALSE
INVARIANTS
    AckedStored
    IndexExact
    ReadComplete
PROPERTIES
    ImplementsSharedLog
