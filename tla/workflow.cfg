SPECIFICATION Spec
CONSTANTS
    a = a
    b = b
    c = c
    Steps <- ChainSteps
    Deps <- ChainDeps
    MaxAttempts <- ChainTwo
    Workers = {w1, w2}
    NoTask = NoTask
    MaxLeases <- ChainTwo
    MaxFaults = 1
    MaxCrashes = 1
SYMMETRY Symmetry
CHECK_DEADLOCK FALSE
INVARIANTS
    AttemptsJustified
    ViewDurable
PROPERTIES
    SucceededForever
