SPECIFICATION FairSpec
CONSTANTS
    a = a
    b = b
    c = c
    Steps <- ChainSteps
    Deps <- ChainDeps
    MaxAttempts <- ChainTwo
    Workers = {w1}
    NoTask = NoTask
    MaxLeases <- ChainTwo
    MaxFaults = 0
    MaxCrashes = 1
CHECK_DEADLOCK FALSE
PROPERTIES WorkflowEnds
