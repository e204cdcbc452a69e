SPECIFICATION FairSpec
CONSTANTS
    a = a
    b = b
    c = c
    Steps <- JoinSteps
    Deps <- JoinDeps
    MaxAttempts <- JoinTwo
    Workers = {w1}
    NoTask = NoTask
    MaxLeases <- JoinOne
    MaxFaults = 0
    MaxCrashes = 0
CHECK_DEADLOCK FALSE
PROPERTIES WorkflowEnds
