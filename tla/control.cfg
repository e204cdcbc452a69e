SPECIFICATION Spec
CONSTANTS
    v1 = v1
    v2 = v2
    SchedWorkers = {v1, v2}
    NoHolder = NoHolder
    Tasks <- TwoTasks
    Routes <- MixedRoutes
    CommandSeq <- Numbered
    Owner <- OwnerV1
    Models = {"m"}
    SchedPolicies = {"LOCALITY_AWARE", "PREDICTED_LATENCY"}
    MaxEpoch = 2
    MaxFaults = 1
    Submitters = {1, 2}
    Pollers = {1}
    Admins = {1}
    InKeys = {"a"}
    Fingerprints = {1, 2}
    NoKey = ""
    DefaultWatermark = 1
    Watermarks = {2}
    MaxSubmissions = 3
    MaxConfigs = 1
    Registrars = {1, 2}
    PolicySetters = {1}
    Hashes = {"f"}
    ModelNames = {"m"}
    Policies = {"locality", "latency"}
    MaxParts = 2
    MaxRegistrations = 2
    MaxPolicies = 1
    Workers = {"w1"}
    NoWorker = "none"
    CkKinds = {"task", "actor", "wf", "llm"}
    CkRecords = 4
    MaxCheckpoints = 2
    Retention = 1
    LlmWorkers = {1, 2}
    LlmModels = {"a"}
    LlmCapacity = 1
    LlmLatencies = {10, 300}
    LlmPolicies = {"LOCALITY_AWARE", "PREDICTED_LATENCY", "RESOURCE_ONLY"}
    MaxRequests = 2
    DagSteps = {1, 2, 3}
    DagDepends <- Depends
    DagAttempts = 2
CHECK_DEADLOCK FALSE
INVARIANTS
    UnfinishedFindable
    RedeliveredEpoch
    NoLostWakeup
    
    ScoresExact
    SomeoneEligible
    GraphExact
    RegistriesDurable
    CheckpointPlusTail
