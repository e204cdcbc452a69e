SPECIFICATION Spec
CONSTANTS
    LockUsers = {1, 2}
    LockActors = {"A"}
    TaskExecutors = {3}
    LlmExecutors = {4}
    Capacity = 2
    MaxTasks = 3
    AgentTasks <- Tasks
    MaxDispatched = 4
    CacheModels = {"a", "b", "big"}
    ModelSize <- Sizes
    CacheBytes = 2
    CacheUsers = {1, 2}
    CacheFaults = TRUE
    MatKeys = {1, 2}
    WorkerRows = {2}
    MatWriters = {1, 2}
    QueueSize = 1
    BatchMax = 1
    MatModes = {"async", "sync"}
    MaxMutations = 3
    IdxTasks = {"t1", "t2"}
    IdxWorkers = {"w1"}
    IdxClients = {1, 2}
    MaxLease = 2
    StoreWorkers = {"w1"}
    StoreClients = {1, 2, 3}
    MaxLeases = 2
    CfTasks = {"t1", "t2"}
    CfKeys = {"k"}
    CfWorkers = {"w1"}
    CfIds = {"d"}
    MaxAge = 1
    MaxNow = 3
    MaxCalls = 5
    ObjHashes = {"h1", "h2"}
    ObjChunks = 2
    ObjWriters = {1, 2}
    MaxPuts = 4
    MaxPowerLoss = 1
    S3Sizes = {1, 3, 4}
    PartUnits = 2
    S3Writers = {1, 2}
    MaxUploads = 5
    MaxStream = 4
    MaxChanges = 3
    ReadLimit = 2
    Shown = {"a", "b"}
    BodyLens <- Lengths
    Formats <- RecordFormats
    ChunkSize = 2
    MaxWritten = 2
    MaxDamages = 2
CHECK_DEADLOCK FALSE
INVARIANTS
    WorkAccounted
    HashOnlyRuns
    ActorsSerial
    
    
    IndexesFaithful
    LoadCounted
    DropInReplacement
    ObjectsPublished
    ObjectsStored
    ClientCurrent
    RecordsReadBack
