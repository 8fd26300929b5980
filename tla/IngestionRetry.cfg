SPECIFICATION Spec
CONSTANTS
    d1 = d1  d2 = d2  up = up  re = re  up2 = up2  w1 = w1  w2 = w2
    NoRun = NoRun  NoJob = NoJob
    Docs <- OneDoc
    Jobs <- OneDocJobs
    DocOf <- OneDocOf
    Uploads <- UploadJobs
    Deletable = {d1}
    Workers = {w1, w2}
    Channels = {"graph"}
    Required = {}
    Concurrency = 1
    MaxAttempts = 2
    MaxClaims = 3
    MaxFaults = 1
    RunsOutliveClaim = FALSE
SYMMETRY WorkerSymmetry
INVARIANTS NoDuplicateChunks SuccessShownIsEarned
PROPERTIES SettledIsFinal ImplementsGenerationStore
CHECK_DEADLOCK FALSE
