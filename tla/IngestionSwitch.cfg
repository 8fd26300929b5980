SPECIFICATION Spec
CONSTANTS
    d1 = d1  d2 = d2  up = up  re = re  up2 = up2  w1 = w1  w2 = w2
    NoRun = NoRun  NoJob = NoJob
    Docs <- OneDoc
    Jobs <- OneDocJobs
    DocOf <- OneDocOf
    Uploads <- UploadJobs
    Deletable = {}
    Workers = {w1, w2}
    Channels = {"elasticsearch", "graph"}
    Required = {"elasticsearch"}
    Concurrency = 1
    MaxAttempts = 2
    MaxClaims = 2
    MaxFaults = 1
    RunsOutliveClaim = TRUE
SYMMETRY WorkerSymmetry
INVARIANTS TypeOK OneServedGeneration ServedIsIndexed
PROPERTY ServedUntilReplaced
CHECK_DEADLOCK FALSE
