SPECIFICATION FairSpec
CONSTANTS
    d1 = d1  d2 = d2  up = up  re = re  up2 = up2  w1 = w1  w2 = w2
    NoRun = NoRun  NoJob = NoJob
    Docs <- TwoDoc
    Jobs <- TwoDocJobs
    DocOf <- TwoDocOf
    Uploads <- UploadJobs
    Deletable = {}
    Workers = {w1}
    Channels = {}
    Required = {}
    Concurrency = 2
    MaxAttempts = 2
    MaxClaims = 3
    MaxFaults = 1
    RunsOutliveClaim = FALSE
PROPERTY EveryJobSettles
CHECK_DEADLOCK FALSE
