SPECIFICATION FairGenerations
CONSTANTS
    Parts = {"generations"}
    c1 = c1
    c2 = c2
    c3 = c3
    Chunks = {c3}
    ChunkKB <- TwoAndOne
    Ingested = {}
    NumKBs = 2
    MaxGens = 4
    Deletable = {1}
    Workers = {w1, w2}
    MaxFaults = 1
    Items = {a1}
    DocOf <- OneDocument
    Repairers = {w1, w2}
    Records = {r1, r2}
    NoJob = NoJob
    BatchSize = 2
    MaxAttempts = 2
    MaxRepairFaults = 3
    WorkersCrash = TRUE
INVARIANTS IndexTypes ActiveIsRecorded ActiveIsPresent PromotedIsComplete
PROPERTY EveryBuildSettles
CHECK_DEADLOCK FALSE
