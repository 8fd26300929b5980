SPECIFICATION FairReconciliation
CONSTANTS
    Parts = {"reconciliation"}
    c1 = c1
    c2 = c2
    c3 = c3
    Chunks = {c3}
    ChunkKB <- TwoAndOne
    Ingested = {}
    NumKBs = 2
    MaxGens = 4
    Deletable = {1}
    Workers = {w1}
    MaxFaults = 1
    Items = {a1}
    DocOf <- OneDocument
    Repairers = {w1, w2}
    Records = {r1, r2}
    NoJob = NoJob
    BatchSize = 2
    MaxAttempts = 2
    MaxRepairFaults = 3
    WorkersCrash = TRUE
INVARIANTS IndexTypes NoDuplicateVectors
PROPERTIES MissingIsRepaired OrphansAreRemoved
CHECK_DEADLOCK FALSE
