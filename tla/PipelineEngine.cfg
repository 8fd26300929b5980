SPECIFICATION Spec
CONSTANTS
    None = None
    Runs = {r1, r2}
    Fresh = {r2}
    Chunker = C
    Indexer = I
    Plain = {P}
    Leniencies = {{}, {P}}
    MaxAttempts = 2
INVARIANTS TypeOK KeyRunsOnce ServedIsIndexed
PROPERTIES SuccessIsComplete EveryRunEnds
CHECK_DEADLOCK FALSE
