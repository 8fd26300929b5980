SPECIFICATION Spec
CONSTANTS
    None = None
    Workers = {w1, w2}
    MaxAttempts = 3
    Runs = {1, 2}
    MaxCrashes = 1
    MaxStalls = 1
    Files = {f1, f2}
    Contents = {c1, c2}
    BatchAttempts = 2
    MaxClaims = 2
    MaxVersion = 1
    Headers <- VersionOf
INVARIANTS TypeOK JobsAreExclusive
PROPERTY EveryJobEnds
CHECK_DEADLOCK FALSE
