SPECIFICATION Spec
CONSTANTS
    MaxSteps = 2
    Threshold = 1
    CallFailures = 2
    Wanted = {{}, {"vector", "keyword"}}
    Questions = {1, 2}
    Plan <- CallPlan
    Reliable = {"fallback"}
    Recovery = 2
    Callers = {1, 2}
    Texts = {t1, t2}
    CacheSize = 1
    MaxRequests = 2
    None = None
    Checks = {1, 2}
    Limit = 2
    Window = 2
    MaxTime = 3
INVARIANTS TypeOK RequestIsHonest CallsAreSound
PROPERTY EveryRequestEnds
CHECK_DEADLOCK FALSE
