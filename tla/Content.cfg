SPECIFICATION Spec
CONSTANTS
    None = None
    Tasks = {t1, t2}
    MaxLength = 3
    ChunkSizes = {1, 2, 3}
    ChunkOverlaps = {0, 1, 3}
    MaxLines = 4
    Targets = {1, 4}
    MinSize = 2
    MaxSize = 2
    TableRows = 1
    CodeLines = 2
    ListItems = 2
    PathDepth = 2
    Docs <- ThreeDocs
    Writers = {1, 2}
    Batches <- TwoBatches
    Providers = {1, 2}
    Source = source
    Target = target
    Asked = {1, 3}
    Topics = {"a"}
    Seconds = {1, 2}
    VectorScores = {40, 60}
    KeywordScores = {100}
    MinRelevance = 35
    Rows = {r1, r2}
    Hashes = {h1, h2}
    Kbs = {k1, k2}
    Scope = {k1}
    Orphan = orphan
    MaxChanges = 1
    MaxHits = 2
    Ranks = {1, 2, 3, 4}
    TokenSizes = {1, 3}
    MaxTokens = 2
    MaxChars = 4
    ContextWindow = 4
    Reserves = {0, 2, 5}
    PerChunk = 1
    TopK = 3
    Quotas = {0, 1, 2}
    Interviews = {i1, i2}
    Results = {0, 55, 100}
    MaxSaves = 2
    MaxCounted = 2
    MinQuestions = 2
    MaxQuestions = 3
    KnowledgeQuota = 1
    ProfileQuota = 1
    Sources = {0, 2}
    Algorithms = {0, 1}
    Users = {asker, other}
    Asker = asker
    Reviewers = {a1, a2}
    Lister = lister
    MaxOpen = 2
    Ids = {c1, c2, c3}
    IdHashes = {h1}
    CaseGrades = {1, 2}
    ScoredTopK = 2
    Discount <- TwoGains
INVARIANTS TypeOK AlgorithmsAreRight StoresAreSound EvidenceIsSound GradesAreFair
PROPERTY NoStepGoesBack
CHECK_DEADLOCK FALSE
