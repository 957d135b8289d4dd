\* One question over three chunks in two subqueries; two clients, windows of three ticks.
\* Deadlock: the policy can always change.
SPECIFICATION MCSpec
CONSTANTS
    Chunks = {c1, c2, c3}
    Weight <- MCWeight
    RrfK = 60
    RrfUnit = 3660
    MaxSubqueries = 2
    VectorK = 2
    Bm25K = 1
    FinalTopK = 2
    RerankScores = {0, 1}
    ConfidenceThreshold = 60
    Markers = {1, 3}
    None = None
    Clients = {a, b}
    Limit = 2
    Window = 3
    MaxTime = 7
    x = x
    y = y
    t1 = t1
    t2 = t2
    Files = {f1, f2}
    Items = {x, y}
    Terms = {t1, t2}
    Passages <- MCPassages
    Question <- MCQuestion
    Reference <- MCReference
    Threshold <- MCThreshold
    MaxContexts = 2
    RankUnit = 2
    MaxItems = 2
    MaxCalls = 2
SYMMETRY Symmetry
INVARIANTS
    TypeOK
    ChunksAreBest
    NeverMoreThanLimit
    GateIsHonest
PROPERTY
    ImplementsAnswerContract
