SPECIFICATION Spec
CONSTANTS
    c1 = c1
    c2 = c2
    c3 = c3
    f1 = f1
    f2 = f2
    s1 = s1
    s2 = s2
    Chunks = {c1, c2, c3}
    Facts = {f1, f2}
    SourceOf <- MCSourceOf
    ChunkOf <- MCChunkOf
    K = 60
    VectorTopK = 3
    KeywordTopK = 3
    GraphTopK = 3
    FinalLimit = 2
    Relevance = {1, 5}
    None = None
INVARIANTS BestIsSelected CorroborationWins
CHECK_DEADLOCK FALSE
