\* Documents of up to four elements, windows of six characters that overlap in two;
\* two runs of the extraction of up to two mentions over four names of one type.
CONSTANTS
    MaxTokens = 3
    OverlapTokens = 1
    CharsPerToken = 2
    MaxElements = 4
    Documents <- SampleDocuments
    Jobs = {j1, j2}
    a = a
    A = A
    ab = ab
    z = z
    Names = {a, A, ab, z}
    Unnamed = Unnamed
    Predicates = {"depends_on"}
    Similarity <- MCSimilarity
    ExtractorOutputs <- MCExtractorOutputs
    FactOutputs <- MCFactOutputs
    FindLimit = 2
SPECIFICATION MCSpec
CHECK_DEADLOCK FALSE
INVARIANTS TextIsKept HeadingPathIsAncestry LocatorsCoverText BlocksAreWhole EntitiesAreDistinct FactEntitiesExist
PROPERTIES ChunkingEnds
