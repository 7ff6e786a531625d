\* A comment line in a fenced block is taken for a heading.
CONSTANTS
    MaxTokens = 3
    OverlapTokens = 1
    CharsPerToken = 2
    MaxElements = 3
    Documents <- SampleDocuments
    Jobs = {j1, j2}
    a = a
    A = A
    ab = ab
    z = z
    Names = {a, A, ab, z}
    Unnamed = Unnamed
    Predicates = {"depends_on"}
    Similarity <- MCSimilarity
    ExtractorOutputs <- MCExtractorOutputs
    FactOutputs <- MCFactOutputs
    FindLimit = 2
SPECIFICATION MCSpec
CHECK_DEADLOCK FALSE
INVARIANT CodeBlocksPreserved
