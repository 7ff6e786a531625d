\* Two jobs over two contents of one file.
CONSTANTS
    Jobs = {j1, j2}
    Files = {f1}
    Checksums = {c1, c2}
    None = None
SPECIFICATION FairSpec
INVARIANTS CurrentVersionAgrees PublishedOnce CheckpointIsDurable AnsweredWasCurrent
PROPERTIES VersionsAreKept EveryIngestionEnds
