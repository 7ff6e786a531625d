\* Three graphs of four facts, one of which changes; limits that are hit in some of them.
CONSTANTS
    e1 = e1
    e2 = e2
    e3 = e3
    f1 = f1
    f2 = f2
    f3 = f3
    f4 = f4
    p = p
    q = q
    Entities = {e1, e2, e3}
    Facts = {f1, f2, f3, f4}
    Graphs <- MCGraphs
    Queries <- MCQueries
    MaxDepth = 3
    MaxFacts = 5
    FetchLimit = 2
    MaxChanging = 1
    None = None
SPECIFICATION FairSpec
INVARIANTS BreadthFirst EvidenceIsWalk ResultsBounded
PROPERTY RetrievalEnds
CHECK_DEADLOCK FALSE
