-------------------------- MODULE HybridRetrieval --------------------------
(***************************************************************************)
(* From question to evidence: HybridRetrievalService.query_with_evidence   *)
(* with the planner's rules, reciprocal rank fusion, deduplication by      *)
(* source and reranking.                                                   *)
(*                                                                         *)
(* The content and the labels of evidence are left out. What the searches  *)
(* return is chosen freely: each reads the database at its own time, so    *)
(* nothing relates one list to the other. Scores are exact fractions.      *)
(***************************************************************************)
EXTENDS Naturals, Sequences, FiniteSets

CONSTANTS
    Chunks, Facts,
    SourceOf,     \* the source of each chunk
    ChunkOf,      \* the first of a fact's evidence_ids, its chunk
    K,            \* RRF_K, 60 in the code
    VectorTopK,   \* vector_top_k
    KeywordTopK,  \* keyword_top_k
    GraphTopK,    \* bound on the graph evidence of a question
    FinalLimit,   \* final_evidence_limit
    Relevance,    \* scores the reranker gives, 1 to 5
    None

ASSUME RetrievalConstants ==
    /\ K \in Nat /\ VectorTopK \in Nat /\ KeywordTopK \in Nat /\ GraphTopK \in Nat
    /\ FinalLimit \in Nat
    /\ Relevance \subseteq Nat
    /\ Chunks \cap Facts = {}

\* The last places of both lists together outweigh the first place of one. With K = 60,
\* keyword_top_k = 20 and 100, the most a request may ask of the vector search: 12800 < 14640.
ASSUME AgreementOutweighs ==
    (K + VectorTopK) * (K + KeywordTopK) < (K + 1) * (2 * K + VectorTopK + KeywordTopK)

VARIABLES
    stage, seeds, plan, vector, keyword, graph,
    evidence, fused   \* fused: history, the evidence before reranking

vars == <<stage, seeds, plan, vector, keyword, graph, evidence, fused>>

RangeOf(s) == {s[i] : i \in DOMAIN s}
Lists(S, max) == UNION {{s \in [1..n -> S] : \A i, j \in 1..n : s[i] = s[j] => i = j} : n \in 0..max}
Prefix(s, n) == [i \in 1..(IF Len(s) <= n THEN Len(s) ELSE n) |-> s[i]]
PositionOf(s, x) == CHOOSE i \in DOMAIN s : s[i] = x

\* The members of S in the order of R, a strict total order.
Arranged(S, R) ==
    LET before(x) == {y \in S : <<y, x>> \in R}
    IN  [k \in 1..Cardinality(S) |-> CHOOSE x \in S : Cardinality(before(x)) = k - 1]

\* The elements of s at the places in I.
ElementsAt(s, I) ==
    LET places == Arranged(I, {p \in I \X I : p[1] < p[2]})
    IN  [k \in 1..Cardinality(I) |-> s[places[k]]]

\* Fractions, <<numerator, denominator>>.
Plus(a, b) == <<a[1] * b[2] + b[1] * a[2], a[2] * b[2]>>
Above(a, b) == a[1] * b[2] > b[1] * a[2]
Same(a, b) == a[1] * b[2] = b[1] * a[2]

-----------------------------------------------------------------------------
\* RetrievalPlanner

\* Groups of key words a question may contain.
KeyWords == {"temporal", "relationship", "comparison", "impact", "reason", "list"}

Classify(words, n) ==
    IF "temporal" \in words THEN "temporal"
    ELSE IF "relationship" \in words THEN "relationship"
    ELSE IF "comparison" \in words THEN "comparison"
    ELSE IF "impact" \in words THEN "impact"
    ELSE IF "reason" \in words THEN "fact"
    ELSE IF n >= 2 THEN "multi_hop"
    ELSE IF "list" \in words THEN "summary"
    ELSE "fact"

RelationTypes == {"relationship", "multi_hop", "impact", "temporal"}

SelectStrategy(type, n) ==
    CASE type \in RelationTypes /\ n > 0 -> "hybrid"
      [] type \in RelationTypes /\ n = 0 -> "graph"
      [] type = "comparison" -> "hybrid"
      [] OTHER -> "vector"

GraphDepth(type) ==
    CASE type = "multi_hop" -> 3 [] type \in {"relationship", "impact"} -> 2 [] OTHER -> 1

-----------------------------------------------------------------------------
\* reciprocal_rank_fusion and hybrid_rrf_fusion

\* 1 / (K + rank of x in s), times half of weight.
Points(s, x, weight) ==
    IF x \in RangeOf(s) THEN <<weight, K + PositionOf(s, x)>> ELSE <<0, 1>>

\* Variant: a chunk that has an entry already gets nothing from the second search.
ScoreOnce(x) ==
    Plus(Plus(Points(vector, x, 2),
              IF x \in RangeOf(vector) THEN <<0, 1>> ELSE Points(keyword, x, 2)),
         Points(graph, x, 3))

\* GRAPH_WEIGHT is 1.5.
Score(x) == Plus(Plus(Points(vector, x, 2), Points(keyword, x, 2)), Points(graph, x, 3))

\* The dictionary of scores, in the order of its insertions.
Candidates ==
    vector \o ElementsAt(keyword, {i \in DOMAIN keyword : keyword[i] \notin RangeOf(vector)}) \o graph

\* sorted(..., reverse=True) keeps the order of equal elements; score[i] is that of s[i].
StableDescending(s, score) ==
    LET first(i, j) == Above(score[i], score[j]) \/ (Same(score[i], score[j]) /\ i < j)
        places == Arranged(DOMAIN s, {p \in (DOMAIN s) \X (DOMAIN s) : first(p[1], p[2])})
    IN  [k \in DOMAIN s |-> s[places[k]]]

Ranking == StableDescending(Candidates, [i \in DOMAIN Candidates |-> Score(Candidates[i])])

\* Evidence.source_id: of a fact it is the first of the fact's evidence_ids.
SourceId(x) == IF x \in Facts THEN ChunkOf[x] ELSE SourceOf[x]

\* The first of each source in the ranking.
FirstPerSource(r) ==
    ElementsAt(r, {i \in DOMAIN r : \A j \in 1..(i - 1) : SourceId(r[j]) # SourceId(r[i])})

\* Variant: the limit is applied before sources are made unique.
SelectedTooEarly ==
    CASE plan.strategy = "hybrid" -> FirstPerSource(Prefix(Ranking, FinalLimit))
      [] plan.strategy = "graph" -> Prefix(graph, FinalLimit)
      [] OTHER -> Prefix(Ranking, FinalLimit)

Selected ==
    CASE plan.strategy = "hybrid" -> Prefix(FirstPerSource(Ranking), FinalLimit)
      [] plan.strategy = "graph" -> Prefix(graph, FinalLimit)
      [] OTHER -> Prefix(Ranking, FinalLimit)

-----------------------------------------------------------------------------
Init ==
    /\ stage = "plan"
    /\ seeds = 0 /\ plan = None
    /\ vector = <<>> /\ keyword = <<>> /\ graph = <<>>
    /\ evidence = <<>> /\ fused = <<>>

\* n entities of the question are resolved, m of them are in the graph.
MakePlan(words, n, m) ==
    /\ stage = "plan"
    /\ plan' = [strategy |-> SelectStrategy(Classify(words, n), n), entities |-> n,
                depth |-> GraphDepth(Classify(words, n))]
    /\ seeds' = m
    /\ stage' = "vector"
    /\ UNCHANGED <<vector, keyword, graph, evidence, fused>>

SearchVector(list) ==
    /\ stage = "vector"
    /\ vector' = list
    /\ stage' = "keyword"
    /\ UNCHANGED <<seeds, plan, keyword, graph, evidence, fused>>

SearchKeyword(list) ==
    /\ stage = "keyword"
    /\ keyword' = list
    /\ stage' = "graph"
    /\ UNCHANGED <<seeds, plan, vector, graph, evidence, fused>>

\* retrieve_evidence walks from the seeds, and returns nothing without seeds.
RetrieveGraph(list) ==
    /\ stage = "graph"
    /\ (plan.strategy = "vector" \/ plan.entities = 0 \/ seeds = 0) => list = <<>>
    /\ graph' = list
    /\ stage' = "fuse"
    /\ UNCHANGED <<seeds, plan, vector, keyword, evidence, fused>>

EvidenceOf(x) == [id |-> x, source |-> SourceId(x), rerank |-> None]

\* Evidence ids are new or fact ids: _deduplicate has nothing to remove.
Fuse ==
    /\ stage = "fuse"
    /\ evidence' = [i \in DOMAIN Selected |-> EvidenceOf(Selected[i])]
    /\ fused' = evidence'
    /\ stage' = "rerank"
    /\ UNCHANGED <<seeds, plan, vector, keyword, graph>>

\* CrossEncoderReranker.rerank: one piece of evidence is not scored.
Rerank(relevance) ==
    /\ stage = "rerank"
    /\ evidence' = IF Len(evidence) <= 1 THEN evidence
                   ELSE StableDescending([i \in DOMAIN evidence |->
                            [evidence[i] EXCEPT !.rerank = relevance[i]]],
                        [i \in DOMAIN evidence |-> <<relevance[i], 1>>])
    /\ stage' = "done"
    /\ UNCHANGED <<seeds, plan, vector, keyword, graph, fused>>

Next ==
    \/ \E words \in SUBSET KeyWords, n \in 0..2, m \in 0..2 : m <= n /\ MakePlan(words, n, m)
    \/ \E list \in Lists(Chunks, VectorTopK) : SearchVector(list)
    \/ \E list \in Lists(Chunks, KeywordTopK) : SearchKeyword(list)
    \/ \E list \in Lists(Facts, GraphTopK) : RetrieveGraph(list)
    \/ Fuse
    \/ \E relevance \in [1..FinalLimit -> Relevance] : Rerank(relevance)

Spec == Init /\ [][Next]_vars

-----------------------------------------------------------------------------
\* x comes before y in the ranking.
Outranks(x, y) ==
    \/ Above(Score(x), Score(y))
    \/ Same(Score(x), Score(y)) /\ PositionOf(Candidates, x) < PositionOf(Candidates, y)

(***************************************************************************)
(* Selection after fusion is right: what was found and is not evidence was *)
(* left out for better evidence only, of its own source (hybrid) or because*)
(* better evidence fills the limit; and evidence is in order.              *)
(***************************************************************************)
BestIsSelected ==
    stage = "rerank" /\ plan.strategy # "graph" =>
        LET kept == {e.id : e \in RangeOf(fused)}
        IN  /\ \A i, j \in DOMAIN fused : i < j => Outranks(fused[i].id, fused[j].id)
            /\ \A x \in RangeOf(Candidates) \ kept :
                  \/ /\ plan.strategy = "hybrid"
                     /\ \E y \in kept : SourceId(y) = SourceId(x) /\ Outranks(y, x)
                  \/ Cardinality(kept) = FinalLimit /\ \A y \in kept : Outranks(y, x)
            /\ plan.strategy = "hybrid" =>
                  \A i, j \in DOMAIN fused : fused[i].source = fused[j].source => i = j

(***************************************************************************)
(* Two searches agreeing outweigh any place in one of them: a chunk both   *)
(* found is ranked before a chunk only one found, whatever their places.   *)
(***************************************************************************)
CorroborationWins ==
    \A c, d \in Chunks :
        (/\ c \in RangeOf(vector) \cap RangeOf(keyword)
         /\ d \in (RangeOf(vector) \cup RangeOf(keyword)) \ (RangeOf(vector) \cap RangeOf(keyword)))
        => Outranks(c, d)

-----------------------------------------------------------------------------
\* The inductive invariant.

RetrievalTypeOK ==
    /\ stage \in {"plan", "vector", "keyword", "graph", "fuse", "rerank", "done"}
    /\ vector \in Lists(Chunks, VectorTopK)
    /\ keyword \in Lists(Chunks, KeywordTopK)
    /\ graph \in Lists(Facts, GraphTopK)

FusedIsSelected ==
    stage = "rerank" => fused = [i \in DOMAIN Selected |-> EvidenceOf(Selected[i])]

RetrievalIInv == RetrievalTypeOK /\ FusedIsSelected
=============================================================================
