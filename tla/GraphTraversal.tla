--------------------------- MODULE GraphTraversal ---------------------------
(***************************************************************************)
(* Graph evidence for a query: GraphFusionService.retrieve_evidence walks  *)
(* the facts around each seed entity breadth first, one find_facts call at *)
(* a time, while the graph changes underneath it.                          *)
(*                                                                         *)
(* Names, confidences and the text of the evidence are left out.           *)
(***************************************************************************)
EXTENDS Naturals, Sequences, FiniteSets

CONSTANTS
    Entities,
    Facts,
    Graphs,      \* what the Fact nodes may say: subject, object, predicate, valid_from, valid_to
    Queries,     \* seeds, predicates and valid_at of a retrieval
    MaxDepth,    \* RetrievalPlan.max_graph_depth, at most 3
    MaxFacts,    \* GRAPH_TRAVERSAL_MAX_FACTS, 50 in the code
    FetchLimit,  \* the LIMIT of find_facts, 100 in the code
    MaxChanging, \* bound on the facts that change during a retrieval
    None         \* a time that is not given, and the seed before the first

ASSUME TraversalConstants ==
    /\ MaxDepth \in Nat /\ MaxFacts \in Nat /\ FetchLimit \in Nat /\ MaxChanging \in Nat
    /\ IsFiniteSet(Facts) /\ None \notin Entities
    /\ \A g \in Graphs, f \in Facts : g[f].subject \in Entities /\ g[f].object \in Entities
    /\ \A q \in Queries : q.seeds \in Seq(Entities)

VARIABLES
    fact,      \* the Fact nodes
    visible,   \* verified, of the caller's tenant and readable by the caller
    query, seeds, pc, seed, current, queue, results, seen, evidence,
    steady, ever, cut   \* history: visible throughout, visible once, a limit was hit

graph == <<fact, visible>>
history == <<steady, ever, cut>>
vars == <<fact, visible, query, seeds, pc, seed, current, queue, results, seen, evidence, steady, ever, cut>>

RangeOf(s) == {s[i] : i \in DOMAIN s}

\* All ways to list the elements of S, and the one in ascending order.
Listings(S) ==
    {s \in [1..Cardinality(S) -> S] : \A i, j \in DOMAIN s : s[i] = s[j] => i = j}
Ascending(S) == {s \in [1..Cardinality(S) -> S] : \A i, j \in DOMAIN s : i < j => s[i] < s[j]}

\* What a query with LIMIT FetchLimit may return of S.
Fetches(S) ==
    {T \in SUBSET S : IF Cardinality(S) <= FetchLimit THEN T = S ELSE Cardinality(T) = FetchLimit}

-----------------------------------------------------------------------------
\* _is_temporal_valid: the interval is closed below and open above.
TemporalValid(f) ==
    \/ query.valid_at = None
    \/ /\ fact[f].from = None \/ fact[f].from <= query.valid_at
       /\ fact[f].to = None \/ fact[f].to > query.valid_at

\* find_facts gets the first of the predicates.
PredicateAsked(f) == query.predicates = <<>> \/ fact[f].predicate = Head(query.predicates)

Found(f) == f \in visible /\ PredicateAsked(f)

\* Variant: all paths made from one are the same list.
PathShared(new, i) == current.path \o SubSeq(new, 1, i)

PathTo(new, i) == Append(current.path, new[i])

-----------------------------------------------------------------------------
Init ==
    /\ fact \in Graphs
    /\ visible \in SUBSET Facts
    /\ query \in Queries
    /\ seeds = query.seeds
    /\ pc = "seeds"
    /\ seed = None /\ current = None
    /\ queue = <<>> /\ results = <<>> /\ seen = {} /\ evidence = <<>>
    /\ steady = visible /\ ever = visible /\ cut = FALSE

StartSeed ==
    /\ pc = "seeds" /\ seeds # <<>>
    /\ seed' = Head(seeds) /\ seeds' = Tail(seeds)
    /\ queue' = <<[entity |-> Head(seeds), depth |-> 1, path |-> <<>>]>>
    /\ results' = <<>> /\ seen' = {}
    /\ pc' = "loop"
    /\ UNCHANGED <<graph, query, current, evidence, history>>

\* Variant: the number of facts is not limited.
PopUncapped ==
    /\ pc = "loop" /\ queue # <<>>
    /\ current' = Head(queue) /\ queue' = Tail(queue)
    /\ pc' = IF Head(queue).depth > MaxDepth THEN "loop" ELSE "subject"
    /\ UNCHANGED <<graph, query, seeds, seed, results, seen, evidence, history>>

\* Variant: the last hop is not made.
PopShallow ==
    /\ pc = "loop" /\ queue # <<>> /\ Len(results) < MaxFacts
    /\ current' = Head(queue) /\ queue' = Tail(queue)
    /\ pc' = IF Head(queue).depth >= MaxDepth THEN "loop" ELSE "subject"
    /\ UNCHANGED <<graph, query, seeds, seed, results, seen, evidence, history>>

\* Variant: an entry that is too deep stays in the queue.
PopKept ==
    /\ pc = "loop" /\ queue # <<>> /\ Len(results) < MaxFacts
    /\ current' = Head(queue)
    /\ queue' = IF Head(queue).depth > MaxDepth THEN queue ELSE Tail(queue)
    /\ pc' = IF Head(queue).depth > MaxDepth THEN "loop" ELSE "subject"
    /\ UNCHANGED <<graph, query, seeds, seed, results, seen, evidence, history>>

Pop ==
    /\ pc = "loop" /\ queue # <<>> /\ Len(results) < MaxFacts
    /\ current' = Head(queue) /\ queue' = Tail(queue)
    /\ pc' = IF Head(queue).depth > MaxDepth THEN "loop" ELSE "subject"
    /\ UNCHANGED <<graph, query, seeds, seed, results, seen, evidence, history>>

(***************************************************************************)
(* The facts of one find_facts call, in the order the database lists them: *)
(* those not yet seen at this entity and valid are results, and the entity *)
(* at their other end is to be visited.                                    *)
(***************************************************************************)
Visit(matching, otherEnd) ==
    \E found \in Fetches(matching) :
        \E new \in Listings({f \in found : <<current.entity, f>> \notin seen /\ TemporalValid(f)}) :
            /\ results' = results \o [i \in 1..Len(new) |->
                    [fact |-> new[i], depth |-> current.depth, path |-> PathTo(new, i)]]
            /\ queue' = queue \o [i \in 1..Len(new) |->
                    [entity |-> otherEnd[new[i]], depth |-> current.depth + 1,
                     path |-> PathTo(new, i)]]
            /\ seen' = seen \cup {<<current.entity, f>> : f \in RangeOf(new)}
            /\ cut' = (cut \/ found # matching)
            /\ UNCHANGED <<graph, query, seeds, seed, current, evidence, steady, ever>>

VisitSubject ==
    /\ pc = "subject" /\ pc' = "object"
    /\ Visit({f \in Facts : Found(f) /\ fact[f].subject = current.entity},
             [f \in Facts |-> fact[f].object])

VisitObject ==
    /\ pc = "object" /\ pc' = "loop"
    /\ Visit({f \in Facts : Found(f) /\ fact[f].object = current.entity},
             [f \in Facts |-> fact[f].subject])

TraversalEnded == pc = "loop" /\ (queue = <<>> \/ Len(results) >= MaxFacts)

\* The first result for a fact that is not evidence yet.
IsFirst(i) ==
    /\ \A j \in 1..(i - 1) : results[j].fact # results[i].fact
    /\ \A e \in RangeOf(evidence) : e.fact # results[i].fact

Collect ==
    /\ TraversalEnded
    /\ \E firsts \in Ascending({i \in DOMAIN results : IsFirst(i)}) :
          evidence' = evidence \o [k \in 1..Len(firsts) |->
              [fact |-> results[firsts[k]].fact, path |-> results[firsts[k]].path, seed |-> seed]]
    /\ pc' = "seeds"
    /\ UNCHANGED <<graph, query, seeds, seed, current, queue, results, seen, history>>

Return ==
    /\ pc = "seeds" /\ seeds = <<>>
    /\ pc' = "done"
    /\ UNCHANGED <<graph, query, seeds, seed, current, queue, results, seen, evidence, history>>

\* Another transaction creates or verifies a fact, or rejects or supersedes one.
Change(f) ==
    /\ pc # "done"
    /\ f \in ever \ steady \/ Cardinality(ever \ steady) < MaxChanging
    /\ visible' = IF f \in visible THEN visible \ {f} ELSE visible \cup {f}
    /\ steady' = steady \ {f} /\ ever' = ever \cup {f}
    /\ UNCHANGED <<fact, query, seeds, pc, seed, current, queue, results, seen, evidence, cut>>

Step == StartSeed \/ Pop \/ VisitSubject \/ VisitObject \/ Collect \/ Return

Next == Step \/ \E f \in Facts : Change(f)

Spec == Init /\ [][Next]_vars

\* A coroutine that is not waiting on anything but the database goes on.
FairSpec == Spec /\ WF_vars(Step)

-----------------------------------------------------------------------------
(***************************************************************************)
(* Reference: the entities d hops away over the facts of S that the query  *)
(* asks for, and the facts met on the d-th hop or before.                  *)
(***************************************************************************)
Edges(S) == {f \in S : PredicateAsked(f) /\ TemporalValid(f)}
OneHop(S, B) ==
    B \cup {fact[f].object : f \in {g \in Edges(S) : fact[g].subject \in B}}
      \cup {fact[f].subject : f \in {g \in Edges(S) : fact[g].object \in B}}
Ball(S) ==
    LET ball[d \in 0..MaxDepth] == IF d = 0 THEN {seed} ELSE OneHop(S, ball[d - 1])
    IN  ball
WithinHops(S, d) == {f \in Edges(S) : {fact[f].subject, fact[f].object} \cap Ball(S)[d - 1] # {}}

FoundWithin(d) == {r.fact : r \in {s \in RangeOf(results) : s.depth <= d}}

(***************************************************************************)
(* The traversal is a breadth-first search even while facts come and go:   *)
(* nothing was found at a depth at which facts that were ever visible do   *)
(* not reach it, and unless a fetch was cut short, what could be reached   *)
(* in d hops over facts that were visible throughout was found at depth d  *)
(* or less. If MaxFacts ended it, that holds up to the depth before the    *)
(* one it was about to visit.                                              *)
(***************************************************************************)
BreadthFirst ==
    TraversalEnded =>
        \A d \in 1..MaxDepth :
            /\ FoundWithin(d) \subseteq WithinHops(ever, d)
            /\ ~cut /\ (queue = <<>> \/ d < Head(queue).depth) =>
                  WithinHops(steady, d) \subseteq FoundWithin(d)

\* The end of fact f other than x.
Across(f, x) == IF fact[f].subject = x THEN fact[f].object ELSE fact[f].subject

\* The entities on a walk over the facts of p.
Walks(p) ==
    {e \in [1..(Len(p) + 1) -> Entities] :
        \A i \in 1..Len(p) : /\ e[i] \in {fact[p[i]].subject, fact[p[i]].object}
                             /\ e[i + 1] = Across(p[i], e[i])}

IsWalk(p, from) == \E e \in Walks(p) : e[1] = from

(***************************************************************************)
(* The provenance of graph evidence is real: its graph_path_fact_ids are a *)
(* walk of at most MaxDepth facts from its seed to the fact, all of them   *)
(* visible at some time; and no fact is evidence twice.                    *)
(***************************************************************************)
EvidenceIsWalk ==
    /\ \A e \in RangeOf(evidence) :
          /\ Len(e.path) \in 1..MaxDepth
          /\ e.path[Len(e.path)] = e.fact
          /\ RangeOf(e.path) \subseteq Edges(ever)
          /\ IsWalk(e.path, e.seed)
    /\ \A i, j \in DOMAIN evidence : evidence[i].fact = evidence[j].fact => i = j

\* The path a result's path goes on from, and the results that are not of the current entry.
Parent(r) == SubSeq(r.path, 1, Len(r.path) - 1)
Earlier == {i \in DOMAIN results : Parent(results[i]) # current.path}

(***************************************************************************)
(* The limit is tested once per queue entry: only the two fetches of the   *)
(* last entry may overshoot it. The results of an entry are the ones whose *)
(* path goes on from the entry's path.                                     *)
(***************************************************************************)
ResultsBounded ==
    results # <<>> =>
        /\ Cardinality(Earlier) < MaxFacts
        /\ Len(results) <= Cardinality(Earlier) + 2 * FetchLimit

-----------------------------------------------------------------------------
\* Why they hold: the paths in the queue and in the results are walks from the seed, and no
\* path is visited twice, so that the results of an entry come from its own two fetches.

Entry == [entity : Entities, depth : Nat, path : Seq(Facts)]
Result == [fact : Facts, depth : Nat, path : Seq(Facts)]
Visiting == pc \in {"subject", "object"}

TraversalTypeOK ==
    /\ fact \in Graphs /\ query \in Queries /\ seeds \in Seq(Entities)
    /\ steady \subseteq visible /\ visible \subseteq ever /\ ever \subseteq Facts
    /\ pc \in {"seeds", "loop", "subject", "object", "done"}
    /\ pc \notin {"seeds", "done"} => seed \in Entities
    /\ queue \in Seq(Entry) /\ results \in Seq(Result)
    /\ Visiting \/ results # <<>> => current \in Entry
    /\ seen \subseteq Entities \X Facts
    /\ evidence \in Seq([fact : Facts, path : Seq(Facts), seed : Entities])

LeadsTo(p, from, x) == \E e \in Walks(p) : e[1] = from /\ e[Len(p) + 1] = x

Reached(q) ==
    /\ q.depth = Len(q.path) + 1
    /\ RangeOf(q.path) \subseteq Edges(ever)
    /\ LeadsTo(q.path, seed, q.entity)

Traced(r) ==
    /\ r.depth = Len(r.path) /\ r.depth \in 1..MaxDepth
    /\ r.path[Len(r.path)] = r.fact
    /\ RangeOf(r.path) \subseteq Edges(ever)
    /\ IsWalk(r.path, seed)

PathsAreWalks ==
    /\ \A q \in RangeOf(queue) : Reached(q)
    /\ Visiting => Reached(current) /\ current.depth <= MaxDepth
    /\ \A r \in RangeOf(results) : Traced(r)

FoundPath(p) == p = <<>> \/ \E r \in RangeOf(results) : r.path = p

PathsAreNew ==
    /\ \A q \in RangeOf(queue) : FoundPath(q.path)
    /\ \A r \in RangeOf(results) : FoundPath(Parent(r))
    /\ \A i, j \in DOMAIN queue : queue[i].path = queue[j].path => i = j
    /\ \A q \in RangeOf(queue), r \in RangeOf(results) : Parent(r) # q.path
    /\ Visiting =>
          /\ FoundPath(current.path)
          /\ \A q \in RangeOf(queue) : q.path # current.path
          /\ \A r \in RangeOf(results) :
                Parent(r) = current.path => <<current.entity, r.fact>> \in seen

ResultsCounted ==
    Visiting => /\ Cardinality(Earlier) < MaxFacts
                /\ Len(results) <= Cardinality(Earlier) + IF pc = "subject" THEN 0 ELSE FetchLimit

\* Entries are visited in the order of their depths.
DepthsAscend ==
    /\ \A i, j \in DOMAIN queue : /\ i < j => queue[i].depth <= queue[j].depth
                                  /\ queue[j].depth <= queue[i].depth + 1
    /\ \A q \in RangeOf(queue), r \in RangeOf(results) : r.depth <= q.depth
    /\ Visiting =>
          /\ \A q \in RangeOf(queue) : current.depth <= q.depth /\ q.depth <= current.depth + 1
          /\ \A r \in RangeOf(results) : r.depth <= current.depth

\* Fact f was crossed from entity x at depth d or before.
Crossed(x, f, d) ==
    \E r \in RangeOf(results) : r.fact = f /\ r.depth <= d /\ LeadsTo(Parent(r), seed, x)

SeenIsCrossed == \A s \in seen : Crossed(s[1], s[2], MaxDepth)

Expanded(p) ==
    /\ FoundPath(p) /\ Len(p) < MaxDepth
    /\ \A q \in RangeOf(queue) : q.path # p
    /\ Visiting => current.path # p

\* Unless a fetch was cut short, all steady facts at the end of an expanded path were crossed.
SteadyIsCrossed ==
    ~cut /\ pc \notin {"seeds", "done"} =>
        /\ \A p \in Seq(Facts), x \in Entities : Expanded(p) /\ LeadsTo(p, seed, x) =>
              \A f \in Edges(steady) :
                  x \in {fact[f].subject, fact[f].object} => Crossed(x, f, Len(p) + 1)
        /\ pc = "object" => \A f \in Edges(steady) :
              fact[f].subject = current.entity => Crossed(current.entity, f, current.depth)

TraversalIInv ==
    /\ TraversalTypeOK /\ PathsAreWalks /\ PathsAreNew /\ ResultsCounted /\ ResultsBounded
    /\ EvidenceIsWalk /\ DepthsAscend /\ SeenIsCrossed /\ SteadyIsCrossed

\* Retrieval ends however the graph changes meanwhile.
RetrievalEnds == <>(pc = "done")
=============================================================================
