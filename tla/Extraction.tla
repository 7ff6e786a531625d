----------------------------- MODULE Extraction -----------------------------
(***************************************************************************)
(* The extraction workflow: mentions are extracted from a chunk, each is   *)
(* resolved to an entity of the graph or to a new one, facts are extracted *)
(* between the entities, and all of it is emitted to the outbox.           *)
(*                                                                         *)
(* The resolver works in a Neo4j transaction and the emitter in a          *)
(* PostgreSQL one; the caller, which is not part of the repository,        *)
(* commits both in some order once the workflow is through.  The outbox    *)
(* worker projects the emitted events later, in any order.                 *)
(*                                                                         *)
(* An entity is a record of its id, type and canonical name; its only      *)
(* alias is that name.  Names that differ in case are 100 similar.         *)
(***************************************************************************)
EXTENDS Integers, Sequences, FiniteSets, Neo4jGraph

CONSTANTS
    Jobs,                \* runs of the workflow
    Names,
    Unnamed,             \* a surface form of white space
    Predicates,          \* of the ontology
    Similarity,          \* Similarity[a][b]: _string_similarity, in hundredths
    ExtractorOutputs,    \* sequences of [name, type, confidence]
    FactOutputs,         \* sets of [subject, predicate, object, confidence]
    FindLimit            \* the LIMIT of _ENTITY_FIND, 100 in the code

MinCandidateSimilarity == 50
FuzzyThreshold == 85
ReviewThreshold == 70
MinConfidence == 50

Confident(x) == x.confidence >= MinConfidence

\* All the model ever says: what passes the filter is of these.
Said == UNION {{o[k] : k \in DOMAIN o} : o \in ExtractorOutputs}

ASSUME ExtractionConstants ==
    /\ Unnamed \notin Names /\ \A m \in Said : m.name \in Names \cup {Unnamed}
    /\ \A o \in ExtractorOutputs : SelectSeq(o, Confident) \in Seq(Said)
    /\ FindLimit \in Nat \ {0}
    /\ \A a \in Names : Similarity[a][a] = 100
    /\ \A a, b \in Names : Similarity[a][b] \in 0..100 /\ Similarity[a][b] = Similarity[b][a]

VARIABLES
    pc,
    mentions,     \* mentions[j]: the mentions job j has not resolved yet
    extracted,    \* extracted[j]: all of them
    resolved,     \* resolved[j]: resolved_entities
    facts,        \* facts[j]: the facts to emit
    tx,           \* tx[j]: entities created in j's open Neo4j transaction
    neo, pg,      \* neo[j], pg[j]: "open", "committed" or "rolledback"
    graph,        \* what is committed in Neo4j
    outbox,       \* committed events
    projected,    \* the events the worker has projected
    overlapped,   \* history: a job resolved while another's entities could be on their way
    cutOff        \* history: find_entities left out a row

jobVars == <<pc, mentions, extracted, resolved, facts, tx, neo, pg>>
extractionVars == <<jobVars, graph, outbox, projected, overlapped, cutOff>>

Ended == {"done", "failed"}

ExtractionInit ==
    /\ pc = [j \in Jobs |-> "extract"]
    /\ mentions = [j \in Jobs |-> <<>>]
    /\ extracted = [j \in Jobs |-> <<>>]
    /\ resolved = [j \in Jobs |-> <<>>]
    /\ facts = [j \in Jobs |-> {}]
    /\ tx = [j \in Jobs |-> {}]
    /\ neo = [j \in Jobs |-> "open"]
    /\ pg = [j \in Jobs |-> "open"]
    /\ graph = EmptyGraph
    /\ outbox = {} /\ projected = {}
    /\ overlapped = FALSE /\ cutOff = FALSE

Go(j, s) == pc' = [pc EXCEPT ![j] = s]

-----------------------------------------------------------------------------
\* extract_entities: what the model answers, or nothing when the call fails.
Extract(j, output) ==
    /\ pc[j] = "extract"
    /\ mentions' = [mentions EXCEPT ![j] = SelectSeq(output, Confident)]
    /\ extracted' = [extracted EXCEPT ![j] = SelectSeq(output, Confident)]
    /\ Go(j, "resolve")
    /\ UNCHANGED <<resolved, facts, tx, neo, pg, graph, outbox, projected, overlapped, cutOff>>

-----------------------------------------------------------------------------
\* resolve_entities, one mention after the other.

Entities(nodes) == {n \in nodes : n.label = "Entity"}

\* Variant: the resolver's own transaction is not read.
SeesCommitted(j) == Entities(graph.nodes)

\* What j's transaction sees: what is committed, and its own writes.
Sees(j) == Entities(graph.nodes) \cup tx[j]

OfType(t, entities) == {e \in entities : e.type = t}

\* _ENTITY_FIND: at most FindLimit rows, no matter which.
Rows(j, t) ==
    LET all == OfType(t, Sees(j))
    IN  {R \in SUBSET all : /\ Cardinality(R) <= FindLimit
                            /\ Cardinality(R) < FindLimit => R = all}

Candidates(rows, name) == {e \in rows : Similarity[name][e.name] >= MinCandidateSimilarity}

Best(candidates, name) ==
    {e \in candidates : \A d \in candidates : Similarity[name][d.name] <= Similarity[name][e.name]}

\* Another job is in its transaction, or its entities have not reached the graph yet.
InFlight(j) == \/ \E i \in Jobs \ {j} : pc[i] \notin Ended \cup {"extract"} /\ neo[i] = "open"
               \/ {p \in outbox : p.type = "ENTITY_RESOLVED"} \ projected # {}

Resolved(j, e) ==
    /\ resolved' = [resolved EXCEPT ![j] = Append(@, e)]
    /\ mentions' = [mentions EXCEPT ![j] = Tail(@)]

Ambiguous(j) ==
    /\ mentions' = [mentions EXCEPT ![j] = Tail(@)]
    /\ UNCHANGED resolved

\* resolve up to its first await: the candidates are read, the best one decides.
Find(j) ==
    /\ pc[j] = "resolve" /\ mentions[j] # <<>>
    /\ LET m == Head(mentions[j]) IN
       \/ /\ m.name = Unnamed
          /\ Ambiguous(j)
          /\ UNCHANGED <<pc, overlapped, cutOff>>
       \/ /\ m.name # Unnamed
          /\ overlapped' = (overlapped \/ InFlight(j))
          /\ cutOff' = (cutOff \/ Cardinality(OfType(m.type, Sees(j))) > FindLimit)
          /\ \E rows \in Rows(j, m.type) :
                LET best == Best(Candidates(rows, m.name), m.name)
                    atLeast(n) == {e \in best : Similarity[m.name][e.name] >= n}
                IN  \/ /\ \E e \in atLeast(FuzzyThreshold) : Resolved(j, e)
                       /\ UNCHANGED pc
                    \/ /\ atLeast(FuzzyThreshold) = {} /\ atLeast(ReviewThreshold) # {}
                       /\ Ambiguous(j)
                       /\ UNCHANGED pc
                    \/ /\ atLeast(ReviewThreshold) = {}
                       /\ Go(j, "create")
                       /\ UNCHANGED <<mentions, resolved>>
    /\ UNCHANGED <<extracted, facts, tx, neo, pg, graph, outbox, projected>>

\* _create_new: a new id, merged in the job's transaction.
Create(j) ==
    /\ pc[j] = "create"
    /\ LET m == Head(mentions[j])
           e == [label |-> "Entity", id |-> <<j, Len(mentions[j])>>, type |-> m.type, name |-> m.name]
       IN  /\ tx' = [tx EXCEPT ![j] = @ \cup {e}]
           /\ Resolved(j, e)
    /\ overlapped' = (overlapped \/ InFlight(j))
    /\ Go(j, "resolve")
    /\ UNCHANGED <<extracted, facts, neo, pg, graph, outbox, projected, cutOff>>

-----------------------------------------------------------------------------
\* name_to_id: the last entity of a name wins.
NamedIn(entities, name) ==
    LET at == {k \in DOMAIN entities : entities[k].name = name}
    IN  IF at = {} THEN {} ELSE {entities[CHOOSE k \in at : \A i \in at : i <= k]}

\* The facts of an answer that are kept; the others are dropped silently.
FactsOf(j, output) ==
    UNION {[type : {"FACT_CANDIDATE"}, node : {[label |-> "Fact", job |-> j, fact |-> f]},
            subject : NamedIn(resolved[j], f.subject), object : NamedIn(resolved[j], f.object)] :
           f \in {g \in output : Confident(g) /\ g.predicate \in Predicates}}

\* extract_facts, and emit_outbox, which only adds rows to the PostgreSQL session.
ExtractFacts(j, output) ==
    /\ pc[j] = "resolve" /\ mentions[j] = <<>>
    /\ facts' = [facts EXCEPT ![j] = FactsOf(j, output)]
    /\ Go(j, "commit")
    /\ UNCHANGED <<mentions, extracted, resolved, tx, neo, pg, graph, outbox, projected,
                   overlapped, cutOff>>

-----------------------------------------------------------------------------
\* The two commits. What emit_outbox added appears with the PostgreSQL one.

MentionEvents(j) ==
    {[type |-> "ENTITY_MENTIONED", node |-> [label |-> "Mention", job |-> j, k |-> k]] :
         k \in DOMAIN extracted[j]}
EntityEvents(j) ==
    {[type |-> "ENTITY_RESOLVED", node |-> resolved[j][k]] : k \in DOMAIN resolved[j]}

\* Variant: entities are left to the resolver's transaction.
EmittedWithoutEntities(j) == MentionEvents(j) \cup facts[j]

Emitted(j) == MentionEvents(j) \cup EntityEvents(j) \cup facts[j]

\* The job's state is gone once it ends.
Forget(j) ==
    /\ extracted' = [extracted EXCEPT ![j] = <<>>]
    /\ mentions' = [mentions EXCEPT ![j] = <<>>]
    /\ resolved' = [resolved EXCEPT ![j] = <<>>]
    /\ facts' = [facts EXCEPT ![j] = {}]

Committed(j, other) ==
    IF other[j] = "committed" THEN Go(j, "done") /\ Forget(j)
    ELSE UNCHANGED <<pc, extracted, mentions, resolved, facts>>

CommitPostgres(j) ==
    /\ pc[j] = "commit" /\ pg[j] = "open"
    /\ outbox' = outbox \cup Emitted(j)
    /\ pg' = [pg EXCEPT ![j] = "committed"]
    /\ Committed(j, neo)
    /\ UNCHANGED <<tx, neo, graph, projected, overlapped, cutOff>>

CommitNeo4j(j) ==
    /\ pc[j] = "commit" /\ neo[j] = "open"
    /\ graph' = [graph EXCEPT !.nodes = @ \cup tx[j]]
    /\ tx' = [tx EXCEPT ![j] = {}]
    /\ neo' = [neo EXCEPT ![j] = "committed"]
    /\ Committed(j, pg)
    /\ UNCHANGED <<pg, outbox, projected, overlapped, cutOff>>

\* Any statement raises, or the process dies: what is not committed is rolled back.
Fail(j) ==
    /\ pc[j] \notin Ended
    /\ LET rolledBack(s) == IF s = "open" THEN "rolledback" ELSE s
       IN  /\ neo' = [neo EXCEPT ![j] = rolledBack(@)]
           /\ pg' = [pg EXCEPT ![j] = rolledBack(@)]
    /\ tx' = [tx EXCEPT ![j] = {}]
    /\ Go(j, "failed")
    /\ Forget(j)
    /\ UNCHANGED <<graph, outbox, projected, overlapped, cutOff>>

\* The outbox worker, once more for an event it has projected already too.
Project(p) ==
    /\ p \in outbox
    /\ graph' = ProjectEvent(p, graph)
    /\ projected' = projected \cup {p}
    /\ UNCHANGED <<jobVars, outbox, overlapped, cutOff>>

JobStep(j) ==
    \/ \E o \in ExtractorOutputs : Extract(j, o)
    \/ Find(j) \/ Create(j)
    \/ \E o \in FactOutputs : ExtractFacts(j, o)
    \/ CommitPostgres(j) \/ CommitNeo4j(j)

ExtractionNext ==
    \/ \E j \in Jobs : JobStep(j) \/ Fail(j)
    \/ \E p \in outbox : Project(p)

ExtractionSpec == ExtractionInit /\ [][ExtractionNext]_extractionVars

-----------------------------------------------------------------------------
(***************************************************************************)
(* The resolver keeps entities apart: two entities of a type are less      *)
(* similar than the review threshold, as long as find_entities saw every   *)
(* row and no job resolved while another's transaction was open or its     *)
(* entities were still in the outbox.                                      *)
(***************************************************************************)
EntitiesAreDistinct ==
    (~overlapped /\ ~cutOff) =>
        \A d, e \in Entities(graph.nodes) \cup UNION {tx[j] : j \in Jobs} :
            (d.type = e.type /\ d # e) => Similarity[d.name][e.name] < ReviewThreshold

(***************************************************************************)
(* Once the worker has projected every event, the entities that any fact   *)
(* in the graph names are in the graph, also when the Neo4j transaction    *)
(* that created them was rolled back after the events were committed.      *)
(***************************************************************************)
FactEntitiesExist ==
    projected = outbox =>
        \A p \in outbox : p.type = "FACT_CANDIDATE" => {p.subject, p.object} \subseteq graph.nodes

-----------------------------------------------------------------------------
\* Why facts have their entities: a fact is emitted together with the entities it names,
\* which are among those the job has resolved and its transaction sees.

EntityEvent(n) == [type |-> "ENTITY_RESOLVED", node |-> n]
EventsOf(type) == {p \in outbox : p.type = type}

ExtractionTypeOK ==
    /\ pc \in [Jobs -> Ended \cup {"extract", "resolve", "create", "commit"}]
    /\ mentions \in [Jobs -> Seq(Said)]
    /\ \A f \in {extracted, facts, resolved, tx} : DOMAIN f = Jobs
    /\ \A j \in Jobs : resolved[j] \in Seq(Sees(j))
    /\ neo \in [Jobs -> {"open", "committed", "rolledback"}]
    /\ pg \in [Jobs -> {"open", "committed", "rolledback"}]
    /\ DOMAIN graph = {"nodes", "edges"}
    /\ overlapped \in BOOLEAN /\ cutOff \in BOOLEAN

FactsHaveEntities ==
    /\ \A j \in Jobs : \A p \in facts[j] :
          /\ p.type = "FACT_CANDIDATE" /\ p.node.label = "Fact"
          /\ \A n \in {p.subject, p.object} : \E k \in DOMAIN resolved[j] : resolved[j][k] = n
    /\ \A p \in EventsOf("FACT_CANDIDATE") :
          {EntityEvent(p.subject), EntityEvent(p.object)} \subseteq outbox

ProjectedIsInGraph ==
    projected \subseteq outbox /\ \A p \in projected : p.type = "ENTITY_RESOLVED" => p.node \in graph.nodes

\* Why entities stay apart: an entity is created by the only job that has something to
\* create, which sees all there is, in the graph, in a transaction or in the outbox.

AllEntities ==
    Entities(graph.nodes) \cup {p.node : p \in EventsOf("ENTITY_RESOLVED")} \cup UNION {tx[j] : j \in Jobs}

EntitiesAreNamed ==
    /\ IsFiniteSet(Entities(graph.nodes)) /\ \A j \in Jobs : IsFiniteSet(tx[j])
    /\ \A e \in AllEntities : e.label = "Entity" /\ e.name \in Names
    /\ \A p \in outbox : \/ p.type = "ENTITY_RESOLVED"
                         \/ p.type \in {"ENTITY_MENTIONED", "FACT_CANDIDATE"} /\ p.node.label # "Entity"

OpenWhileResolving ==
    \A j \in Jobs : /\ pc[j] \in {"extract", "resolve", "create"} => neo[j] = "open"
                    /\ tx[j] # {} => pc[j] \notin Ended \cup {"extract"} /\ neo[j] = "open"

CreatesAlone ==
    \A j \in Jobs : pc[j] = "create" =>
        /\ mentions[j] # <<>> /\ Head(mentions[j]).name \in Names
        /\ ~overlapped =>
              /\ AllEntities \subseteq Sees(j)
              /\ \A i \in Jobs \ {j} : pc[i] # "create"
              /\ ~cutOff => \A e \in OfType(Head(mentions[j]).type, Sees(j)) :
                               Similarity[Head(mentions[j]).name][e.name] < ReviewThreshold

AllDistinct ==
    (~overlapped /\ ~cutOff) =>
        \A d, e \in AllEntities :
            (d.type = e.type /\ d # e) => Similarity[d.name][e.name] < ReviewThreshold

ExtractionIInv ==
    /\ ExtractionTypeOK /\ FactsHaveEntities /\ ProjectedIsInGraph
    /\ EntitiesAreNamed /\ OpenWhileResolving /\ CreatesAlone /\ AllDistinct
=============================================================================
