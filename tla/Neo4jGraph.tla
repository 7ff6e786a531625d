----------------------------- MODULE Neo4jGraph -----------------------------
(***************************************************************************)
(* The part of the Neo4j graph that the outbox projector writes, as pure   *)
(* operators on a graph value.  A graph is a set of nodes (entities, facts *)
(* and mentions, identified by their ids) and the two edges that tie a     *)
(* fact to its subject and its object.  Node properties are functions of   *)
(* the event payload alone (every MERGE is followed by a SET of all of     *)
(* them), so a node is present or absent and carries no further data.      *)
(***************************************************************************)

\* A payload is a record: type, node (the id its MERGE is keyed on) and, for a
\* fact, subject and object.  The types of domain/evidence.py the code emits:
EventTypes ==
    {"ENTITY_MENTIONED", "ENTITY_RESOLVED", "FACT_CANDIDATE", "DOCUMENT_PARSED"}

\* The types project_event has a branch for.
ProjectedTypes == EventTypes \ {"DOCUMENT_PARSED"}

SubjectEdge(f) == [fact |-> f, role |-> "SUBJECT_OF"]

ObjectEdge(f)  == [fact |-> f, role |-> "OBJECT"]

EmptyGraph == [nodes |-> {}, edges |-> {}]

-----------------------------------------------------------------------------

(***************************************************************************)
(* _ENTITY_MERGE creates or overwrites the entity node.  _MENTION_MERGE    *)
(* does the same for a mention; its trailing MATCH on a Chunk node finds   *)
(* nothing, because no statement of the program creates Chunk nodes.       *)
(***************************************************************************)
MergeNode(n, g) == [g EXCEPT !.nodes = @ \cup {n}]

(***************************************************************************)
(* _FACT_MERGE creates the fact node, then MATCHes the subject, MERGEs its *)
(* edge, MATCHes the object and MERGEs its edge.  A MATCH without a result *)
(* ends the statement without an error: the edges after it are not made.   *)
(***************************************************************************)
EdgesMatched(p, g) ==
    IF p.subject \notin g.nodes THEN {}
    ELSE IF p.object \notin g.nodes THEN {SubjectEdge(p.node)}
    ELSE {SubjectEdge(p.node), ObjectEdge(p.node)}

MergeFact(p, g) ==
    [nodes |-> g.nodes \cup {p.node},
     edges |-> g.edges \cup EdgesMatched(p, g)]

\* project_event: dispatch on the event type; the last branch only logs.
ProjectEvent(p, g) ==
    CASE p.type \in {"ENTITY_MENTIONED", "ENTITY_RESOLVED"} -> MergeNode(p.node, g)
      [] p.type = "FACT_CANDIDATE" -> MergeFact(p, g)
      [] OTHER -> g

\* find_facts: a fact is read through the path subject -> fact -> object.
FindableFacts(g) ==
    {f \in g.nodes : {SubjectEdge(f), ObjectEdge(f)} \subseteq g.edges}

=============================================================================
