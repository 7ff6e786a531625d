--------------------------- MODULE MCGraphWorker ---------------------------
(***************************************************************************)
(* Instances of GraphWorker for TLC: what one run of the extraction graph  *)
(* emits about one or two entities and a fact between them.                *)
(***************************************************************************)
EXTENDS GraphWorker, TLC

CONSTANTS entA, entB, fact, parsed   \* events

Entity(n) == [type |-> "ENTITY_RESOLVED", node |-> n]

MCPayload ==
    (entA :> Entity("a")) @@ (entB :> Entity("b"))
    @@ (fact :> [type |-> "FACT_CANDIDATE", node |-> "f", subject |-> "a", object |-> "b"])
    @@ (parsed :> [type |-> "DOCUMENT_PARSED", node |-> "d"])

\* One transaction: every row has the same created_at.
OneTransaction == [e \in Events |-> 1]

\* One transaction per event, in this order.
InSequence == (parsed :> 1) @@ (entA :> 2) @@ (entB :> 3) @@ (fact :> 4)
CreatedInSequence == [e \in Events |-> InSequence[e]]
=============================================================================
