---------------------------- MODULE GraphWorker ----------------------------
(***************************************************************************)
(* OutboxGraphWorker: any number of workers poll the outbox, project each  *)
(* claimed event to Neo4j in one Neo4j transaction and then mark it in a   *)
(* PostgreSQL transaction of its own.  The two stores share no transaction *)
(* and a worker can fail, lose its lease or die between any two steps.     *)
(*                                                                         *)
(* held[w][e] is the claim token worker w got for e (None when e is not in *)
(* what is left of its batch); the batch is processed in created_at order. *)
(*   poll     - at the top of the loop, no batch                           *)
(*   project  - about to project the next event of the batch               *)
(*   complete - Neo4j transaction committed, mark_completed is next        *)
(*   fail     - in the except branch, mark_failed is next                  *)
(***************************************************************************)
EXTENDS Outbox, Neo4jGraph

CONSTANTS
    Workers,
    Payload,     \* Payload[e]: event_type and payload columns of row e
    Poison,      \* events whose projection always raises (malformed payload)
    Stoppable    \* workers on which stop() may be called

ASSUME WorkerConstants ==
    /\ None \notin Events
    /\ Poison \subseteq Events
    /\ Stoppable \subseteq Workers
    /\ \A e \in Events : Payload[e].type \in EventTypes

VARIABLES pc, running, held, cur, graph

workerVars == <<pc, running, held, cur>>

vars == <<rowVars, workerVars, graph>>

GraphEvents == {e \in Events : Payload[e].type \in ProjectedTypes}

Nodes == {Payload[e].node : e \in GraphEvents}

Edges == [fact : Nodes, role : {"SUBJECT_OF", "OBJECT"}]

TypeOK ==
    /\ RowsTypeOK
    /\ pc \in [Workers -> {"poll", "project", "complete", "fail"}]
    /\ running \in [Workers -> BOOLEAN]
    /\ held \in [Workers -> [Events -> Tokens \cup {None}]]
    /\ cur \in [Workers -> Events \cup {None}]
    /\ graph \in [nodes : SUBSET Nodes, edges : SUBSET Edges]

NoClaims == [e \in Events |-> None]

Init ==
    /\ RowsInit
    /\ pc = [w \in Workers |-> "poll"]
    /\ running = [w \in Workers |-> TRUE]
    /\ held = [w \in Workers |-> NoClaims]
    /\ cur = [w \in Workers |-> None]
    /\ graph = EmptyGraph

-----------------------------------------------------------------------------

HeldEvents(w) == {e \in Events : held[w][e] # None}

\* Rows another worker's mark transaction may have locked just now.
LockedByOthers(w) ==
    {cur[v] : v \in {u \in Workers \ {w} : pc[u] \in {"complete", "fail"}}}

\* Variant: a constant token, as the worker id is.
SameToken(e) == CHOOSE t \in Tokens : TRUE

(***************************************************************************)
(* uuid4().hex: a token that is in use nowhere.  Tokens are only ever      *)
(* compared with the token of the same row, so freshness per row is all    *)
(* that can be observed, and a value nobody remembers may come again.      *)
(***************************************************************************)
UsedTokens(e) == {claim_token[e]} \cup {held[w][e] : w \in Workers}

FreshToken(e) == CHOOSE t \in Tokens : t \notin UsedTokens(e)

\* The claim transaction of the worker loop.
ClaimBatch(w) ==
    /\ pc[w] = "poll"
    /\ running[w]
    /\ \E locked \in SUBSET LockedByOthers(w), batch \in SUBSET Events :
        /\ IsBatch(batch, locked)
        /\ batch # {}
        /\ \A e \in batch : \E t \in Tokens : t \notin UsedTokens(e)
        /\ ClaimRows(batch, [e \in batch |-> FreshToken(e)])
        /\ held' = [held EXCEPT ![w] = [e \in Events |->
                       IF e \in batch THEN FreshToken(e) ELSE None]]
    /\ pc' = [pc EXCEPT ![w] = "project"]
    /\ UNCHANGED <<running, cur, graph>>

\* The next event of w's batch.
IsNext(w, e) ==
    /\ e \in HeldEvents(w)
    /\ \A f \in HeldEvents(w) : CreatedAt[e] <= CreatedAt[f]

\* The Neo4j transaction commits and the worker learns that it did.
ProjectOk(w, e) ==
    /\ pc[w] = "project"
    /\ IsNext(w, e)
    /\ e \notin Poison
    /\ graph' = ProjectEvent(Payload[e], graph)
    /\ pc' = [pc EXCEPT ![w] = "complete"]
    /\ cur' = [cur EXCEPT ![w] = e]
    /\ UNCHANGED <<rowVars, running, held>>

\* Variant: the exception of the projection is logged and swallowed.
ProjectErrorSwallowed(w, e) ==
    /\ pc[w] = "project"
    /\ IsNext(w, e)
    /\ graph' = graph
    /\ pc' = [pc EXCEPT ![w] = "complete"]
    /\ cur' = [cur EXCEPT ![w] = e]
    /\ UNCHANGED <<rowVars, running, held>>

(***************************************************************************)
(* The projection raises: nothing was committed, or (unless the event can  *)
(* never be projected) the commit took effect and its answer was lost.     *)
(***************************************************************************)
ProjectError(w, e) ==
    /\ pc[w] = "project"
    /\ IsNext(w, e)
    /\ \/ graph' = graph
       \/ e \notin Poison /\ graph' = ProjectEvent(Payload[e], graph)
    /\ pc' = [pc EXCEPT ![w] = "fail"]
    /\ cur' = [cur EXCEPT ![w] = e]
    /\ UNCHANGED <<rowVars, running, held>>

\* The current event is done with: on to the next one, or back to polling.
Advance(w) ==
    /\ held' = [held EXCEPT ![w][cur[w]] = None]
    /\ cur' = [cur EXCEPT ![w] = None]
    /\ pc' = [pc EXCEPT ![w] = IF HeldEvents(w) = {cur[w]} THEN "poll" ELSE "project"]

\* The exception leaves the for loop: the rest of the batch is forgotten and
\* stays claimed until its lease runs out.
Abandon(w) ==
    /\ held' = [held EXCEPT ![w] = NoClaims]
    /\ cur' = [cur EXCEPT ![w] = None]
    /\ pc' = [pc EXCEPT ![w] = "poll"]

CompleteOk(w) ==
    /\ pc[w] = "complete"
    /\ MarkCompleted(cur[w], held[w][cur[w]])
    /\ Advance(w)
    /\ UNCHANGED <<running, graph>>

\* mark_completed raises: claim lost, database error, or answer lost.
CompleteError(w) ==
    /\ pc[w] = "complete"
    /\ \/ UNCHANGED rowVars
       \/ MarkCompleted(cur[w], held[w][cur[w]])
    /\ pc' = [pc EXCEPT ![w] = "fail"]
    /\ UNCHANGED <<running, held, cur, graph>>

FailOk(w) ==
    /\ pc[w] = "fail"
    /\ MarkFailed(cur[w], held[w][cur[w]])
    /\ Advance(w)
    /\ UNCHANGED <<running, graph>>

\* mark_failed raises too: claim lost, overflow, database error, answer lost.
FailError(w) ==
    /\ pc[w] = "fail"
    /\ \/ UNCHANGED rowVars
       \/ MarkFailed(cur[w], held[w][cur[w]])
    /\ Abandon(w)
    /\ UNCHANGED <<running, graph>>

\* The process dies or its task is cancelled, and a new one starts polling.
Crash(w) ==
    /\ pc[w] # "poll"
    /\ Abandon(w)
    /\ UNCHANGED <<rowVars, running, graph>>

\* stop(): the loop ends at its next test, after the batch it is in.
Stop(w) ==
    /\ w \in Stoppable
    /\ running[w]
    /\ running' = [running EXCEPT ![w] = FALSE]
    /\ UNCHANGED <<rowVars, pc, held, cur, graph>>

Emit(t) == Add(t) /\ UNCHANGED <<workerVars, graph>>

Tick == TimePasses /\ UNCHANGED <<workerVars, graph>>

Project(w) == \E e \in Events : ProjectOk(w, e) \/ ProjectError(w, e)

Step(w) ==
    \/ ClaimBatch(w)
    \/ Project(w)
    \/ CompleteOk(w)
    \/ CompleteError(w)
    \/ FailOk(w)
    \/ FailError(w)

Next ==
    \/ \E t \in {CreatedAt[e] : e \in Events} : Emit(t)
    \/ Tick
    \/ \E w \in Workers : Step(w) \/ Crash(w) \/ Stop(w)

Spec == Init /\ [][Next]_vars

(***************************************************************************)
(* Fairness.  Workers and the clock keep running.  Each database operation *)
(* on an event, when it is tried again and again, is in the end answered:  *)
(* neither store is down for good, not every attempt outlives its lease    *)
(* and a worker does not die at the same step every time.  Nothing is      *)
(* assumed of emitters and stop().                                         *)
(***************************************************************************)
EventuallyAnswered(e) ==
    IF e \in Poison
    THEN /\ SF_vars(\E w \in Workers : ProjectError(w, e))
         /\ SF_vars(\E w \in Workers : cur[w] = e /\ FailOk(w))
    ELSE /\ SF_vars(\E w \in Workers : ProjectOk(w, e))
         /\ SF_vars(\E w \in Workers : cur[w] = e /\ CompleteOk(w))

Fairness ==
    /\ WF_vars(Tick)
    /\ \A w \in Workers : WF_vars(Step(w))
    /\ \A e \in Events : EventuallyAnswered(e)

FairSpec == Spec /\ Fairness

-----------------------------------------------------------------------------

(***************************************************************************)
(* Projection before completion (plan.md 5.3, step 3): a row is completed  *)
(* only when its node is in the graph, whatever crashed, timed out or was  *)
(* retried on the way.                                                     *)
(***************************************************************************)
CompletedIsProjected ==
    \A e \in GraphEvents : status[e] = "completed" => Payload[e].node \in graph.nodes

(***************************************************************************)
(* Stale-worker protection (the claim_token of mark_completed and          *)
(* mark_failed): of all the workers that still remember a claim on a row,  *)
(* leases expired or not, at most one could have it accepted.              *)
(***************************************************************************)
OneValidClaim ==
    \A e \in Events : \A v, w \in Workers :
        /\ held[v][e] # None /\ HoldsClaim(e, held[v][e])
        /\ held[w][e] # None /\ HoldsClaim(e, held[w][e])
        => v = w

(***************************************************************************)
(* Completion is final: no late mark_failed, re-claim or second            *)
(* mark_completed of any worker touches a completed row again.             *)
(***************************************************************************)
CompletedIsFinal ==
    [][\A e \in Events : status[e] = "completed" =>
          <<status[e], claim_token[e], lease[e], delay[e], attempts[e]>>'
          = <<status[e], claim_token[e], lease[e], delay[e], attempts[e]>>]_vars

(***************************************************************************)
(* A running lease protects its claim: until it expires the row changes    *)
(* hands only because the claimant itself, still holding the token, marks  *)
(* the row failed after its projection or its mark_completed raised.       *)
(***************************************************************************)
LeaseProtectsClaim ==
    [][\A e \in Events :
          status[e] = "claimed" /\ lease[e] > 0 /\ claim_token'[e] # claim_token[e]
          => \E w \in Workers : /\ pc[w] = "fail"
                               /\ cur[w] = e
                               /\ held[w][e] = claim_token[e]
                               /\ status'[e] = "pending"]_vars

(***************************************************************************)
(* Eventual consistency of the two stores (ADR-002): once every event is   *)
(* completed, the graph holds each fact in a form find_facts can read,     *)
(* that is, with both of its edges.                                        *)
(***************************************************************************)
CompletedFactsFindable ==
    (\A e \in Events : status[e] = "completed") =>
        \A e \in Events : Payload[e].type = "FACT_CANDIDATE" =>
            Payload[e].node \in FindableFacts(graph)

(***************************************************************************)
(* At-least-once delivery: every event that can be projected is completed, *)
(* although workers crash and are stopped, leases expire in the middle of  *)
(* a batch, either store fails now and then, and poisonous events go back  *)
(* to the front of the queue for ever.                                     *)
(***************************************************************************)
EventuallyCompleted ==
    \A e \in Events \ Poison : status[e] = "pending" ~> status[e] = "completed"

(***************************************************************************)
(* The inductive invariant behind the safety properties.  A worker past    *)
(* its projection still holds the token of its current event and, when it  *)
(* is about to complete it, the node is in the graph; no two workers ever  *)
(* remember the same token for the same row; a claimed row has a token and *)
(* no delay, and a completed row has no clock running.                     *)
(***************************************************************************)
CurrentIsHeld ==
    \A w \in Workers : pc[w] \in {"complete", "fail"} =>
        cur[w] \in Events /\ held[w][cur[w]] # None

CompletingIsProjected ==
    \A w \in Workers : pc[w] = "complete" /\ cur[w] \in GraphEvents =>
        Payload[cur[w]].node \in graph.nodes

TokensNotShared ==
    \A e \in Events : \A v, w \in Workers :
        held[v][e] # None /\ held[v][e] = held[w][e] => v = w

ClocksMatchStatus ==
    \A e \in Events :
        /\ status[e] \in {"absent", "claimed", "completed"} => delay[e] = 0
        /\ status[e] # "claimed" => lease[e] = 0

IInv ==
    /\ TypeOK
    /\ CurrentIsHeld
    /\ CompletingIsProjected
    /\ TokensNotShared
    /\ ClocksMatchStatus
    /\ CompletedIsProjected

(***************************************************************************)
(* What the outbox promises, as OutboxDelivery states it: the row's status *)
(* without the claims, and the events whose effect is in the graph.        *)
(***************************************************************************)
Stage(st) ==
    CASE st = "absent" -> "absent"
      [] st = "completed" -> "done"
      [] OTHER -> "queued"

stage == [e \in Events |-> Stage(status[e])]

InGraph(e) == e \in GraphEvents => Payload[e].node \in graph.nodes

delivered == {e \in Events : status[e] # "absent" /\ InGraph(e)}

Delivery == INSTANCE OutboxDelivery WITH Deliverable <- Events \ Poison

\* The workers implement the delivery contract.
ImplementsDelivery == Delivery!Spec

\* They do so with its progress guarantee.
ImplementsFairDelivery == Delivery!FairSpec

=============================================================================
