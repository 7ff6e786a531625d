------------------------- MODULE GraphWorkerProofs -------------------------
(***************************************************************************)
(* Proofs, for any sets of events, workers and tokens and any bounds, of   *)
(* the safety properties of the outbox and its projection workers.         *)
(***************************************************************************)
EXTENDS GraphWorker, TLAPS

-----------------------------------------------------------------------------
(* Facts about the operators the actions are built from.                   *)

\* The retry delay is always within its cap.
LEMMA BackoffBounded == \A n : Backoff(n) \in 1..MaxBackoff
BY OutboxConstants DEF Backoff

\* A projection adds nodes and edges of the event's own kind, and only adds.
LEMMA ProjectEventType ==
    ASSUME NEW e \in Events,
           NEW g \in [nodes : SUBSET Nodes, edges : SUBSET Edges]
    PROVE  /\ ProjectEvent(Payload[e], g) \in [nodes : SUBSET Nodes, edges : SUBSET Edges]
           /\ g.nodes \subseteq ProjectEvent(Payload[e], g).nodes
           /\ e \in GraphEvents => Payload[e].node \in ProjectEvent(Payload[e], g).nodes
<1>1. CASE Payload[e].type \in {"ENTITY_MENTIONED", "ENTITY_RESOLVED"}
  <2>1. e \in GraphEvents /\ Payload[e].node \in Nodes
    BY <1>1 DEF GraphEvents, Nodes, ProjectedTypes, EventTypes
  <2>2. ProjectEvent(Payload[e], g) = MergeNode(Payload[e].node, g)
    BY <1>1 DEF ProjectEvent
  <2> QED
    BY <2>1, <2>2 DEF MergeNode
<1>2. CASE Payload[e].type = "FACT_CANDIDATE"
  <2>1. e \in GraphEvents /\ Payload[e].node \in Nodes
    BY <1>2 DEF GraphEvents, Nodes, ProjectedTypes, EventTypes
  <2>2. ProjectEvent(Payload[e], g) = MergeFact(Payload[e], g)
    BY <1>2 DEF ProjectEvent
  <2>3. EdgesMatched(Payload[e], g) \subseteq Edges
    BY <2>1 DEF EdgesMatched, SubjectEdge, ObjectEdge, Edges
  <2> QED
    BY <2>1, <2>2, <2>3 DEF MergeFact
<1>3. CASE Payload[e].type = "DOCUMENT_PARSED"
  BY <1>3 DEF ProjectEvent, GraphEvents, ProjectedTypes
<1> QED
  BY <1>1, <1>2, <1>3, WorkerConstants DEF EventTypes

-----------------------------------------------------------------------------
(* The inductive invariant.                                                *)

\* The empty outbox with idle workers satisfies the invariant.
LEMMA InitIInv == Init => IInv
<1> SUFFICES ASSUME Init PROVE IInv
  OBVIOUS
<1>1. TypeOK
  <2>1. RowsTypeOK
    BY OutboxConstants DEF Init, RowsInit, RowsTypeOK, Statuses
  <2>2. graph \in [nodes : SUBSET Nodes, edges : SUBSET Edges]
    BY DEF Init, EmptyGraph
  <2> QED
    BY <2>1, <2>2 DEF Init, TypeOK, NoClaims
<1>2. CurrentIsHeld /\ CompletingIsProjected
  BY DEF Init, CurrentIsHeld, CompletingIsProjected
<1>3. TokensNotShared
  BY DEF Init, NoClaims, TokensNotShared
<1>4. ClocksMatchStatus /\ CompletedIsProjected
  BY DEF Init, RowsInit, ClocksMatchStatus, CompletedIsProjected, GraphEvents
<1> QED
  BY <1>1, <1>2, <1>3, <1>4 DEF IInv

\* What a step that moves only the rows must respect.
LEMMA EmitIInv == ASSUME IInv, NEW t, Emit(t) PROVE IInv'
<1> USE DEF IInv
<1>1. TypeOK'
  BY DEF TypeOK, RowsTypeOK, Statuses, Emit, Add, workerVars
<1>2. CurrentIsHeld' /\ CompletingIsProjected' /\ TokensNotShared'
  BY DEF Emit, workerVars, CurrentIsHeld, CompletingIsProjected, TokensNotShared
<1>3. ClocksMatchStatus'
  BY DEF Emit, Add, ClocksMatchStatus, TypeOK, RowsTypeOK
<1>4. CompletedIsProjected'
  BY DEF Emit, Add, CompletedIsProjected, GraphEvents, TypeOK, RowsTypeOK
<1> QED
  BY <1>1, <1>2, <1>3, <1>4

LEMMA TickIInv == ASSUME IInv, Tick PROVE IInv'
<1> USE DEF IInv
<1>1. TypeOK'
  <2>1. lease' \in [Events -> 0..LeaseDuration] /\ delay' \in [Events -> 0..MaxBackoff]
    BY OutboxConstants DEF Tick, TimePasses, Elapse, TypeOK, RowsTypeOK
  <2> QED
    BY <2>1 DEF TypeOK, RowsTypeOK, Tick, TimePasses, workerVars
<1>2. CurrentIsHeld' /\ CompletingIsProjected' /\ TokensNotShared'
  BY DEF Tick, workerVars, CurrentIsHeld, CompletingIsProjected, TokensNotShared
<1>3. ClocksMatchStatus'
  BY DEF Tick, TimePasses, Elapse, ClocksMatchStatus, TypeOK, RowsTypeOK
<1>4. CompletedIsProjected'
  BY DEF Tick, TimePasses, CompletedIsProjected
<1> QED
  BY <1>1, <1>2, <1>3, <1>4

\* A claim: fresh tokens keep the claims of different workers apart.
LEMMA ClaimBatchIInv == ASSUME IInv, NEW w \in Workers, ClaimBatch(w) PROVE IInv'
<1> USE DEF IInv
<1>1. PICK locked \in SUBSET LockedByOthers(w), batch \in SUBSET Events :
        /\ IsBatch(batch, locked)
        /\ \A e \in batch : \E t \in Tokens : t \notin UsedTokens(e)
        /\ ClaimRows(batch, [e \in batch |-> FreshToken(e)])
        /\ held' = [held EXCEPT ![w] = [e \in Events |->
                       IF e \in batch THEN FreshToken(e) ELSE None]]
  BY DEF ClaimBatch
<1>2. pc' = [pc EXCEPT ![w] = "project"] /\ pc[w] = "poll"
      /\ running' = running /\ cur' = cur /\ graph' = graph
  BY DEF ClaimBatch
<1>3. \A e \in batch : FreshToken(e) \in Tokens /\ FreshToken(e) \notin UsedTokens(e)
  BY <1>1 DEF FreshToken
<1>4. \A e \in batch : Claimable(e)
  BY <1>1 DEF IsBatch
<1>5. TypeOK'
  <2>1. RowsTypeOK'
    BY <1>1, <1>3, OutboxConstants DEF ClaimRows, TypeOK, RowsTypeOK, Statuses
  <2>2. held' \in [Workers -> [Events -> Tokens \cup {None}]]
    BY <1>1, <1>3 DEF TypeOK
  <2> QED
    BY <1>2, <2>1, <2>2 DEF TypeOK
<1>6. CurrentIsHeld'
  BY <1>1, <1>2 DEF CurrentIsHeld, TypeOK
<1>7. CompletingIsProjected'
  BY <1>2 DEF CompletingIsProjected, TypeOK
<1>8. TokensNotShared'
  <2> SUFFICES ASSUME NEW e \in Events, NEW u \in Workers, NEW v \in Workers,
                      held'[u][e] # None, held'[u][e] = held'[v][e]
               PROVE  u = v
    BY DEF TokensNotShared
  <2>1. \A x \in Workers \ {w} : held'[x][e] = held[x][e]
    BY <1>1 DEF TypeOK
  <2>2. held'[w][e] = IF e \in batch THEN FreshToken(e) ELSE None
    BY <1>1 DEF TypeOK
  <2>3. \A x \in Workers : e \in batch => FreshToken(e) # held[x][e]
    BY <1>3 DEF UsedTokens
  <2> QED
    BY <2>1, <2>2, <2>3 DEF TokensNotShared
<1>9. ClocksMatchStatus'
  BY <1>1, <1>4 DEF ClaimRows, Claimable, ClocksMatchStatus, TypeOK, RowsTypeOK
<1>10. CompletedIsProjected'
  BY <1>1, <1>2 DEF ClaimRows, CompletedIsProjected, GraphEvents, TypeOK, RowsTypeOK
<1> QED
  BY <1>5, <1>6, <1>7, <1>8, <1>9, <1>10

\* A projection, answered or not: the graph only grows.
LEMMA ProjectIInv ==
    ASSUME IInv, NEW w \in Workers, NEW e \in Events, ProjectOk(w, e) \/ ProjectError(w, e)
    PROVE  IInv'
<1> USE DEF IInv
<1>1. /\ UNCHANGED <<rowVars, running, held>>
      /\ held[w][e] # None
      /\ cur' = [cur EXCEPT ![w] = e]
      /\ \/ pc' = [pc EXCEPT ![w] = "complete"] /\ graph' = ProjectEvent(Payload[e], graph)
         \/ pc' = [pc EXCEPT ![w] = "fail"]
  BY DEF ProjectOk, ProjectError, IsNext, HeldEvents
<1>2. /\ graph' \in [nodes : SUBSET Nodes, edges : SUBSET Edges]
      /\ graph.nodes \subseteq graph'.nodes
  BY ProjectEventType DEF ProjectOk, ProjectError, TypeOK
<1>3. pc' = [pc EXCEPT ![w] = "complete"] /\ e \in GraphEvents => Payload[e].node \in graph'.nodes
  <2>1. CASE ProjectOk(w, e)
    BY <2>1, ProjectEventType DEF ProjectOk, TypeOK
  <2>2. CASE ProjectError(w, e)
    <3>1. pc' = [pc EXCEPT ![w] = "fail"]
      BY <2>2 DEF ProjectError
    <3> QED
      BY <3>1 DEF TypeOK
  <2> QED
    BY <2>1, <2>2
<1>4. TypeOK'
  BY <1>1, <1>2 DEF TypeOK, RowsTypeOK, rowVars
<1>5. CurrentIsHeld'
  BY <1>1 DEF CurrentIsHeld, TypeOK
<1>6. CompletingIsProjected'
  BY <1>1, <1>2, <1>3 DEF CompletingIsProjected, TypeOK, GraphEvents
<1>7. TokensNotShared' /\ ClocksMatchStatus'
  BY <1>1 DEF TokensNotShared, ClocksMatchStatus, rowVars
<1>8. CompletedIsProjected'
  BY <1>1, <1>2 DEF CompletedIsProjected, GraphEvents, rowVars
<1> QED
  BY <1>4, <1>5, <1>6, <1>7, <1>8

\* Letting go of claims keeps the workers' part of the invariant.
LEMMA ReleaseClaims ==
    ASSUME IInv, NEW w \in Workers, Advance(w) \/ Abandon(w), cur[w] \in Events,
           UNCHANGED <<running, graph>>
    PROVE  /\ CurrentIsHeld' /\ CompletingIsProjected' /\ TokensNotShared'
           /\ pc' \in [Workers -> {"poll", "project", "complete", "fail"}]
           /\ running' \in [Workers -> BOOLEAN]
           /\ held' \in [Workers -> [Events -> Tokens \cup {None}]]
           /\ cur' \in [Workers -> Events \cup {None}]
           /\ graph' \in [nodes : SUBSET Nodes, edges : SUBSET Edges]
<1> USE DEF IInv
<1>1. /\ \A v \in Workers \ {w} : held'[v] = held[v] /\ cur'[v] = cur[v] /\ pc'[v] = pc[v]
      /\ pc'[w] \in {"poll", "project"}
      /\ \A e \in Events : held'[w][e] \in {None, held[w][e]}
      /\ held' \in [Workers -> [Events -> Tokens \cup {None}]]
      /\ cur' \in [Workers -> Events \cup {None}]
      /\ pc' \in [Workers -> {"poll", "project", "complete", "fail"}]
  <2>1. CASE Advance(w)
    <3>1. /\ held' = [held EXCEPT ![w] = [held[w] EXCEPT ![cur[w]] = None]]
          /\ held[w] \in [Events -> Tokens \cup {None}]
      BY <2>1 DEF Advance, TypeOK
    <3>2. /\ \A e \in Events : held'[w][e] \in {None, held[w][e]}
          /\ held' \in [Workers -> [Events -> Tokens \cup {None}]]
          /\ \A v \in Workers \ {w} : held'[v] = held[v]
      BY <3>1 DEF TypeOK
    <3> QED
      BY <2>1, <3>2 DEF Advance, TypeOK
  <2>2. CASE Abandon(w)
    BY <2>2 DEF Abandon, NoClaims, TypeOK
  <2> QED
    BY <2>1, <2>2
<1>2. CurrentIsHeld'
  BY <1>1 DEF CurrentIsHeld
<1>3. CompletingIsProjected'
  BY <1>1 DEF CompletingIsProjected
<1>4. TokensNotShared'
  BY <1>1 DEF TokensNotShared
<1> QED
  BY <1>1, <1>2, <1>3, <1>4 DEF TypeOK

\* mark_completed by the token holder, whether its answer arrives or not.
LEMMA MarkCompletedRows ==
    ASSUME IInv, NEW w \in Workers, pc[w] = "complete", graph' = graph,
           MarkCompleted(cur[w], held[w][cur[w]])
    PROVE  RowsTypeOK' /\ ClocksMatchStatus' /\ CompletedIsProjected'
<1> USE DEF IInv
<1>1. cur[w] \in Events /\ (cur[w] \in GraphEvents => Payload[cur[w]].node \in graph.nodes)
  BY DEF CurrentIsHeld, CompletingIsProjected
<1>2. RowsTypeOK'
  BY <1>1, OutboxConstants DEF MarkCompleted, TypeOK, RowsTypeOK, Statuses
<1>3. ClocksMatchStatus'
  BY <1>1 DEF MarkCompleted, HoldsClaim, ClocksMatchStatus, TypeOK, RowsTypeOK
<1>4. CompletedIsProjected'
  BY <1>1 DEF MarkCompleted, CompletedIsProjected, GraphEvents, TypeOK, RowsTypeOK
<1> QED
  BY <1>2, <1>3, <1>4

\* mark_failed by the token holder, whether its answer arrives or not.
LEMMA MarkFailedRows ==
    ASSUME IInv, NEW w \in Workers, pc[w] = "fail", graph' = graph,
           MarkFailed(cur[w], held[w][cur[w]])
    PROVE  RowsTypeOK' /\ ClocksMatchStatus' /\ CompletedIsProjected'
<1> USE DEF IInv
<1>1. cur[w] \in Events
  BY DEF CurrentIsHeld
<1>2. RowsTypeOK'
  <2>1. Backoff(attempts[cur[w]]) \in 0..MaxBackoff
    BY BackoffBounded
  <2> QED
    BY <1>1, <2>1, OutboxConstants DEF MarkFailed, TypeOK, RowsTypeOK, Statuses
<1>3. ClocksMatchStatus'
  BY <1>1 DEF MarkFailed, ClocksMatchStatus, TypeOK, RowsTypeOK
<1>4. CompletedIsProjected'
  BY <1>1 DEF MarkFailed, CompletedIsProjected, GraphEvents, TypeOK, RowsTypeOK
<1> QED
  BY <1>2, <1>3, <1>4

\* Rows that do not change keep their part of the invariant.
LEMMA UnchangedRows ==
    ASSUME IInv, UNCHANGED <<rowVars, graph>>
    PROVE  RowsTypeOK' /\ ClocksMatchStatus' /\ CompletedIsProjected'
BY DEF IInv, TypeOK, RowsTypeOK, ClocksMatchStatus, CompletedIsProjected, rowVars, GraphEvents

\* The steps in which a worker settles its current event, or dies.
LEMMA SettleIInv ==
    ASSUME IInv, NEW w \in Workers,
           CompleteOk(w) \/ CompleteError(w) \/ FailOk(w) \/ FailError(w)
    PROVE  IInv'
<1>1. cur[w] \in Events /\ graph' = graph /\ running' = running
  BY DEF IInv, CurrentIsHeld, CompleteOk, CompleteError, FailOk, FailError
<1>2. RowsTypeOK' /\ ClocksMatchStatus' /\ CompletedIsProjected'
  <2>1. CASE pc[w] = "complete" /\ MarkCompleted(cur[w], held[w][cur[w]])
    BY <2>1, <1>1, MarkCompletedRows
  <2>2. CASE pc[w] = "fail" /\ MarkFailed(cur[w], held[w][cur[w]])
    BY <2>2, <1>1, MarkFailedRows
  <2>3. CASE UNCHANGED rowVars
    BY <2>3, <1>1, UnchangedRows
  <2> QED
    BY <2>1, <2>2, <2>3 DEF CompleteOk, CompleteError, FailOk, FailError
<1>3. CASE CompleteError(w)
  <2>1. TypeOK'
    BY <1>2, <1>3 DEF IInv, TypeOK, CompleteError
  <2>2. CurrentIsHeld'
    BY <1>3 DEF IInv, TypeOK, CompleteError, CurrentIsHeld
  <2>3. CompletingIsProjected' /\ TokensNotShared'
    BY <1>3 DEF IInv, TypeOK, CompleteError, CompletingIsProjected, TokensNotShared
  <2> QED
    BY <1>2, <2>1, <2>2, <2>3 DEF IInv
<1>4. CASE Advance(w) \/ Abandon(w)
  BY <1>1, <1>2, <1>4, ReleaseClaims DEF IInv, TypeOK
<1> QED
  BY <1>3, <1>4 DEF CompleteOk, FailOk, FailError

LEMMA CrashStopIInv == ASSUME IInv, NEW w \in Workers, Crash(w) \/ Stop(w) PROVE IInv'
<1>1. CASE Crash(w)
  <2>1. RowsTypeOK' /\ ClocksMatchStatus' /\ CompletedIsProjected'
    BY <1>1, UnchangedRows DEF Crash
  <2>2. /\ pc' = [pc EXCEPT ![w] = "poll"]
        /\ held' = [held EXCEPT ![w] = NoClaims]
        /\ cur' = [cur EXCEPT ![w] = None]
        /\ running' = running /\ graph' = graph
    BY <1>1 DEF Crash, Abandon
  <2>3. TypeOK'
    BY <2>1, <2>2 DEF IInv, TypeOK, NoClaims
  <2>4. CurrentIsHeld' /\ CompletingIsProjected'
    BY <2>2 DEF IInv, TypeOK, CurrentIsHeld, CompletingIsProjected
  <2>5. TokensNotShared'
    BY <2>2 DEF IInv, TypeOK, TokensNotShared, NoClaims
  <2> QED
    BY <2>1, <2>3, <2>4, <2>5 DEF IInv
<1>2. CASE Stop(w)
  <2>1. RowsTypeOK' /\ ClocksMatchStatus' /\ CompletedIsProjected'
    BY <1>2, UnchangedRows DEF Stop
  <2>2. TypeOK'
    BY <1>2, <2>1 DEF IInv, TypeOK, Stop
  <2>3. CurrentIsHeld' /\ CompletingIsProjected' /\ TokensNotShared'
    BY <1>2 DEF IInv, Stop, CurrentIsHeld, CompletingIsProjected, TokensNotShared
  <2> QED
    BY <2>1, <2>2, <2>3 DEF IInv
<1> QED
  BY <1>1, <1>2

\* Every step of the workers, the clock and the emitters preserves IInv.
THEOREM Inductive == IInv /\ [Next]_vars => IInv'
<1> SUFFICES ASSUME IInv, [Next]_vars PROVE IInv'
  OBVIOUS
<1>1. ASSUME NEW t, Emit(t) PROVE IInv'
  BY <1>1, EmitIInv
<1>2. CASE Tick
  BY <1>2, TickIInv
<1>3. ASSUME NEW w \in Workers, Step(w) PROVE IInv'
  <2>1. CASE ClaimBatch(w)
    BY <2>1, ClaimBatchIInv
  <2>2. CASE Project(w)
    BY <2>2, ProjectIInv DEF Project
  <2>3. CASE CompleteOk(w) \/ CompleteError(w) \/ FailOk(w) \/ FailError(w)
    BY <2>3, SettleIInv
  <2> QED
    BY <1>3, <2>1, <2>2, <2>3 DEF Step
<1>4. ASSUME NEW w \in Workers, Crash(w) \/ Stop(w) PROVE IInv'
  BY <1>4, CrashStopIInv
<1>5. CASE UNCHANGED vars
  <2>1. RowsTypeOK' /\ ClocksMatchStatus' /\ CompletedIsProjected'
    BY <1>5, UnchangedRows DEF vars
  <2> QED
    BY <1>5, <2>1 DEF vars, workerVars, IInv, TypeOK, CurrentIsHeld,
                      CompletingIsProjected, TokensNotShared
<1> QED
  BY <1>1, <1>2, <1>3, <1>4, <1>5 DEF Next

THEOREM SpecIInv == Spec => []IInv
BY InitIInv, Inductive, PTL DEF Spec

-----------------------------------------------------------------------------
(* The properties of GraphWorker, for every instance.                      *)

\* Every reachable state of rows, workers and graph is well typed.
THEOREM TypeCorrect == Spec => []TypeOK
<1>1. IInv => TypeOK
  BY DEF IInv
<1> QED
  BY <1>1, SpecIInv, PTL

\* plan.md 5.3, step 3: no row is completed before its node is in the graph.
THEOREM ProjectionPrecedesCompletion == Spec => []CompletedIsProjected
<1>1. IInv => CompletedIsProjected
  BY DEF IInv
<1> QED
  BY <1>1, SpecIInv, PTL

\* Claim tokens fence stale workers: at most one claim on a row is good.
THEOREM TokensFence == Spec => []OneValidClaim
<1>1. IInv => OneValidClaim
  BY DEF IInv, TokensNotShared, OneValidClaim, HoldsClaim
<1> QED
  BY <1>1, SpecIInv, PTL

\* No worker, however late, changes a completed row.
THEOREM CompletionIsFinal == Spec => CompletedIsFinal
<1> DEFINE Row(e) == <<status[e], claim_token[e], lease[e], delay[e], attempts[e]>>
<1>1. ASSUME IInv, [Next]_vars, NEW e \in Events, status[e] = "completed"
      PROVE  Row(e)' = Row(e)
  <2> USE <1>1 DEF IInv
  <2>1. CASE UNCHANGED rowVars
    BY <2>1 DEF rowVars
  <2>2. ASSUME NEW t, Emit(t) PROVE Row(e)' = Row(e)
    BY <2>2 DEF Emit, Add, TypeOK, RowsTypeOK
  <2>3. CASE Tick
    BY <2>3 DEF Tick, TimePasses, Elapse, ClocksMatchStatus, TypeOK, RowsTypeOK
  <2>4. ASSUME NEW w \in Workers, ClaimBatch(w) PROVE Row(e)' = Row(e)
    <3>1. PICK batch \in SUBSET Events :
             /\ \A f \in batch : Claimable(f)
             /\ ClaimRows(batch, [f \in batch |-> FreshToken(f)])
      BY <2>4 DEF ClaimBatch, IsBatch
    <3>2. e \notin batch
      BY <3>1 DEF Claimable
    <3> QED
      BY <3>1, <3>2 DEF ClaimRows
  <2>5. ASSUME NEW w \in Workers, NEW t, cur[w] \in Events,
               MarkCompleted(cur[w], t) \/ MarkFailed(cur[w], t)
        PROVE  Row(e)' = Row(e)
    <3>1. e # cur[w]
      BY <2>5 DEF MarkCompleted, MarkFailed, HoldsClaim
    <3> QED
      BY <2>5, <3>1 DEF MarkCompleted, MarkFailed, TypeOK, RowsTypeOK
  <2>6. ASSUME NEW w \in Workers, Step(w) PROVE Row(e)' = Row(e)
    <3>1. pc[w] \in {"complete", "fail"} => cur[w] \in Events
      BY DEF CurrentIsHeld
    <3> QED
      BY <2>1, <2>4, <2>5, <2>6, <3>1
         DEF Step, Project, ProjectOk, ProjectError,
             CompleteOk, CompleteError, FailOk, FailError
  <2> QED
    BY <2>1, <2>2, <2>3, <2>6 DEF Next, Crash, Stop, vars
<1>2. IInv /\ [Next]_vars =>
        [\A e \in Events : status[e] = "completed" => Row(e)' = Row(e)]_vars
  BY <1>1
<1> QED
  BY <1>2, SpecIInv, PTL DEF Spec, CompletedIsFinal

\* Until a lease expires only its claimant gives the row up.
THEOREM LeaseIsRespected == Spec => LeaseProtectsClaim
<1> DEFINE GivenUp(e) == \E w \in Workers : /\ pc[w] = "fail"
                                           /\ cur[w] = e
                                           /\ held[w][e] = claim_token[e]
                                           /\ status'[e] = "pending"
           Protected(e) == status[e] = "claimed" /\ lease[e] > 0
                           /\ claim_token'[e] # claim_token[e]
<1>1. ASSUME IInv, [Next]_vars, NEW e \in Events, Protected(e)
      PROVE  GivenUp(e)
  <2> USE <1>1 DEF IInv
  <2>1. claim_token' # claim_token
    OBVIOUS
  <2>2. ASSUME NEW w \in Workers, ClaimBatch(w) PROVE FALSE
    <3>1. PICK batch \in SUBSET Events :
             /\ \A f \in batch : Claimable(f)
             /\ ClaimRows(batch, [f \in batch |-> FreshToken(f)])
      BY <2>2 DEF ClaimBatch, IsBatch
    <3>2. e \in batch
      BY <3>1 DEF ClaimRows
    <3> QED
      BY <3>1, <3>2 DEF Claimable
  <2>3. ASSUME NEW w \in Workers, pc[w] = "fail", MarkFailed(cur[w], held[w][cur[w]])
        PROVE  GivenUp(e)
    <3>1. cur[w] \in Events
      BY <2>3 DEF CurrentIsHeld
    <3>2. e = cur[w]
      BY <2>3, <3>1 DEF MarkFailed, TypeOK, RowsTypeOK
    <3> QED
      BY <2>3, <3>2 DEF MarkFailed, HoldsClaim, TypeOK, RowsTypeOK
  <2>4. ASSUME NEW w \in Workers, Step(w) PROVE GivenUp(e)
    BY <2>1, <2>2, <2>3, <2>4
       DEF Step, Project, ProjectOk, ProjectError, CompleteOk, CompleteError,
           MarkCompleted, FailOk, FailError, rowVars
  <2> QED
    BY <2>1, <2>4 DEF Next, Emit, Add, Tick, TimePasses, Crash, Stop, vars, rowVars
<1>2. IInv /\ [Next]_vars => [\A e \in Events : Protected(e) => GivenUp(e)]_vars
  BY <1>1
<1> QED
  BY <1>2, SpecIInv, PTL DEF Spec, LeaseProtectsClaim

\* plan.md 5.2: projecting an event again changes nothing, so redelivery by a
\* second worker right after the first is harmless.
THEOREM ProjectionIsIdempotent ==
    ASSUME NEW p, NEW g, g = [nodes |-> g.nodes, edges |-> g.edges],
           p.type = "FACT_CANDIDATE" => p.node \notin {p.subject, p.object}
    PROVE  ProjectEvent(p, ProjectEvent(p, g)) = ProjectEvent(p, g)
<1>1. CASE p.type \in {"ENTITY_MENTIONED", "ENTITY_RESOLVED"}
  BY <1>1 DEF ProjectEvent, MergeNode
<1>2. CASE p.type = "FACT_CANDIDATE"
  BY <1>2 DEF ProjectEvent, MergeFact, EdgesMatched
<1>3. CASE p.type \notin {"ENTITY_MENTIONED", "ENTITY_RESOLVED", "FACT_CANDIDATE"}
  BY <1>3 DEF ProjectEvent
<1> QED
  BY <1>1, <1>2, <1>3

-----------------------------------------------------------------------------
(* The workers implement the delivery contract of OutboxDelivery.          *)

\* Steps after which every status is absent, queued or done as before, and
\* which leave the graph alone, are invisible in the contract.
LEMMA SameStages ==
    ASSUME IInv, graph' = graph, status' \in [Events -> Statuses],
           \A e \in Events : Stage(status'[e]) = Stage(status[e])
    PROVE  UNCHANGED <<stage, delivered>>
<1>1. stage' = stage
  BY DEF stage
<1>2. \A e \in Events : status'[e] # "absent" <=> status[e] # "absent"
  BY DEF Stage, IInv, TypeOK, RowsTypeOK, Statuses
<1>3. delivered' = delivered
  BY <1>2 DEF delivered, InGraph, GraphEvents
<1> QED
  BY <1>1, <1>3

LEMMA EmitRefines == ASSUME IInv, NEW t, Emit(t) PROVE Delivery!Next
<1> DEFINE S == {e \in Events : CreatedAt[e] = t}
           D == {e \in S : InGraph(e)}
<1>1. /\ S # {}
      /\ \A e \in S : status[e] = "absent"
      /\ status' = [e \in Events |-> IF e \in S THEN "pending" ELSE status[e]]
      /\ graph' = graph
  BY DEF Emit, Add
<1>2. stage' = [e \in Events |-> IF e \in S THEN "queued" ELSE stage[e]]
  BY <1>1 DEF stage, Stage
<1>3. \A e \in S : stage[e] = "absent"
  BY <1>1 DEF stage, Stage
<1>4. delivered' = delivered \cup D
  <2>1. \A e \in Events : InGraph(e)' <=> InGraph(e)
    BY <1>1 DEF InGraph, GraphEvents
  <2>2. \A e \in Events : status'[e] # "absent" <=> (e \in S \/ status[e] # "absent")
    BY <1>1
  <2>3. delivered' = {e \in Events : status'[e] # "absent" /\ InGraph(e)'}
    BY DEF delivered
  <2> QED
    BY <2>1, <2>2, <2>3 DEF delivered
<1>5. Delivery!Accept(S, D)
  BY <1>1, <1>2, <1>3, <1>4 DEF Delivery!Accept
<1> QED
  BY <1>5 DEF Delivery!Next

LEMMA ProjectRefines ==
    ASSUME IInv, NEW w \in Workers, NEW e \in Events, ProjectOk(w, e) \/ ProjectError(w, e)
    PROVE  Delivery!Next \/ UNCHANGED <<stage, delivered>>
<1>1. status' = status /\ graph.nodes \subseteq graph'.nodes
  BY ProjectEventType DEF ProjectOk, ProjectError, rowVars, IInv, TypeOK
<1>2. stage' = stage
  BY <1>1 DEF stage
<1>3. delivered \subseteq delivered'
  BY <1>1 DEF delivered, InGraph, GraphEvents
<1>4. delivered' \subseteq {f \in Events : stage[f] # "absent"}
  BY <1>1 DEF delivered, stage, Stage
<1>5. CASE delivered' \subseteq delivered
  BY <1>2, <1>3, <1>5
<1>6. CASE ~(delivered' \subseteq delivered)
  <2>1. Delivery!Deliver(delivered')
    BY <1>2, <1>3, <1>4, <1>6 DEF Delivery!Deliver
  <2>2. delivered' \in SUBSET Events
    BY <1>4
  <2> QED
    BY <2>1, <2>2 DEF Delivery!Next
<1> QED
  BY <1>5, <1>6

LEMMA MarkCompletedRefines ==
    ASSUME IInv, NEW w \in Workers, pc[w] = "complete", graph' = graph,
           MarkCompleted(cur[w], held[w][cur[w]])
    PROVE  Delivery!Next
<1>1. cur[w] \in Events /\ InGraph(cur[w])
  BY DEF IInv, CurrentIsHeld, CompletingIsProjected, InGraph
<1>2. /\ status[cur[w]] = "claimed"
      /\ status' = [status EXCEPT ![cur[w]] = "completed"]
      /\ status \in [Events -> Statuses]
  BY DEF MarkCompleted, HoldsClaim, IInv, TypeOK, RowsTypeOK
<1>3. stage[cur[w]] = "queued" /\ cur[w] \in delivered
  BY <1>1, <1>2 DEF stage, Stage, delivered
<1>4. stage' = [stage EXCEPT ![cur[w]] = "done"]
  BY <1>1, <1>2 DEF stage, Stage
<1>5. delivered' = delivered
  BY <1>1, <1>2 DEF delivered, InGraph, GraphEvents
<1>6. Delivery!Settle(cur[w])
  BY <1>3, <1>4, <1>5 DEF Delivery!Settle
<1> QED
  BY <1>1, <1>6 DEF Delivery!Next

\* Claims, failures, crashes, stops and the clock do not show.
LEMMA InvisibleSteps ==
    ASSUME IInv, IInv', NEW w \in Workers,
           \/ ClaimBatch(w) \/ Crash(w) \/ Stop(w) \/ Tick \/ UNCHANGED vars
           \/ /\ UNCHANGED rowVars \/ (pc[w] = "fail" /\ MarkFailed(cur[w], held[w][cur[w]]))
              /\ graph' = graph
    PROVE  UNCHANGED <<stage, delivered>>
<1>1. graph' = graph /\ status' \in [Events -> Statuses] /\ status \in [Events -> Statuses]
  BY DEF ClaimBatch, Crash, Stop, Tick, vars, IInv, TypeOK, RowsTypeOK
<1>2. \A e \in Events : Stage(status'[e]) = Stage(status[e])
  <2>1. CASE status' = status
    BY <2>1
  <2>2. CASE ClaimBatch(w)
    <3>1. PICK batch \in SUBSET Events :
             /\ \A f \in batch : Claimable(f)
             /\ ClaimRows(batch, [f \in batch |-> FreshToken(f)])
      BY <2>2 DEF ClaimBatch, IsBatch
    <3> QED
      BY <3>1 DEF ClaimRows, Claimable, Stage
  <2>3. CASE pc[w] = "fail" /\ MarkFailed(cur[w], held[w][cur[w]])
    <3>1. cur[w] \in Events
      BY <2>3 DEF IInv, CurrentIsHeld
    <3> QED
      BY <1>1, <2>3, <3>1 DEF MarkFailed, HoldsClaim, Stage
  <2> QED
    BY <2>1, <2>2, <2>3 DEF Crash, Stop, Tick, TimePasses, vars, rowVars
<1> QED
  BY <1>1, <1>2, SameStages

\* The outbox with its workers delivers each event at least once, settles it
\* only then and never unsettles it: every step is a step of the contract.
THEOREM WorkersImplementDelivery == Spec => ImplementsDelivery
<1>1. Init => Delivery!Init
  BY DEF Init, RowsInit, EmptyGraph, Delivery!Init, stage, Stage, delivered
<1>2. IInv /\ IInv' /\ [Next]_vars => [Delivery!Next]_<<stage, delivered>>
  <2> SUFFICES ASSUME IInv, IInv', [Next]_vars
               PROVE  Delivery!Next \/ UNCHANGED <<stage, delivered>>
    OBVIOUS
  <2>1. ASSUME NEW t, Emit(t) PROVE Delivery!Next
    BY <2>1, EmitRefines
  <2>2. CASE Tick \/ UNCHANGED vars
    <3>1. graph' = graph /\ status' = status
      BY <2>2 DEF Tick, TimePasses, vars, rowVars
    <3> QED
      BY <3>1, SameStages DEF IInv, TypeOK, RowsTypeOK
  <2>3. ASSUME NEW w \in Workers, Step(w) \/ Crash(w) \/ Stop(w)
        PROVE  Delivery!Next \/ UNCHANGED <<stage, delivered>>
    <3>1. CASE ClaimBatch(w) \/ Crash(w) \/ Stop(w)
      BY <3>1, InvisibleSteps
    <3>2. CASE Project(w)
      BY <3>2, ProjectRefines DEF Project
    <3>3. CASE CompleteOk(w) \/ CompleteError(w) \/ FailOk(w) \/ FailError(w)
      BY <3>3, InvisibleSteps, MarkCompletedRefines
         DEF CompleteOk, CompleteError, FailOk, FailError
    <3> QED
      BY <2>3, <3>1, <3>2, <3>3 DEF Step
  <2> QED
    BY <2>1, <2>2, <2>3 DEF Next
<1> QED
  BY <1>1, <1>2, SpecIInv, PTL DEF Spec, ImplementsDelivery, Delivery!Spec, Delivery!dvars

=============================================================================
