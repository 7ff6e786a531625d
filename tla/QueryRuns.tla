----------------------------- MODULE QueryRuns -----------------------------
(***************************************************************************)
(* POST /v1/query and POST /executions/{id}/replay: the handler persists   *)
(* an execution run, drives the query workflow with its retries, and moves *)
(* the run through its statuses by compare-and-set, one commit per move.   *)
(* A run is named after the call that created it.                          *)
(*                                                                         *)
(*   create  - the PENDING row is about to be inserted                     *)
(*   begin   - PENDING -> RUNNING is next                                  *)
(*   execute - a workflow attempt is about to resolve the active index     *)
(*   search  - index resolved; retrieval, generation, validation are next  *)
(*   decide  - the attempt ended, the workflow routes                      *)
(*   finish  - the workflow returned, RUNNING -> SUCCEEDED is next         *)
(*   except  - an exception was caught, RUNNING -> FAILED is next          *)
(***************************************************************************)
EXTENDS Naturals, QueryResponses

CONSTANTS
    Calls,        \* calls of the two endpoints
    Users,        \* (tenant, principal) identities
    Versions,     \* index versions that get published
    MaxRetries,   \* QueryWorkflowState.max_retries, 1 in the code
    Unreliable,   \* the calls for which PostgreSQL may fail or whose process may die
    None

ASSUME QueryConstants ==
    /\ MaxRetries \in Nat
    /\ Unreliable \subseteq Calls
    /\ None \notin Versions \cup Calls \cup Users
    /\ None \notin Responses

VARIABLES
    active,     \* the active index version; None: none for this embedding model
    status,     \* execution_runs.status, "none" when there is no row
    index,      \* execution_runs.index_version_id
    output,     \* the status field of execution_runs.output
    owner, orig,                        \* caller; the run being replayed
    pc, at, retries, error, resp, told  \* the handler and its workflow state

rowVars == <<status, index, output, owner, orig>>
flowVars == <<at, retries, error, resp>>
vars == <<active, rowVars, flowVars, pc, told>>

Terminal == {"succeeded", "failed"}

TypeOK ==
    /\ active \in Versions \cup {None}
    /\ status \in [Calls -> {"none", "pending", "running"} \cup Terminal]
    /\ index \in [Calls -> Versions \cup {None}]
    /\ output \in [Calls -> ResponseStatuses \cup {None}]
    /\ owner \in [Calls -> Users \cup {None}]
    /\ orig \in [Calls -> Calls \cup {None}]
    /\ pc \in [Calls -> {"idle", "create", "begin", "execute", "search", "decide",
                         "finish", "except", "ended"}]
    /\ at \in [Calls -> Versions \cup {None}]
    /\ retries \in [Calls -> 0..MaxRetries]
    /\ error \in [Calls -> BOOLEAN]
    /\ resp \in [Calls -> Responses \cup {None}]
    /\ told \in [Calls -> {"nothing", "answer", "error"}]

Init ==
    /\ active \in Versions \cup {None}
    /\ status = [c \in Calls |-> "none"]
    /\ index = [c \in Calls |-> None]
    /\ output = [c \in Calls |-> None]
    /\ owner = [c \in Calls |-> None]
    /\ orig = [c \in Calls |-> None]
    /\ pc = [c \in Calls |-> "idle"]
    /\ at = [c \in Calls |-> None]
    /\ retries = [c \in Calls |-> 0]
    /\ error = [c \in Calls |-> FALSE]
    /\ resp = [c \in Calls |-> None]
    /\ told = [c \in Calls |-> "nothing"]

Go(c, s) == pc' = [pc EXCEPT ![c] = s]
Tell(c, t) == told' = [told EXCEPT ![c] = t]

\* A new index version replaces the active one.
Publish(v) ==
    /\ active' = v
    /\ UNCHANGED <<rowVars, flowVars, pc, told>>

-----------------------------------------------------------------------------
\* The handlers.

\* query_v1 resolves the index version that the run will record.
Query(c, u) ==
    /\ pc[c] = "idle"
    /\ owner' = [owner EXCEPT ![c] = u]
    /\ at' = [at EXCEPT ![c] = active]
    /\ IF active = None
       THEN Go(c, "ended") /\ Tell(c, "error")
       ELSE Go(c, "create") /\ UNCHANGED told
    /\ UNCHANGED <<active, status, index, output, orig, retries, error, resp>>

\* Variant: any run of the caller can be replayed.
CanReplayAny(u, o) == status[o] # "none" /\ owner[o] = u

CanReplay(u, o) == status[o] \in Terminal /\ owner[o] = u

\* replay_execution; a run that cannot be replayed is refused, nothing changes.
Replay(c, u, o) ==
    /\ pc[c] = "idle"
    /\ CanReplay(u, o)
    /\ owner' = [owner EXCEPT ![c] = u]
    /\ orig' = [orig EXCEPT ![c] = o]
    /\ Go(c, "create")
    /\ UNCHANGED <<active, status, index, output, flowVars, told>>

\* create_run; a replay's row has no index_version_id.
Create(c) ==
    /\ pc[c] = "create"
    /\ status' = [status EXCEPT ![c] = "pending"]
    /\ index' = [index EXCEPT ![c] = at[c]]
    /\ Go(c, "begin")
    /\ UNCHANGED <<active, output, owner, orig, flowVars, told>>

\* Variant: the row is updated whatever its status is.
SetBlindly(c, expected, new) ==
    status' = [status EXCEPT ![c] = new]

\* update_run_status: UPDATE ... WHERE status = expected.
CompareAndSet(c, expected, new) ==
    /\ status[c] = expected
    /\ status' = [status EXCEPT ![c] = new]

Begin(c) ==
    /\ pc[c] = "begin"
    /\ CompareAndSet(c, "pending", "running")
    /\ Go(c, "execute")
    /\ UNCHANGED <<active, index, output, owner, orig, flowVars, told>>

\* _execute_node: every attempt resolves the active version again.
Resolve(c) ==
    /\ pc[c] = "execute"
    /\ at' = [at EXCEPT ![c] = active]
    /\ error' = [error EXCEPT ![c] = active = None]
    /\ Go(c, IF active = None THEN "decide" ELSE "search")
    /\ UNCHANGED <<active, rowVars, retries, resp, told>>

\* Retrieval, generation and validation, in whatever way they end.
Attempt(c) ==
    /\ pc[c] = "search"
    /\ \/ \E r \in AttemptResponses :
            /\ resp' = [resp EXCEPT ![c] = r]
            /\ error' = [error EXCEPT ![c] = FALSE]
       \/ /\ error' = [error EXCEPT ![c] = TRUE]
          /\ UNCHANGED resp
    /\ Go(c, "decide")
    /\ UNCHANGED <<active, rowVars, at, retries, told>>

\* _decide_route.
Route(c) ==
    LET again == IF retries[c] < MaxRetries THEN "retry" ELSE "fail"
    IN  CASE error[c] -> again
          [] ~error[c] /\ resp[c].status = "insufficient_evidence" -> again
          [] ~error[c] /\ resp[c].status = "failed" -> "fail"
          [] OTHER -> "done"

Decide(c) ==
    /\ pc[c] = "decide"
    /\ \/ /\ Route(c) = "retry"
          /\ retries' = [retries EXCEPT ![c] = @ + 1]
          /\ Go(c, "execute")
          /\ UNCHANGED resp
       \/ /\ Route(c) = "fail"
          /\ resp' = [resp EXCEPT ![c] = [status |-> "failed", cites |-> FALSE]]
          /\ Go(c, "finish")
          /\ UNCHANGED retries
       \/ /\ Route(c) = "done"
          /\ Go(c, "finish")
          /\ UNCHANGED <<retries, resp>>
    /\ UNCHANGED <<active, rowVars, at, error, told>>

IsReplay(c) == orig[c] # None

(***************************************************************************)
(* snapshot_json_object rejects the output of a query with citations:      *)
(* their evidence ids are UUIDs.  A replay stores no output.               *)
(***************************************************************************)
OutputIsJson(c) == IsReplay(c) \/ ~resp[c].cites

\* Variant: the client is answered first, the row is written later or never.
FinishUnrecorded(c) ==
    /\ pc[c] = "finish"
    /\ OutputIsJson(c)
    /\ Go(c, "ended")
    /\ Tell(c, "answer")
    /\ UNCHANGED <<active, rowVars, flowVars>>

Finish(c) ==
    /\ pc[c] = "finish"
    /\ OutputIsJson(c)
    /\ CompareAndSet(c, "running", "succeeded")
    /\ output' = IF IsReplay(c) THEN output ELSE [output EXCEPT ![c] = resp[c].status]
    /\ Go(c, "ended")
    /\ Tell(c, "answer")
    /\ UNCHANGED <<active, index, owner, orig, flowVars>>

FinishRaises(c) ==
    /\ pc[c] = "finish"
    /\ ~OutputIsJson(c)
    /\ Go(c, "except")
    /\ UNCHANGED <<active, rowVars, flowVars, told>>

\* Variant: the except branch expects the status of a run that never began.
ExceptPending(c) ==
    /\ pc[c] = "except"
    /\ \/ CompareAndSet(c, "pending", "failed")
       \/ status[c] # "pending" /\ UNCHANGED status
    /\ Go(c, "ended")
    /\ Tell(c, "error")
    /\ UNCHANGED <<active, index, output, owner, orig, flowVars>>

\* Either way an error goes to the client.
Except(c) ==
    /\ pc[c] = "except"
    /\ \/ CompareAndSet(c, "running", "failed")
       \/ status[c] # "running" /\ UNCHANGED status
    /\ Go(c, "ended")
    /\ Tell(c, "error")
    /\ UNCHANGED <<active, index, output, owner, orig, flowVars>>

-----------------------------------------------------------------------------
\* PostgreSQL fails, or the answer to a commit that took effect is lost.

CreateFails(c) ==
    /\ c \in Unreliable /\ pc[c] = "create"
    /\ \/ UNCHANGED <<status, index>>
       \/ /\ status' = [status EXCEPT ![c] = "pending"]
          /\ index' = [index EXCEPT ![c] = at[c]]
    /\ Go(c, "ended")
    /\ Tell(c, "error")
    /\ UNCHANGED <<active, output, owner, orig, flowVars>>

BeginFails(c) ==
    /\ c \in Unreliable /\ pc[c] = "begin"
    /\ \/ UNCHANGED status
       \/ CompareAndSet(c, "pending", "running")
    /\ Go(c, "except")
    /\ UNCHANGED <<active, index, output, owner, orig, flowVars, told>>

FinishFails(c) ==
    /\ c \in Unreliable /\ pc[c] = "finish" /\ OutputIsJson(c)
    /\ \/ UNCHANGED <<status, output>>
       \/ /\ CompareAndSet(c, "running", "succeeded")
          /\ output' = IF IsReplay(c) THEN output ELSE [output EXCEPT ![c] = resp[c].status]
    /\ Go(c, "except")
    /\ UNCHANGED <<active, index, owner, orig, flowVars, told>>

\* The except branch fails as well; after its commit nobody could tell.
ExceptFails(c) ==
    /\ c \in Unreliable /\ pc[c] = "except"
    /\ Go(c, "ended")
    /\ Tell(c, "error")
    /\ UNCHANGED <<active, rowVars, flowVars>>

\* The process dies, or the request's task is cancelled: no except branch runs.
Die(c) ==
    /\ c \in Unreliable /\ pc[c] \notin {"idle", "ended"}
    /\ Go(c, "ended")
    /\ UNCHANGED <<active, rowVars, flowVars, told>>

-----------------------------------------------------------------------------
Step(c) ==
    \/ Create(c) \/ Begin(c)
    \/ Resolve(c) \/ Attempt(c) \/ Decide(c)
    \/ Finish(c) \/ FinishRaises(c) \/ Except(c)

Failure(c) ==
    CreateFails(c) \/ BeginFails(c) \/ FinishFails(c) \/ ExceptFails(c) \/ Die(c)

Next ==
    \/ \E v \in Versions : Publish(v)
    \/ \E c \in Calls, u \in Users : Query(c, u)
    \/ \E c, o \in Calls, u \in Users : Replay(c, u, o)
    \/ \E c \in Calls : Step(c)
    \/ \E c \in Calls : Failure(c)

Spec == Init /\ [][Next]_vars

\* A handler whose awaited call has answered is resumed by the event loop.
FairSpec == Spec /\ \A c \in Calls : WF_vars(Step(c))

-----------------------------------------------------------------------------
(***************************************************************************)
(* A client that got an answer can find the run SUCCEEDED, and the run of  *)
(* a query holds the outcome the client was given.                         *)
(***************************************************************************)
AnswerIsRecorded ==
    \A c \in Calls : told[c] = "answer" =>
        /\ status[c] = "succeeded"
        /\ ~IsReplay(c) => output[c] = resp[c].status

(***************************************************************************)
(* The status that replay_execution checked before it created the new run  *)
(* still holds, and the run replayed belongs to the caller.                *)
(***************************************************************************)
ReplayOfFinalRun ==
    \A c \in Calls : IsReplay(c) =>
        status[orig[c]] \in Terminal /\ owner[orig[c]] = owner[c]

(***************************************************************************)
(* The row of a run in a terminal status never changes again, not even     *)
(* when the answer to its last commit was lost and the except branch runs, *)
(* and a replay never touches the run it replays.                          *)
(***************************************************************************)
TerminalIsFrozen ==
    [][\A c \in Calls : status[c] \in Terminal =>
        /\ status'[c] = status[c]
        /\ index'[c] = index[c]
        /\ output'[c] = output[c]]_vars

(***************************************************************************)
(* A run for which the store works reaches a terminal status, whatever its *)
(* workflow's attempts end with and however other runs fail meanwhile.     *)
(***************************************************************************)
EveryRunEnds ==
    \A c \in Calls \ Unreliable :
        (status[c] \in {"pending", "running"}) ~> (status[c] \in Terminal)

(***************************************************************************)
(* plan.md wants factual answers with citations: a call whose workflow     *)
(* answered does not end in an error if the store works for it.            *)
(***************************************************************************)
AnswersAreDelivered ==
    \A c \in Calls \ Unreliable : told[c] = "error" /\ resp[c] # None =>
        resp[c].status # "answered"

-----------------------------------------------------------------------------
\* Where the handler of a run stands and what the row says.
RowFollowsHandler ==
    \A c \in Calls :
        /\ pc[c] \in {"idle", "create"} => status[c] = "none"
        /\ pc[c] = "begin" => status[c] = "pending"
        /\ pc[c] \in {"execute", "search", "decide", "finish"} => status[c] = "running"
        /\ pc[c] # "ended" => told[c] = "nothing"
        /\ pc[c] \in {"decide", "finish"} /\ ~error[c] => resp[c] # None
        /\ pc[c] = "finish" => resp[c] # None
        /\ pc[c] = "search" => at[c] # None
        /\ pc[c] = "idle" => ~IsReplay(c)

IInv == TypeOK /\ RowFollowsHandler /\ AnswerIsRecorded /\ ReplayOfFinalRun
=============================================================================
