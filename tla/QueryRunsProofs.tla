-------------------------- MODULE QueryRunsProofs --------------------------
(***************************************************************************)
(* Proofs about QueryRuns for any calls, users, index versions and retry   *)
(* budget, with failures of the store and deaths of the process.           *)
(***************************************************************************)
EXTENDS QueryRuns, TLAPS

LEMMA InitIInv == Init => IInv
  BY QueryConstants
  DEF Init, IInv, TypeOK, RowFollowsHandler, AnswerIsRecorded, ReplayOfFinalRun,
      IsReplay, Terminal

LEMMA PublishStep ==
  ASSUME IInv, NEW v \in Versions, Publish(v)
  PROVE  IInv'
  BY DEF Publish, rowVars, flowVars, IInv, TypeOK, RowFollowsHandler, AnswerIsRecorded,
         ReplayOfFinalRun, IsReplay

LEMMA QueryStep ==
  ASSUME IInv, NEW c \in Calls, NEW u \in Users, Query(c, u)
  PROVE  IInv'
<1> USE DEF IInv, Query, Go, Tell
<1>1. /\ pc[c] = "idle" /\ pc'[c] \in {"create", "ended"}
      /\ told'[c] \in {told[c], "error"} /\ (pc'[c] # "ended" => told'[c] = told[c])
      /\ \A d \in Calls \ {c} : pc'[d] = pc[d] /\ told'[d] = told[d] /\ owner'[d] = owner[d]
      /\ UNCHANGED <<active, status, index, output, orig, retries, error, resp>>
  BY DEF TypeOK
<1>2. TypeOK'
  BY <1>1 DEF TypeOK
<1>3. RowFollowsHandler'
  BY <1>1 DEF RowFollowsHandler, IsReplay
<1>4. AnswerIsRecorded'
  BY <1>1 DEF AnswerIsRecorded, IsReplay, RowFollowsHandler
<1>5. ReplayOfFinalRun'
  <2> SUFFICES ASSUME NEW d \in Calls, IsReplay(d)'
               PROVE  status'[orig'[d]] \in Terminal /\ owner'[orig'[d]] = owner'[d]
    BY DEF ReplayOfFinalRun
  <2>1. IsReplay(d) /\ d # c /\ orig[d] \in Calls
    BY <1>1 DEF RowFollowsHandler, IsReplay, TypeOK
  <2>2. status[orig[d]] \in Terminal /\ owner[orig[d]] = owner[d]
    BY <2>1 DEF ReplayOfFinalRun
  <2>3. orig[d] # c
    BY <1>1, <2>2 DEF RowFollowsHandler, Terminal
  <2> QED
    BY <1>1, <2>1, <2>2, <2>3
<1> QED
  BY <1>2, <1>3, <1>4, <1>5

LEMMA ReplayStep ==
  ASSUME IInv, NEW c \in Calls, NEW o \in Calls, NEW u \in Users, Replay(c, u, o)
  PROVE  IInv'
<1> USE DEF IInv, Replay, Go, CanReplay, flowVars
<1>1. /\ pc[c] = "idle" /\ pc'[c] = "create"
      /\ owner'[c] = u /\ orig'[c] = o
      /\ status[o] \in Terminal /\ owner[o] = u
      /\ \A d \in Calls \ {c} : pc'[d] = pc[d] /\ orig'[d] = orig[d] /\ owner'[d] = owner[d]
      /\ UNCHANGED <<active, status, index, output, at, retries, error, resp, told>>
  BY DEF TypeOK
<1>2. o # c
  BY <1>1 DEF RowFollowsHandler, Terminal
<1>3. TypeOK'
  BY <1>1 DEF TypeOK
<1>4. RowFollowsHandler'
  BY <1>1 DEF RowFollowsHandler, IsReplay
<1>5. AnswerIsRecorded'
  BY <1>1 DEF AnswerIsRecorded, IsReplay, RowFollowsHandler
<1>6. ReplayOfFinalRun'
  <2> SUFFICES ASSUME NEW d \in Calls, IsReplay(d)'
               PROVE  status'[orig'[d]] \in Terminal /\ owner'[orig'[d]] = owner'[d]
    BY DEF ReplayOfFinalRun
  <2>1. CASE d = c
    BY <1>1, <1>2, <2>1
  <2>2. CASE d # c
    <3>1. IsReplay(d) /\ orig[d] \in Calls
      BY <1>1, <2>2 DEF IsReplay, TypeOK
    <3>2. status[orig[d]] \in Terminal /\ owner[orig[d]] = owner[d]
      BY <3>1 DEF ReplayOfFinalRun
    <3>3. orig[d] # c
      BY <1>1, <3>2 DEF RowFollowsHandler, Terminal
    <3> QED
      BY <1>1, <2>2, <3>1, <3>2, <3>3
  <2> QED
    BY <2>1, <2>2
<1> QED
  BY <1>3, <1>4, <1>5, <1>6

(***************************************************************************)
(* What every later step of a handler has in common: it is the handler of  *)
(* one run, and never moves a row out of a terminal status.                *)
(***************************************************************************)
OwnStep(c) ==
    /\ pc[c] # "idle"
    /\ status'[c] \in {"none", "pending", "running"} \cup Terminal
    /\ index'[c] \in Versions \cup {None}
    /\ output'[c] \in ResponseStatuses \cup {None}
    /\ pc'[c] \in {"begin", "execute", "search", "decide", "finish", "except", "ended"}
    /\ told'[c] \in {"nothing", "answer", "error"}
    /\ status[c] \in Terminal =>
          status'[c] = status[c] /\ index'[c] = index[c] /\ output'[c] = output[c]
    /\ status' = [status EXCEPT ![c] = status'[c]]
    /\ index' = [index EXCEPT ![c] = index'[c]]
    /\ output' = [output EXCEPT ![c] = output'[c]]
    /\ pc' = [pc EXCEPT ![c] = pc'[c]]
    /\ told' = [told EXCEPT ![c] = told'[c]]
    /\ UNCHANGED <<active, owner, orig>>

LEMMA StepIsOwn ==
  ASSUME IInv, NEW c \in Calls, Step(c) \/ Failure(c)
  PROVE  OwnStep(c)
<1> USE DEF IInv, OwnStep, Go, Tell, rowVars, flowVars, CompareAndSet, Terminal, TypeOK
<1>1. ASSUME Create(c) \/ CreateFails(c) PROVE OwnStep(c)
  BY <1>1 DEF Create, CreateFails, RowFollowsHandler
<1>2. ASSUME Begin(c) \/ BeginFails(c) PROVE OwnStep(c)
  BY <1>2 DEF Begin, BeginFails
<1>3. ASSUME Resolve(c) \/ Attempt(c) PROVE OwnStep(c)
  BY <1>3 DEF Resolve, Attempt
<1>4. ASSUME Decide(c) PROVE OwnStep(c)
  BY <1>4 DEF Decide
<1>5. ASSUME Finish(c) \/ FinishFails(c) PROVE OwnStep(c)
  <2>1. resp[c] \in Responses /\ resp[c].status \in ResponseStatuses
    BY <1>5 DEF Finish, FinishFails, RowFollowsHandler, Responses
  <2>2. CASE Finish(c)
    BY <2>1, <2>2 DEF Finish
  <2>3. CASE FinishFails(c)
    BY <2>1, <2>3 DEF FinishFails
  <2> QED
    BY <1>5, <2>2, <2>3
<1>6. ASSUME FinishRaises(c) PROVE OwnStep(c)
  BY <1>6 DEF FinishRaises
<1>7. ASSUME Except(c) PROVE OwnStep(c)
  BY <1>7 DEF Except
<1>8. ASSUME ExceptFails(c) \/ Die(c) PROVE OwnStep(c)
  BY <1>8 DEF ExceptFails, Die
<1> QED
  BY <1>1, <1>2, <1>3, <1>4, <1>5, <1>6, <1>7, <1>8 DEF Step, Failure

\* The workflow state a step of c may leave behind.
FlowStep(c) ==
    /\ at' \in [Calls -> Versions \cup {None}]
    /\ retries' \in [Calls -> 0..MaxRetries]
    /\ error' \in [Calls -> BOOLEAN]
    /\ resp' \in [Calls -> Responses \cup {None}]
    /\ \A d \in Calls \ {c} : error'[d] = error[d] /\ resp'[d] = resp[d] /\ at'[d] = at[d]
    /\ pc'[c] \in {"decide", "finish"} /\ ~error'[c] => resp'[c] # None
    /\ pc'[c] = "finish" => resp'[c] # None
    /\ pc'[c] = "search" => at'[c] # None

LEMMA StepFlow ==
  ASSUME IInv, NEW c \in Calls, Step(c) \/ Failure(c)
  PROVE  FlowStep(c)
<1> USE DEF IInv, FlowStep, Go, rowVars, flowVars
<1>1. ASSUME UNCHANGED flowVars,
             pc'[c] \in {"begin", "execute", "except", "ended"}
      PROVE  FlowStep(c)
  BY <1>1 DEF TypeOK
<1>2. ASSUME Create(c) \/ Begin(c) \/ Finish(c) \/ FinishRaises(c) \/ Except(c) \/ Failure(c)
      PROVE  UNCHANGED flowVars /\ pc'[c] \in {"begin", "execute", "except", "ended"}
  BY <1>2 DEF Create, Begin, Finish, FinishRaises, Except, Failure, CreateFails, BeginFails,
              FinishFails, ExceptFails, Die, TypeOK
<1>3. ASSUME Resolve(c) PROVE FlowStep(c)
  BY <1>3 DEF Resolve, TypeOK
<1>4. ASSUME Attempt(c) PROVE FlowStep(c)
  <2>1. AttemptResponses \subseteq Responses /\ None \notin AttemptResponses
    BY QueryConstants DEF AttemptResponses, Responses, ResponseStatuses
  <2>2. UNCHANGED <<at, retries>> /\ pc'[c] = "decide"
    BY <1>4 DEF Attempt, TypeOK
  <2>3. \/ \E r \in AttemptResponses : resp' = [resp EXCEPT ![c] = r]
                                       /\ error' = [error EXCEPT ![c] = FALSE]
        \/ error' = [error EXCEPT ![c] = TRUE] /\ UNCHANGED resp
    BY <1>4 DEF Attempt
  <2>4. error' \in [Calls -> BOOLEAN] /\ \A d \in Calls \ {c} : error'[d] = error[d]
    BY <2>3 DEF TypeOK
  <2>5. resp' \in [Calls -> Responses \cup {None}] /\ \A d \in Calls \ {c} : resp'[d] = resp[d]
    BY <2>1, <2>3 DEF TypeOK
  <2>6. error'[c] \/ resp'[c] # None
    BY <2>1, <2>3 DEF TypeOK
  <2> QED
    BY <2>2, <2>4, <2>5, <2>6 DEF TypeOK
<1>5. ASSUME Decide(c) PROVE FlowStep(c)
  <2>1. CASE Route(c) = "retry"
    <3>1. retries[c] < MaxRetries
      BY <2>1 DEF Route
    <3>2. UNCHANGED <<at, error, resp>> /\ pc'[c] = "execute"
          /\ retries' = [retries EXCEPT ![c] = @ + 1]
      BY <1>5, <2>1 DEF Decide, TypeOK
    <3> QED
      BY <3>1, <3>2, QueryConstants DEF TypeOK
  <2>2. CASE Route(c) = "fail"
    <3>1. [status |-> "failed", cites |-> FALSE] \in Responses /\ None \notin Responses
      BY QueryConstants DEF Responses, ResponseStatuses
    <3>2. UNCHANGED <<at, error, retries>> /\ pc'[c] = "finish"
          /\ resp' = [resp EXCEPT ![c] = [status |-> "failed", cites |-> FALSE]]
      BY <1>5, <2>2 DEF Decide, TypeOK
    <3> QED
      BY <3>1, <3>2 DEF TypeOK
  <2>3. CASE Route(c) = "done"
    <3>1. ~error[c]
      BY <2>3 DEF Route
    <3>2. UNCHANGED <<at, error, retries, resp>> /\ pc'[c] = "finish" /\ pc[c] = "decide"
      BY <1>5, <2>3 DEF Decide, TypeOK
    <3> QED
      BY <3>1, <3>2 DEF TypeOK, RowFollowsHandler
  <2> QED
    BY <1>5, <2>1, <2>2, <2>3 DEF Decide
<1> QED
  BY <1>1, <1>2, <1>3, <1>4, <1>5 DEF Step

\* Handler and row move together.
LEMMA StepRow ==
  ASSUME IInv, NEW c \in Calls, Step(c) \/ Failure(c)
  PROVE  /\ pc'[c] = "begin" => status'[c] = "pending"
         /\ pc'[c] \in {"execute", "search", "decide", "finish"} => status'[c] = "running"
         /\ pc'[c] # "ended" => told'[c] = "nothing"
         /\ told'[c] = "answer" =>
              /\ status'[c] = "succeeded"
              /\ ~IsReplay(c) => output'[c] = resp'[c].status
<1> USE DEF IInv, Go, Tell, rowVars, flowVars, CompareAndSet, TypeOK, RowFollowsHandler
<1>1. CASE Create(c) \/ CreateFails(c)
  BY <1>1 DEF Create, CreateFails
<1>2. CASE Begin(c) \/ BeginFails(c)
  BY <1>2 DEF Begin, BeginFails
<1>3. CASE Resolve(c) \/ Attempt(c)
  BY <1>3 DEF Resolve, Attempt
<1>4. CASE Decide(c)
  BY <1>4 DEF Decide
<1>5. CASE Finish(c) \/ FinishFails(c)
  BY <1>5 DEF Finish, FinishFails
<1>6. CASE FinishRaises(c) \/ Except(c) \/ ExceptFails(c) \/ Die(c)
  BY <1>6 DEF FinishRaises, Except, ExceptFails, Die
<1> QED
  BY <1>1, <1>2, <1>3, <1>4, <1>5, <1>6 DEF Step, Failure

LEMMA HandlerStep ==
  ASSUME IInv, NEW c \in Calls, Step(c) \/ Failure(c)
  PROVE  IInv'
<1>1. OwnStep(c) /\ FlowStep(c)
  BY StepIsOwn, StepFlow
<1>2. \A d \in Calls \ {c} : /\ status'[d] = status[d] /\ output'[d] = output[d]
                             /\ pc'[d] = pc[d] /\ told'[d] = told[d]
                             /\ error'[d] = error[d] /\ resp'[d] = resp[d]
                             /\ at'[d] = at[d]
  BY <1>1 DEF OwnStep, FlowStep, IInv, TypeOK
<1>3. TypeOK'
  BY <1>1 DEF OwnStep, FlowStep, IInv, TypeOK
<1>4. UNCHANGED <<owner, orig>> /\ pc'[c] # "idle" /\ pc'[c] # "create"
  BY <1>1 DEF OwnStep
<1>5. RowFollowsHandler'
  <2> SUFFICES ASSUME NEW d \in Calls
               PROVE  /\ pc'[d] \in {"idle", "create"} => status'[d] = "none"
                      /\ pc'[d] = "begin" => status'[d] = "pending"
                      /\ pc'[d] \in {"execute", "search", "decide", "finish"} =>
                            status'[d] = "running"
                      /\ pc'[d] # "ended" => told'[d] = "nothing"
                      /\ pc'[d] \in {"decide", "finish"} /\ ~error'[d] => resp'[d] # None
                      /\ pc'[d] = "finish" => resp'[d] # None
                      /\ pc'[d] = "search" => at'[d] # None
                      /\ pc'[d] = "idle" => ~IsReplay(d)'
    BY DEF RowFollowsHandler
  <2>1. CASE d = c
    BY <1>1, <1>4, <2>1, StepRow DEF FlowStep
  <2>2. CASE d # c
    BY <1>2, <1>4, <2>2 DEF IInv, RowFollowsHandler, IsReplay
  <2> QED
    BY <2>1, <2>2
<1>6. AnswerIsRecorded'
  <2> SUFFICES ASSUME NEW d \in Calls, told'[d] = "answer"
               PROVE  status'[d] = "succeeded"
                      /\ (~IsReplay(d)' => output'[d] = resp'[d].status)
    BY DEF AnswerIsRecorded
  <2>1. CASE d = c
    BY <1>4, <2>1, StepRow DEF IsReplay
  <2>2. CASE d # c
    BY <1>2, <1>4, <2>2 DEF IInv, AnswerIsRecorded, IsReplay
  <2> QED
    BY <2>1, <2>2
<1>7. \A d \in Calls : status[d] \in Terminal => status'[d] = status[d]
  BY <1>1, <1>2 DEF OwnStep
<1>8. ReplayOfFinalRun'
  BY <1>4, <1>7 DEF IInv, TypeOK, ReplayOfFinalRun, IsReplay
<1> QED
  BY <1>3, <1>5, <1>6, <1>8 DEF IInv

(***************************************************************************)
(* IInv is an invariant of the two handlers.                               *)
(***************************************************************************)
THEOREM QueryInvariant == Spec => []IInv
<1>1. IInv /\ UNCHANGED vars => IInv'
  BY DEF vars, rowVars, flowVars, IInv, TypeOK, RowFollowsHandler, AnswerIsRecorded,
         ReplayOfFinalRun, IsReplay
<1>2. IInv /\ [Next]_vars => IInv'
  BY <1>1, PublishStep, QueryStep, ReplayStep, HandlerStep DEF Next
<1> QED
  BY InitIInv, <1>2, PTL DEF Spec

(***************************************************************************)
(* A client that got an answer finds it in a SUCCEEDED run.                *)
(***************************************************************************)
THEOREM AnswersAreRecorded == Spec => []AnswerIsRecorded
  BY QueryInvariant, PTL DEF IInv

(***************************************************************************)
(* A replay is of a run of the same caller that will not change any more.  *)
(***************************************************************************)
THEOREM ReplaysAreOfFinalRuns == Spec => []ReplayOfFinalRun
  BY QueryInvariant, PTL DEF IInv

(***************************************************************************)
(* Terminal rows are frozen, failures of the store included.               *)
(***************************************************************************)
THEOREM TerminalRowsAreFrozen == Spec => TerminalIsFrozen
<1> DEFINE Frozen == \A c \in Calls : status[c] \in Terminal =>
                        /\ status'[c] = status[c]
                        /\ index'[c] = index[c]
                        /\ output'[c] = output[c]
<1>1. IInv /\ [Next]_vars => [Frozen]_vars
  <2> SUFFICES ASSUME IInv, Next PROVE Frozen
    OBVIOUS
  <2>1. ASSUME NEW c \in Calls, Step(c) \/ Failure(c) PROVE Frozen
    <3>1. OwnStep(c)
      BY <2>1, StepIsOwn
    <3> QED
      BY <3>1 DEF OwnStep, IInv, TypeOK
  <2>2. ASSUME \/ \E v \in Versions : Publish(v)
               \/ \E c \in Calls, u \in Users : Query(c, u)
               \/ \E c, o \in Calls, u \in Users : Replay(c, u, o)
        PROVE  Frozen
    BY <2>2 DEF Publish, Query, Replay, rowVars
  <2> QED
    BY <2>1, <2>2 DEF Next
<1> QED
  BY <1>1, QueryInvariant, PTL DEF Spec, TerminalIsFrozen
=============================================================================
