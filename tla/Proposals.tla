----------------------------- MODULE Proposals -----------------------------
(***************************************************************************)
(* Improvement proposals of the operator API.  transition_proposal reads   *)
(* the row with a plain SELECT, checks the request against what it read    *)
(* and commits an UPDATE of the changed columns by primary key; concurrent *)
(* calls interleave between the two.                                       *)
(***************************************************************************)
EXTENDS OperatorIdentity, FiniteSets

CONSTANTS
    Ids,         \* proposal ids
    Calls,       \* concurrent transition requests
    EvalRuns     \* rows of evaluation_runs

ASSUME ProposalConstants ==
    /\ Global \subseteq Operators
    /\ None \notin EvalRuns \cup Operators \cup {Tenant[o] : o \in Operators}

PROPOSAL_STATES == {"PROPOSED", "EVALUATED", "APPROVED", "CANARY", "PROMOTED", "ROLLED_BACK"}

\* Variant: a promoted proposal may be rolled back.
TRANSITIONS_UNDO(s) ==
    CASE s = "PROPOSED"  -> {"EVALUATED"}
      [] s = "EVALUATED" -> {"APPROVED"}
      [] s = "APPROVED"  -> {"CANARY"}
      [] s \in {"CANARY", "PROMOTED"} -> {"PROMOTED", "ROLLED_BACK"}
      [] OTHER           -> {}

VALID_TRANSITIONS(s) ==
    CASE s = "PROPOSED"  -> {"EVALUATED"}
      [] s = "EVALUATED" -> {"APPROVED"}
      [] s = "APPROVED"  -> {"CANARY"}
      [] s = "CANARY"    -> {"PROMOTED", "ROLLED_BACK"}
      [] OTHER           -> {}

VARIABLES
    tenant,       \* tenant[p]: None until the proposal is created
    status,       \* the columns of improvement_proposals
    eval_run_id,
    approver,
    deployed,     \* deployment_result is set
    rolled_back,  \* rolled_back_at is set
    evalStatus,   \* evaluation_runs.status
    call,         \* call[c]: what a call read and is about to commit, or None
    approvedRun,  \* history: the evaluation the approver had in front of him
    raced         \* history: proposals on which two calls were in flight at once

rowVars == <<tenant, status, eval_run_id, approver, deployed, rolled_back>>
vars == <<rowVars, evalStatus, call, approvedRun, raced>>

Pending == [id : Ids, op : Operators, target : PROPOSAL_STATES,
            eval : EvalRuns \cup {None}, saw : EvalRuns \cup {None}]

TypeOK ==
    /\ tenant \in [Ids -> {Tenant[o] : o \in Operators} \cup {None}]
    /\ status \in [Ids -> PROPOSAL_STATES]
    /\ eval_run_id \in [Ids -> EvalRuns \cup {None}]
    /\ approver \in [Ids -> Operators \cup {None}]
    /\ deployed \in [Ids -> BOOLEAN]
    /\ rolled_back \in [Ids -> BOOLEAN]
    /\ evalStatus \in [EvalRuns -> {"pending", "completed", "failed"}]
    /\ call \in [Calls -> Pending \cup {None}]
    /\ approvedRun \in [Ids -> EvalRuns \cup {None}]
    /\ raced \subseteq Ids

Init ==
    /\ tenant = [p \in Ids |-> None]
    /\ status = [p \in Ids |-> "PROPOSED"]
    /\ eval_run_id = [p \in Ids |-> None]
    /\ approver = [p \in Ids |-> None]
    /\ deployed = [p \in Ids |-> FALSE]
    /\ rolled_back = [p \in Ids |-> FALSE]
    /\ evalStatus = [e \in EvalRuns |-> "pending"]
    /\ call = [c \in Calls |-> None]
    /\ approvedRun = [p \in Ids |-> None]
    /\ raced = {}

Exists(p) == tenant[p] # None

CreateProposal(p, o) ==
    /\ ~Exists(p)
    /\ tenant' = [tenant EXCEPT ![p] = Tenant[o]]
    /\ UNCHANGED <<status, eval_run_id, approver, deployed, rolled_back,
                   evalStatus, call, approvedRun, raced>>

\* An evaluation ends, in the runner that this API does not start.
FinishEvaluation(e, s) ==
    /\ evalStatus[e] = "pending"
    /\ evalStatus' = [evalStatus EXCEPT ![e] = s]
    /\ UNCHANGED <<rowVars, call, approvedRun, raced>>

MayModify(o, p) == o \in Global \/ tenant[p] = Tenant[o]

\* Variant: the evaluation only has to exist.
GuardAnyRun(target, e) == target = "EVALUATED" => e # None

\* What EVALUATED asks of the request: a run that exists and is completed.
Guard(target, e) ==
    target = "EVALUATED" => e # None /\ evalStatus[e] = "completed"

(***************************************************************************)
(* The SELECTs and the checks of transition_proposal; the other fields a   *)
(* target asks for are in the request.  A request that does not pass them  *)
(* changes nothing.                                                        *)
(***************************************************************************)
Check(c, p, o, target, e) ==
    /\ call[c] = None
    /\ Exists(p)
    /\ MayModify(o, p)
    /\ target \in VALID_TRANSITIONS(status[p])
    /\ Guard(target, e)
    /\ call' = [call EXCEPT ![c] = [id |-> p, op |-> o, target |-> target, eval |-> e,
                                    saw |-> eval_run_id[p]]]
    /\ raced' = IF \E d \in Calls : call[d] # None /\ call[d].id = p
                THEN raced \cup {p} ELSE raced
    /\ UNCHANGED <<rowVars, evalStatus, approvedRun>>

\* The UPDATE sets the columns this target assigns and leaves the others.
Commit(c) ==
    LET r == call[c]
        p == r.id
    IN  /\ r # None
        /\ status' = [status EXCEPT ![p] = r.target]
        /\ eval_run_id' = IF r.target = "EVALUATED"
                          THEN [eval_run_id EXCEPT ![p] = r.eval] ELSE eval_run_id
        /\ approver' = IF r.target = "APPROVED"
                       THEN [approver EXCEPT ![p] = r.op] ELSE approver
        /\ approvedRun' = IF r.target = "APPROVED"
                          THEN [approvedRun EXCEPT ![p] = r.saw] ELSE approvedRun
        /\ deployed' = IF r.target = "PROMOTED"
                       THEN [deployed EXCEPT ![p] = TRUE] ELSE deployed
        /\ rolled_back' = IF r.target = "ROLLED_BACK"
                          THEN [rolled_back EXCEPT ![p] = TRUE] ELSE rolled_back
        /\ call' = [call EXCEPT ![c] = None]
        /\ UNCHANGED <<tenant, evalStatus, raced>>

\* The call fails or its process dies before the commit.
Abort(c) ==
    /\ call[c] # None
    /\ call' = [call EXCEPT ![c] = None]
    /\ UNCHANGED <<rowVars, evalStatus, approvedRun, raced>>

Next ==
    \/ \E p \in Ids, o \in Operators : CreateProposal(p, o)
    \/ \E e \in EvalRuns, s \in {"completed", "failed"} : FinishEvaluation(e, s)
    \/ \E c \in Calls, p \in Ids, o \in Operators, t \in PROPOSAL_STATES,
          e \in EvalRuns \cup {None} : Check(c, p, o, t, e)
    \/ \E c \in Calls : Commit(c)
    \/ \E c \in Calls : Abort(c)

Spec == Init /\ [][Next]_vars

-----------------------------------------------------------------------------
(***************************************************************************)
(* No proposal reaches approval, canary, promotion or rollback without a   *)
(* completed evaluation and an approver, whatever calls race and whatever  *)
(* a stale call writes back.                                               *)
(***************************************************************************)
NoBypass ==
    \A p \in Ids :
        /\ status[p] # "PROPOSED" =>
              eval_run_id[p] # None /\ evalStatus[eval_run_id[p]] = "completed"
        /\ status[p] \in {"APPROVED", "CANARY", "PROMOTED", "ROLLED_BACK"} =>
              approver[p] # None

\* What the provers need besides: a call in flight knows of its predecessor.
CallsAreGrounded ==
    \A c \in Calls : call[c] # None =>
        LET p == call[c].id IN
        /\ call[c].target # "PROPOSED"
        /\ call[c].target = "EVALUATED" =>
              call[c].eval # None /\ evalStatus[call[c].eval] = "completed"
        /\ call[c].target # "EVALUATED" =>
              eval_run_id[p] # None /\ evalStatus[eval_run_id[p]] = "completed"
        /\ call[c].target \notin {"EVALUATED", "APPROVED"} => approver[p] # None

IInv == TypeOK /\ NoBypass /\ CallsAreGrounded

(***************************************************************************)
(* The transition table is enough as long as the calls on a proposal do    *)
(* not overlap: the proposal has at most one outcome, and what is in       *)
(* canary or beyond is the evaluation its approver had seen, whatever      *)
(* happens to other proposals and however calls fail.                      *)
(***************************************************************************)
SoundWithoutRaces ==
    \A p \in Ids \ raced :
        /\ ~(deployed[p] /\ rolled_back[p])
        /\ status[p] \in {"CANARY", "PROMOTED", "ROLLED_BACK"} =>
              approvedRun[p] = eval_run_id[p]

\* What the provers need for it: the only call in flight read what is still there.
FreshWithoutRaces ==
    \A p \in Ids \ raced :
        /\ \A c, d \in Calls :
              (call[c] # None /\ call[d] # None /\ call[c].id = p /\ call[d].id = p) => c = d
        /\ \A c \in Calls : (call[c] # None /\ call[c].id = p) =>
              call[c].target \in VALID_TRANSITIONS(status[p]) /\ call[c].saw = eval_run_id[p]
        /\ deployed[p] => status[p] = "PROMOTED"
        /\ rolled_back[p] => status[p] = "ROLLED_BACK"
        /\ status[p] \in {"APPROVED", "CANARY", "PROMOTED", "ROLLED_BACK"} =>
              approvedRun[p] = eval_run_id[p]
=============================================================================
