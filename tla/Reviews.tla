------------------------------ MODULE Reviews ------------------------------
(***************************************************************************)
(* Review items, user feedback and the execution list of the operator API. *)
(* submit_review_decision and submit_feedback check the tenant of a run    *)
(* they read and then write; concurrent calls, and the deletion of runs by *)
(* whoever maintains the database, come in between.  A decision is written *)
(* by primary key, whether or not the item is decided already, and what    *)
(* is answered is read once more after the commit.                         *)
(*                                                                         *)
(* decided_at is named by the call that took the time.                     *)
(***************************************************************************)
EXTENDS OperatorIdentity, Naturals, FiniteSets

CONSTANTS
    Runs,          \* execution_runs, in the order of started_at: numbers
    RunTenant,     \* RunTenant[r]: the tenant of run r
    Items,         \* review ids
    Decisions,     \* "approved" and "rejected"
    ReviewCalls    \* calls of the two endpoints

ASSUME ReviewConstants ==
    /\ Runs \subseteq Nat /\ None \notin Items \cup ReviewCalls \cup Operators
    /\ \A r \in Runs : RunTenant[r] # None
    /\ \A o \in Operators : Tenant[o] # None

VARIABLES
    runs,          \* the rows of execution_runs
    items,         \* the rows of human_review_items
    itemRun,       \* run_id, None if NULL
    decision, decided_by, decided_at,
    feedback,      \* the rows of user_feedback: [run, by], by being history
    reviewCall,    \* reviewCall[c]: the request and how far it is
    answered,      \* answered[c]: [status, at] of the response
    origin,        \* history: the tenant of the run an item was made for
    contended      \* history: items with two calls in flight at once

itemVars == <<items, itemRun, decision, decided_by, decided_at, origin>>
reviewVars == <<runs, itemVars, feedback, reviewCall, answered, contended>>

Idle == [kind |-> "none", op |-> None, on |-> None, decision |-> None, at |-> "idle"]
Response(status, at) == [status |-> status, at |-> at]

ReviewInit ==
    /\ runs = Runs
    /\ items = {} /\ itemRun = [i \in Items |-> None]
    /\ decision = [i \in Items |-> None]
    /\ decided_by = [i \in Items |-> None] /\ decided_at = [i \in Items |-> None]
    /\ origin = [i \in Items |-> None]
    /\ feedback = {}
    /\ reviewCall = [c \in ReviewCalls |-> Idle]
    /\ answered = [c \in ReviewCalls |-> Response(0, None)]
    /\ contended = {}

-----------------------------------------------------------------------------
\* An item is made for a run, or for none.
MakeItem(i, r) ==
    /\ i \notin items /\ r \in runs \cup {None}
    /\ items' = items \cup {i}
    /\ itemRun' = [itemRun EXCEPT ![i] = r]
    /\ origin' = [origin EXCEPT ![i] = IF r = None THEN None ELSE RunTenant[r]]
    /\ UNCHANGED <<runs, decision, decided_by, decided_at, feedback, reviewCall, answered,
                   contended>>

\* A run is deleted: its feedback goes with it, its items stay without a run.
DeleteRun(r) ==
    /\ r \in runs
    /\ runs' = runs \ {r}
    /\ itemRun' = [i \in Items |-> IF itemRun[i] = r THEN None ELSE itemRun[i]]
    /\ feedback' = {f \in feedback : f.run # r}
    /\ UNCHANGED <<items, decision, decided_by, decided_at, origin, reviewCall, answered,
                   contended>>

-----------------------------------------------------------------------------
\* The tenant of an item: the outer join with its run.
ItemTenant(i) == IF itemRun[i] = None THEN None ELSE RunTenant[itemRun[i]]

\* Variant: an item without a run is open to everybody.
MayDecideAny(o, i) == ItemTenant(i) = None \/ MayAccess(o, ItemTenant(i))

MayDecide(o, i) == MayAccess(o, ItemTenant(i))

Reply(c, status, at) ==
    /\ answered' = [answered EXCEPT ![c] = Response(status, at)]
    /\ reviewCall' = [reviewCall EXCEPT ![c].at = "answered"]

Ask(c, kind, o, on, d) ==
    reviewCall' = [reviewCall EXCEPT ![c] =
                      [kind |-> kind, op |-> o, on |-> on, decision |-> d, at |-> "checked"]]

Refuse(c, kind, o, on, d, status) ==
    /\ reviewCall' = [reviewCall EXCEPT ![c] =
                         [kind |-> kind, op |-> o, on |-> on, decision |-> d, at |-> "answered"]]
    /\ answered' = [answered EXCEPT ![c] = Response(status, None)]

Deciding(i) == {c \in ReviewCalls : /\ reviewCall[c].kind = "decision" /\ reviewCall[c].on = i
                                    /\ reviewCall[c].at \in {"checked", "committed"}}

\* submit_review_decision: the SELECT and the checks, ...
CheckDecision(c, o, i, d) ==
    /\ reviewCall[c].at = "idle"
    /\ \/ i \notin items /\ Refuse(c, "decision", o, i, d, 404) /\ UNCHANGED contended
       \/ i \in items /\ ~MayDecide(o, i) /\ Refuse(c, "decision", o, i, d, 403) /\ UNCHANGED contended
       \/ /\ i \in items /\ MayDecide(o, i) /\ Ask(c, "decision", o, i, d)
          /\ contended' = IF Deciding(i) = {} THEN contended ELSE contended \cup {i}
          /\ UNCHANGED answered
    /\ UNCHANGED <<runs, itemVars, feedback>>

\* ... the UPDATE and the commit, ...
CommitDecision(c) ==
    /\ reviewCall[c].kind = "decision" /\ reviewCall[c].at = "checked"
    /\ LET q == reviewCall[c]
       IN  /\ decision' = [decision EXCEPT ![q.on] = q.decision]
           /\ decided_by' = [decided_by EXCEPT ![q.on] = q.op]
           /\ decided_at' = [decided_at EXCEPT ![q.on] = c]
    /\ reviewCall' = [reviewCall EXCEPT ![c].at = "committed"]
    /\ UNCHANGED <<runs, items, itemRun, origin, feedback, answered, contended>>

\* Variant: the second SELECT has lost its WHERE clause.
AnswerAny(c) ==
    /\ reviewCall[c].at = "committed"
    /\ \E i \in items : decided_at[i] # None /\ Reply(c, 200, decided_at[i])
    /\ UNCHANGED <<runs, itemVars, feedback, contended>>

\* ... and the second SELECT, whose decided_at is answered.
AnswerDecision(c) ==
    /\ reviewCall[c].at = "committed"
    /\ LET at == decided_at[reviewCall[c].on]
       IN  Reply(c, IF at = None THEN 404 ELSE 200, at)
    /\ UNCHANGED <<runs, itemVars, feedback, contended>>

\* submit_feedback: the SELECT and the checks, ...
CheckFeedback(c, o, r) ==
    /\ reviewCall[c].at = "idle"
    /\ \/ r \notin runs /\ Refuse(c, "feedback", o, r, None, 404)
       \/ r \in runs /\ ~MayAccess(o, RunTenant[r]) /\ Refuse(c, "feedback", o, r, None, 403)
       \/ r \in runs /\ MayAccess(o, RunTenant[r]) /\ Ask(c, "feedback", o, r, None)
          /\ UNCHANGED answered
    /\ UNCHANGED <<runs, itemVars, feedback, contended>>

\* ... and the INSERT, which the foreign key refuses once the run is gone.
CommitFeedback(c) ==
    LET q == reviewCall[c]
    IN  /\ q.kind = "feedback" /\ q.at = "checked"
        /\ IF q.on \in runs
           THEN feedback' = feedback \cup {[run |-> q.on, by |-> q.op]} /\ Reply(c, 200, c)
           ELSE Reply(c, 500, None) /\ UNCHANGED feedback
        /\ UNCHANGED <<runs, itemVars, contended>>

\* A statement raises. What is committed stays, and 500 is answered all the same.
FailCall(c) ==
    /\ reviewCall[c].at \in {"checked", "committed"}
    /\ Reply(c, 500, None)
    /\ UNCHANGED <<runs, itemVars, feedback, contended>>

-----------------------------------------------------------------------------
\* The reads: each is one SELECT, so what it shows is a function of the rows.

\* get_review_queue without its limit: the tenant is part of the query.
ReviewQueue(o) ==
    {i \in items : decision[i] = None /\ (o \in Global \/ ItemTenant(i) = Tenant[o])}

\* list_recent_executions: list_recent_runs(limit) first, then the tenant.
RecentExecutions(o, limit) ==
    LET recent == {r \in runs : Cardinality({q \in runs : q > r}) < limit}
    IN  {r \in recent : MayAccess(o, RunTenant[r])}

\* get_execution_summary of run r: shown, or 404 or 403.
ExecutionSummary(o, r) == r \in runs /\ MayAccess(o, RunTenant[r])

ReviewNext ==
    \/ \E i \in Items, r \in Runs \cup {None} : MakeItem(i, r)
    \/ \E r \in Runs : DeleteRun(r)
    \/ \E c \in ReviewCalls, o \in Operators, i \in Items, d \in Decisions :
          CheckDecision(c, o, i, d)
    \/ \E c \in ReviewCalls, o \in Operators, r \in Runs : CheckFeedback(c, o, r)
    \/ \E c \in ReviewCalls : CommitDecision(c) \/ AnswerDecision(c) \/ CommitFeedback(c) \/ FailCall(c)

ReviewSpec == ReviewInit /\ [][ReviewNext]_reviewVars

-----------------------------------------------------------------------------
(***************************************************************************)
(* An operator who is not global decides, comments and sees what belongs   *)
(* to a run of his own tenant, also when the run is deleted between a      *)
(* check and the write; what never had a run is left to global operators.  *)
(***************************************************************************)
TenantIsolation ==
    /\ \A i \in items : decision[i] # None => MayAccess(decided_by[i], origin[i])
    /\ \A f \in feedback : MayAccess(f.by, RunTenant[f.run])
    /\ \A o \in Operators : \A i \in ReviewQueue(o) : MayAccess(o, origin[i])
    /\ \A o \in Operators, r \in Runs :
          (ExecutionSummary(o, r) \/ \E limit \in 1..Cardinality(Runs) : r \in RecentExecutions(o, limit))
              => MayAccess(o, RunTenant[r])

(***************************************************************************)
(* A decision call that is answered 200 is answered with the time of its   *)
(* own decision if no other call on the item overlapped it, whatever       *)
(* happens to other items and to runs.                                     *)
(***************************************************************************)
AnswerIsOwn ==
    \A c \in ReviewCalls :
        LET q == reviewCall[c] IN
        (q.kind = "decision" /\ answered[c].status = 200 /\ q.on \notin contended)
            => answered[c].at = c

-----------------------------------------------------------------------------
\* Why a check is still good when its call writes: an item keeps the tenant it was made
\* with, and an item that never was contended has one call in flight.

ReviewTypeOK ==
    /\ runs \subseteq Runs /\ items \subseteq Items
    /\ itemRun \in [Items -> runs \cup {None}]
    /\ decision \in [Items -> Decisions \cup {None}]
    /\ decided_by \in [Items -> Operators \cup {None}]
    /\ decided_at \in [Items -> ReviewCalls \cup {None}]
    /\ DOMAIN origin = Items
    /\ feedback \subseteq [run : Runs, by : Operators]
    /\ reviewCall \in [ReviewCalls ->
          [kind : {"none", "decision", "feedback"}, op : Operators \cup {None},
           on : Items \cup Runs \cup {None}, decision : Decisions \cup {None},
           at : {"idle", "checked", "committed", "answered"}]]
    /\ answered \in [ReviewCalls ->
          [status : {0, 200, 403, 404, 500}, at : ReviewCalls \cup {None}]]
    /\ contended \subseteq Items

RowsAreIsolated ==
    /\ \A i \in Items : itemRun[i] # None => origin[i] = RunTenant[itemRun[i]]
    /\ \A i \in Items \ items : decision[i] = None
    /\ \A i \in items : decision[i] # None => MayAccess(decided_by[i], origin[i])
    /\ \A f \in feedback : MayAccess(f.by, RunTenant[f.run])

ChecksStayGood ==
    \A c \in ReviewCalls :
        LET q == reviewCall[c] IN
        q.at \in {"checked", "committed"} =>
            \/ /\ q.kind = "decision" /\ q.on \in items /\ q.op \in Operators
               /\ MayAccess(q.op, origin[q.on])
            \/ /\ q.kind = "feedback" /\ q.on \in Runs /\ q.op \in Operators
               /\ q.at = "checked" /\ MayAccess(q.op, RunTenant[q.on])

OneAtATime ==
    /\ \A i \in Items \ contended : \A c, d \in Deciding(i) : c = d
    /\ \A c \in ReviewCalls :
          LET q == reviewCall[c] IN
          (q.kind = "decision" /\ q.at = "committed" /\ q.on \notin contended) => decided_at[q.on] = c
    /\ \A c \in ReviewCalls : reviewCall[c].at # "answered" => answered[c].status = 0

ReviewIInv ==
    ReviewTypeOK /\ RowsAreIsolated /\ ChecksStayGood /\ OneAtATime /\ AnswerIsOwn
=============================================================================
