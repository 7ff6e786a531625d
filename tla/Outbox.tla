------------------------------- MODULE Outbox -------------------------------
(***************************************************************************)
(* The transactional outbox table and PostgresOutboxRepository: one row    *)
(* per event, claimed in batches under a lease and a claim token, then     *)
(* completed or put back with an exponential delay.                        *)
(*                                                                         *)
(* Each operation is one PostgreSQL transaction and is one step here.  The *)
(* guarded UPDATE re-evaluates its WHERE clause under the row lock, so the *)
(* SELECT that precedes it in mark_completed and mark_failed can only turn *)
(* a refusal into a refusal.                                               *)
(*                                                                         *)
(* Time is kept as what is left of each deadline: lease[e] is the time     *)
(* until lease_expires_at and delay[e] the time until available_at, 0      *)
(* meaning "<= now".  Columns no code reads back (claimed_by, claimed_at,  *)
(* completed_at, last_error) are left out.                                 *)
(***************************************************************************)
EXTENDS Integers, FiniteSets

CONSTANTS
    Events,            \* ids of the rows
    CreatedAt,         \* CreatedAt[e]: the created_at column; rows written by
                       \* one transaction share the transaction's time
    Tokens,            \* claim tokens (uuid4)
    None,              \* SQL NULL
    BatchSize,         \* LIMIT of claim_batch (100 in the worker)
    LeaseDuration,     \* lease_duration_seconds (30)
    MaxBackoff,        \* cap of the retry delay (3600)
    OverflowExponent,  \* 2.0 ** n raises OverflowError from here on (1024)
    AttemptCap         \* bound: attempts is kept at this value once reached

ASSUME OutboxConstants ==
    /\ CreatedAt \in [Events -> Nat]
    /\ None \notin Tokens
    /\ BatchSize \in Nat \ {0}
    /\ LeaseDuration \in Nat \ {0}
    /\ MaxBackoff \in Nat \ {0}
    /\ OverflowExponent \in Nat
    /\ AttemptCap \in Nat \ {0}

\* The cap on attempts hides nothing: from there on the delay is MaxBackoff.
ASSUME AttemptCapIsEnough == 2 ^ (AttemptCap + 1) >= MaxBackoff

VARIABLES status,        \* "absent" until the writing transaction commits
          claim_token,
          lease,
          delay,
          attempts

rowVars == <<status, claim_token, lease, delay, attempts>>

Statuses == {"absent", "pending", "claimed", "completed"}

RowsTypeOK ==
    /\ status \in [Events -> Statuses]
    /\ claim_token \in [Events -> Tokens \cup {None}]
    /\ lease \in [Events -> 0..LeaseDuration]
    /\ delay \in [Events -> 0..MaxBackoff]
    /\ attempts \in [Events -> 0..AttemptCap]

RowsInit ==
    /\ status = [e \in Events |-> "absent"]
    /\ claim_token = [e \in Events |-> None]
    /\ lease = [e \in Events |-> 0]
    /\ delay = [e \in Events |-> 0]
    /\ attempts = [e \in Events |-> 0]

-----------------------------------------------------------------------------

(***************************************************************************)
(* The transaction that ran at time t commits the rows it wrote (the       *)
(* emitter's session, or add() inside the ingestion transaction).  It may  *)
(* become visible after a later one: created_at is its start.              *)
(***************************************************************************)
Add(t) ==
    LET new == {e \in Events : CreatedAt[e] = t}
    IN  /\ new # {}
        /\ \A e \in new : status[e] = "absent"
        /\ status' = [e \in Events |-> IF e \in new THEN "pending" ELSE status[e]]
        /\ UNCHANGED <<claim_token, lease, delay, attempts>>

\* Variants of the WHERE clause with a condition forgotten.
ClaimableWhileLeased(e) == status[e] \in {"pending", "claimed"} /\ delay[e] = 0

ClaimableOnlyPending(e) == status[e] = "pending" /\ delay[e] = 0

\* The WHERE clause of claim_batch.
Claimable(e) ==
    /\ status[e] = "pending" \/ (status[e] = "claimed" /\ lease[e] = 0)
    /\ delay[e] = 0

(***************************************************************************)
(* ORDER BY created_at LIMIT BatchSize over the claimable rows that are    *)
(* not locked by another transaction (SKIP LOCKED).  Rows with the same    *)
(* created_at come in any order.                                           *)
(***************************************************************************)
IsBatch(batch, locked) ==
    LET rows == {e \in Events : Claimable(e)} \ locked
    IN  /\ batch \subseteq rows
        /\ Cardinality(batch) = IF Cardinality(rows) < BatchSize
                                THEN Cardinality(rows) ELSE BatchSize
        /\ \A e \in batch, f \in rows \ batch : CreatedAt[e] <= CreatedAt[f]

\* claim_batch on the selected rows, with the fresh token tok[e] for row e.
ClaimRows(batch, tok) ==
    /\ status' = [e \in Events |-> IF e \in batch THEN "claimed" ELSE status[e]]
    /\ claim_token' = [e \in Events |-> IF e \in batch THEN tok[e] ELSE claim_token[e]]
    /\ lease' = [e \in Events |-> IF e \in batch THEN LeaseDuration ELSE lease[e]]
    /\ attempts' = [e \in Events |->
                       IF e \in batch /\ attempts[e] < AttemptCap
                       THEN attempts[e] + 1 ELSE attempts[e]]
    /\ UNCHANGED delay

\* Variant: the token alone, which a completed row keeps.
HoldsTokenOnly(e, t) == claim_token[e] = t

\* The test both mark operations make: the row is claimed with this token.
HoldsClaim(e, t) == status[e] = "claimed" /\ claim_token[e] = t

MarkCompleted(e, t) ==
    /\ HoldsClaim(e, t)
    /\ status' = [status EXCEPT ![e] = "completed"]
    /\ lease' = [lease EXCEPT ![e] = 0]
    /\ UNCHANGED <<claim_token, delay, attempts>>

\* min(3600.0, 2.0 ** (attempts + 1)) seconds; 2^(n+1) is at least 1.
Backoff(n) == IF 2 ^ (n + 1) \in 1..MaxBackoff THEN 2 ^ (n + 1) ELSE MaxBackoff

\* mark_failed evaluates the delay before it updates the row; from
\* OverflowExponent on that raises and the row is left as it was.
BackoffOverflows(e) == attempts[e] + 1 >= OverflowExponent

MarkFailed(e, t) ==
    /\ HoldsClaim(e, t)
    /\ ~BackoffOverflows(e)
    /\ status' = [status EXCEPT ![e] = "pending"]
    /\ claim_token' = [claim_token EXCEPT ![e] = None]
    /\ lease' = [lease EXCEPT ![e] = 0]
    /\ delay' = [delay EXCEPT ![e] = Backoff(attempts[e])]
    /\ UNCHANGED attempts

\* One unit of time passes.
Elapse(timer) == [e \in Events |-> IF timer[e] > 0 THEN timer[e] - 1 ELSE timer[e]]

TimePasses ==
    /\ \E e \in Events : lease[e] > 0 \/ delay[e] > 0
    /\ lease' = Elapse(lease)
    /\ delay' = Elapse(delay)
    /\ UNCHANGED <<status, claim_token, attempts>>

=============================================================================
