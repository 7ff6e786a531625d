----------------------------- MODULE Ingestion -----------------------------
(***************************************************************************)
(* IngestionService.ingest_file run by concurrent jobs over the files of   *)
(* one source, with the document, version, chunk and checkpoint tables,    *)
(* the raw object store and the DOCUMENT_PARSED rows of the outbox.        *)
(*                                                                         *)
(* A content is named by its checksum.  The unique keys (source, locator), *)
(* (document, checksum) and (source, locator, checksum) make a document a  *)
(* file, and a version or a checkpoint a pair of a file and a checksum.    *)
(* PostgreSQL runs at READ COMMITTED: every SELECT is a step of its own,   *)
(* while what a transaction writes appears at its commit.  upsert_document *)
(* and delete_document lock the document's row from their first statement  *)
(* on, which is what lock models.                                          *)
(*                                                                         *)
(*   exists, put - the raw object is looked up and stored                  *)
(*   checkpoint  - get_checkpoint is next                                  *)
(*   resume      - a PERSISTED checkpoint was found, get_document is next  *)
(*   existing    - find_active_document_by_canonical_locator is next       *)
(*   hit         - current content equals the file's: checkpoint, commit   *)
(*   upsert      - parsed; the document row's lock is asked for            *)
(*   commit      - lock held, everything written, commit is next           *)
(*   report      - committed, generate_report is next                      *)
(***************************************************************************)
EXTENDS Naturals, FiniteSets

CONSTANTS
    Jobs,          \* concurrent calls of ingest_file
    Files,         \* canonical locators under the source's root
    Checksums,     \* contents a file may have
    None

ASSUME IngestionConstants == None \notin Checksums \cup Jobs

VARIABLES
    source,       \* "absent", "active" or "inactive"
    file,         \* file[f]: the content of f on disk
    raw,          \* contents in the object store
    current,      \* current[f]: the version documents.current_version_id names
    isCurrent,    \* isCurrent[f]: versions whose is_current is true
    versions,     \* versions[f]: the rows of document_versions
    chunks,       \* chunks[f][c]: how often the chunks of a version were stored
    events,       \* events[f][c]: DOCUMENT_PARSED rows of a version
    checkpoint,   \* checkpoint[f]: contents with a PERSISTED checkpoint
    lock,         \* lock[f]: the job whose transaction has f's document row
    pc, arg, isNew,
    seen          \* history: contents that were current since the job began

tableVars == <<current, isCurrent, versions, chunks, events>>
jobVars == <<pc, arg, isNew>>
vars == <<source, file, raw, tableVars, checkpoint, lock, jobVars, seen>>

Ended == {"idle", "done", "failed"}
States == Ended \cup
    {"exists", "put", "checkpoint", "resume", "existing", "hit", "upsert", "commit", "report"}

TypeOK ==
    /\ source \in {"absent", "active", "inactive"}
    /\ file \in [Files -> Checksums]
    /\ raw \subseteq Checksums
    /\ current \in [Files -> Checksums \cup {None}]
    /\ isCurrent \in [Files -> SUBSET Checksums]
    /\ versions \in [Files -> SUBSET Checksums]
    /\ chunks \in [Files -> [Checksums -> Nat]]
    /\ events \in [Files -> [Checksums -> Nat]]
    /\ checkpoint \in [Files -> SUBSET Checksums]
    /\ lock \in [Files -> Jobs \cup {None}]
    /\ pc \in [Jobs -> States]
    /\ arg \in [Jobs -> [file : Files, sum : Checksums]]
    /\ isNew \in [Jobs -> BOOLEAN]
    /\ seen \in [Jobs -> SUBSET (Checksums \cup {None})]

Init ==
    /\ source = "absent"
    /\ file \in [Files -> Checksums]
    /\ raw = {}
    /\ current = [f \in Files |-> None]
    /\ isCurrent = [f \in Files |-> {}]
    /\ versions = [f \in Files |-> {}]
    /\ chunks = [f \in Files |-> [c \in Checksums |-> 0]]
    /\ events = [f \in Files |-> [c \in Checksums |-> 0]]
    /\ checkpoint = [f \in Files |-> {}]
    /\ lock = [f \in Files |-> None]
    /\ pc = [j \in Jobs |-> "idle"]
    /\ arg \in {[j \in Jobs |-> [file |-> f, sum |-> file[f]]] : f \in Files}
    /\ isNew = [j \in Jobs |-> FALSE]
    /\ seen = [j \in Jobs |-> {}]

Go(j, s) == pc' = [pc EXCEPT ![j] = s]

\* Every job on f has now seen c as the current content.
Observe(f, c) ==
    seen' = [j \in Jobs |-> IF arg[j].file = f THEN seen[j] \cup {c} ELSE seen[j]]

-----------------------------------------------------------------------------
\* The source, and the world outside.

\* find_or_create_source: an existing row is returned as it is.
Register ==
    /\ source' = IF source = "absent" THEN "active" ELSE source
    /\ UNCHANGED <<file, raw, tableVars, checkpoint, lock, jobVars, seen>>

Deactivate ==
    /\ source # "absent"
    /\ source' = "inactive"
    /\ UNCHANGED <<file, raw, tableVars, checkpoint, lock, jobVars, seen>>

EditFile(f, c) ==
    /\ file' = [file EXCEPT ![f] = c]
    /\ UNCHANGED <<source, raw, tableVars, checkpoint, lock, jobVars, seen>>

\* Variant: only the pointer is cleared.
DeletePointerOnly(f) ==
    /\ lock[f] = None
    /\ current' = [current EXCEPT ![f] = None]
    /\ Observe(f, None)
    /\ UNCHANGED <<source, file, raw, isCurrent, versions, chunks, events, checkpoint, lock, jobVars>>

\* Variant: the version rows go too.
DeleteRows(f) ==
    /\ lock[f] = None
    /\ current' = [current EXCEPT ![f] = None]
    /\ isCurrent' = [isCurrent EXCEPT ![f] = {}]
    /\ versions' = [versions EXCEPT ![f] = {}]
    /\ Observe(f, None)
    /\ UNCHANGED <<source, file, raw, chunks, events, checkpoint, lock, jobVars>>

\* delete_document, in a transaction of its own.
DeleteDocument(f) ==
    /\ lock[f] = None
    /\ current' = [current EXCEPT ![f] = None]
    /\ isCurrent' = [isCurrent EXCEPT ![f] = {}]
    /\ Observe(f, None)
    /\ UNCHANGED <<source, file, raw, versions, chunks, events, checkpoint, lock, jobVars>>

-----------------------------------------------------------------------------
\* ingest_file.

(***************************************************************************)
(* _acquire_and_validate: the source is read (whether or not it is still   *)
(* active) and then the file; nothing that happens between the two reads   *)
(* can be told apart.                                                      *)
(***************************************************************************)
Start(j, f) ==
    /\ pc[j] \in Ended
    /\ source # "absent"
    /\ arg' = [arg EXCEPT ![j] = [file |-> f, sum |-> file[f]]]
    /\ seen' = [seen EXCEPT ![j] = {current[f]}]
    /\ isNew' = [isNew EXCEPT ![j] = FALSE]
    /\ Go(j, "exists")
    /\ UNCHANGED <<source, file, raw, tableVars, checkpoint, lock>>

LookUpRaw(j) ==
    /\ pc[j] = "exists"
    /\ Go(j, IF arg[j].sum \in raw THEN "checkpoint" ELSE "put")
    /\ UNCHANGED <<source, file, raw, tableVars, checkpoint, lock, arg, isNew, seen>>

\* Variant: the upload is left to a later step.
PutRawLater(j) ==
    /\ pc[j] = "put"
    /\ Go(j, "checkpoint")
    /\ UNCHANGED <<source, file, raw, tableVars, checkpoint, lock, arg, isNew, seen>>

PutRaw(j) ==
    /\ pc[j] = "put"
    /\ raw' = raw \cup {arg[j].sum}
    /\ Go(j, "checkpoint")
    /\ UNCHANGED <<source, file, tableVars, checkpoint, lock, arg, isNew, seen>>

GetCheckpoint(j) ==
    /\ pc[j] = "checkpoint"
    /\ Go(j, IF arg[j].sum \in checkpoint[arg[j].file] THEN "resume" ELSE "existing")
    /\ UNCHANGED <<source, file, raw, tableVars, checkpoint, lock, arg, isNew, seen>>

\* _get_current_version: by pointer, else by flag.
CurrentContents(f) == IF current[f] # None THEN {current[f]} ELSE isCurrent[f]

\* Variant: the checkpoint alone is believed.
ResumeBlindly(j) ==
    /\ pc[j] = "resume"
    /\ Go(j, "report")
    /\ UNCHANGED <<source, file, raw, tableVars, checkpoint, lock, arg, isNew, seen>>

\* The checkpoint is believed only while its content is the current one.
Resume(j) ==
    /\ pc[j] = "resume"
    /\ Go(j, IF CurrentContents(arg[j].file) = {arg[j].sum} THEN "report" ELSE "existing")
    /\ UNCHANGED <<source, file, raw, tableVars, checkpoint, lock, arg, isNew, seen>>

IdempotentHit(j) == source = "active" /\ current[arg[j].file] = arg[j].sum

FindExisting(j) ==
    /\ pc[j] = "existing"
    /\ Go(j, IF IdempotentHit(j) THEN "hit" ELSE "upsert")
    /\ UNCHANGED <<source, file, raw, tableVars, checkpoint, lock, arg, isNew, seen>>

CommitHit(j) ==
    /\ pc[j] = "hit"
    /\ checkpoint' = [checkpoint EXCEPT ![arg[j].file] = @ \cup {arg[j].sum}]
    /\ Go(j, "report")
    /\ UNCHANGED <<source, file, raw, tableVars, lock, arg, isNew, seen>>

\* Variant: a SELECT that does not lock decides whether the version is new.
UpsertUnlocked(j) ==
    /\ pc[j] = "upsert"
    /\ isNew' = [isNew EXCEPT ![j] = arg[j].sum \notin versions[arg[j].file]]
    /\ Go(j, "commit")
    /\ UNCHANGED <<source, file, raw, tableVars, checkpoint, lock, arg, seen>>

(***************************************************************************)
(* The first statement of upsert_document waits for the row; the version   *)
(* is new when the INSERT finds no row of the same checksum.               *)
(***************************************************************************)
Upsert(j) ==
    /\ pc[j] = "upsert"
    /\ lock[arg[j].file] = None
    /\ lock' = [lock EXCEPT ![arg[j].file] = j]
    /\ isNew' = [isNew EXCEPT ![j] = arg[j].sum \notin versions[arg[j].file]]
    /\ Go(j, "commit")
    /\ UNCHANGED <<source, file, raw, tableVars, checkpoint, arg, seen>>

\* Everything the transaction wrote becomes visible at once.
Commit(j) ==
    LET f == arg[j].file
        c == arg[j].sum
        one == IF isNew[j] THEN 1 ELSE 0
    IN  /\ pc[j] = "commit"
        /\ versions' = [versions EXCEPT ![f] = @ \cup {c}]
        /\ isCurrent' = [isCurrent EXCEPT ![f] = {c}]
        /\ current' = [current EXCEPT ![f] = c]
        /\ checkpoint' = [checkpoint EXCEPT ![f] = @ \cup {c}]
        /\ chunks' = [chunks EXCEPT ![f][c] = @ + one]
        /\ events' = [events EXCEPT ![f][c] = @ + one]
        /\ lock' = [lock EXCEPT ![f] = None]
        /\ Observe(f, c)
        /\ Go(j, "report")
        /\ UNCHANGED <<source, file, raw, arg, isNew>>

Report(j) ==
    /\ pc[j] = "report"
    /\ Go(j, "done")
    /\ UNCHANGED <<source, file, raw, tableVars, checkpoint, lock, arg, isNew, seen>>

\* Variant: the session is not closed, its locks stay.
FailWithoutRollback(j) ==
    /\ pc[j] \notin Ended
    /\ raw' \in {raw, IF pc[j] = "put" THEN raw \cup {arg[j].sum} ELSE raw}
    /\ Go(j, "failed")
    /\ UNCHANGED <<source, file, tableVars, checkpoint, lock, arg, isNew, seen>>

(***************************************************************************)
(* An exception, of the parser too, or the death of the process: the unit  *)
(* of work rolls back.                                                     *)
(* put_raw may have stored the object before its answer was lost, and a    *)
(* failure in "report" is a caller told of a failure after the commit.     *)
(***************************************************************************)
Fail(j) ==
    /\ pc[j] \notin Ended
    /\ raw' \in {raw, IF pc[j] = "put" THEN raw \cup {arg[j].sum} ELSE raw}
    /\ lock' = IF pc[j] = "commit" THEN [lock EXCEPT ![arg[j].file] = None] ELSE lock
    /\ Go(j, "failed")
    /\ UNCHANGED <<source, file, tableVars, checkpoint, arg, isNew, seen>>

JobStep(j) ==
    \/ LookUpRaw(j)
    \/ PutRaw(j)
    \/ GetCheckpoint(j)
    \/ Resume(j)
    \/ FindExisting(j)
    \/ CommitHit(j)
    \/ Upsert(j)
    \/ Commit(j)
    \/ Report(j)

Next ==
    \/ Register
    \/ Deactivate
    \/ \E f \in Files, c \in Checksums : EditFile(f, c)
    \/ \E f \in Files : DeleteDocument(f)
    \/ \E j \in Jobs, f \in Files : Start(j, f)
    \/ \E j \in Jobs : JobStep(j)
    \/ \E j \in Jobs : Fail(j)

Spec == Init /\ [][Next]_vars

(***************************************************************************)
(* A coroutine whose awaited call has answered is resumed by the event     *)
(* loop, and PostgreSQL grants a row lock in the order of the requests.    *)
(***************************************************************************)
FairSpec ==
    /\ Spec
    /\ \A j \in Jobs : WF_vars(JobStep(j)) /\ SF_vars(Upsert(j))

-----------------------------------------------------------------------------
(***************************************************************************)
(* The pointer of a document and the is_current flags of its versions      *)
(* never disagree: the partial unique index ix_document_versions_current   *)
(* is never hit, and get_document finds by flag what it finds by pointer.  *)
(***************************************************************************)
CurrentVersionAgrees ==
    \A f \in Files :
        /\ isCurrent[f] = IF current[f] = None THEN {} ELSE {current[f]}
        /\ isCurrent[f] \subseteq versions[f]

(***************************************************************************)
(* Ingesting the same content again, concurrently or after a failure,      *)
(* never stores the chunks of a version twice or announces it twice, and   *)
(* no version exists without its chunks and its DOCUMENT_PARSED event.     *)
(***************************************************************************)
PublishedOnce ==
    \A f \in Files, c \in Checksums :
        LET n == IF c \in versions[f] THEN 1 ELSE 0
        IN  chunks[f][c] = n /\ events[f][c] = n

(***************************************************************************)
(* A PERSISTED checkpoint, on which a later ingestion skips all the work,  *)
(* stands for a version whose raw bytes are in the object store.           *)
(***************************************************************************)
CheckpointIsDurable ==
    \A f \in Files : checkpoint[f] \subseteq versions[f] \cap raw

(***************************************************************************)
(* A successful answer names a version that holds the bytes the call read  *)
(* and that was the document's current version at some moment of the call, *)
(* whatever other ingestions and deletions ran meanwhile and even when the *)
(* file went back to an earlier content.                                   *)
(***************************************************************************)
AnsweredWasCurrent ==
    \A j \in Jobs : pc[j] = "done" =>
        /\ arg[j].sum \in seen[j]
        /\ arg[j].sum \in checkpoint[arg[j].file]

(***************************************************************************)
(* Versions and the checkpoints that name them are append-only: nothing an *)
(* ingestion, a deletion or a deactivation does removes one (ADR-009).     *)
(***************************************************************************)
VersionsAreKept ==
    [][\A f \in Files :
        /\ versions[f] \subseteq versions'[f]
        /\ checkpoint[f] \subseteq checkpoint'[f]]_vars

(***************************************************************************)
(* Every ingestion comes to an end: the row locks that concurrent calls on *)
(* one document wait for are always given back.                            *)
(***************************************************************************)
EveryIngestionEnds ==
    \A j \in Jobs : (pc[j] \notin Ended) ~> (pc[j] \in Ended)

-----------------------------------------------------------------------------
(***************************************************************************)
(* What each job knows at each of its steps; with the invariants above it  *)
(* is inductive.                                                           *)
(***************************************************************************)
LockIsHeld ==
    \A f \in Files, j \in Jobs :
        lock[f] = j <=> (pc[j] = "commit" /\ arg[j].file = f)

\* The decision taken under the lock is still right at the commit.
DecisionHolds ==
    \A j \in Jobs : pc[j] = "commit" =>
        isNew[j] = (arg[j].sum \notin versions[arg[j].file])

RawIsStored ==
    \A j \in Jobs : pc[j] \notin {"idle", "failed", "exists", "put"} => arg[j].sum \in raw

Watching ==
    \A j \in Jobs : pc[j] \notin Ended => current[arg[j].file] \in seen[j]

Found ==
    \A j \in Jobs :
        /\ pc[j] = "resume" => arg[j].sum \in checkpoint[arg[j].file]
        /\ pc[j] = "hit" => arg[j].sum \in seen[j] \cap versions[arg[j].file]
        /\ pc[j] = "report" => arg[j].sum \in seen[j] \cap checkpoint[arg[j].file]

IInv ==
    /\ TypeOK
    /\ CurrentVersionAgrees
    /\ PublishedOnce
    /\ CheckpointIsDurable
    /\ AnsweredWasCurrent
    /\ LockIsHeld
    /\ DecisionHolds
    /\ RawIsStored
    /\ Watching
    /\ Found

=============================================================================
