-------------------------- MODULE IngestionProofs --------------------------
(***************************************************************************)
(* Proofs about Ingestion for any number of jobs, files and contents.      *)
(***************************************************************************)
EXTENDS Ingestion, TLAPS

LEMMA InitIInv == Init => IInv
  BY IngestionConstants
  DEF Init, IInv, TypeOK, CurrentVersionAgrees, PublishedOnce, CheckpointIsDurable,
      AnsweredWasCurrent, LockIsHeld, DecisionHolds, RawIsStored, Watching, Found,
      States, Ended

(***************************************************************************)
(* Steps that change neither a table nor a job: the source or a file.      *)
(***************************************************************************)
LEMMA WorldStep ==
  ASSUME IInv,
         UNCHANGED <<raw, tableVars, checkpoint, lock, jobVars, seen>>,
         source' \in {"absent", "active", "inactive"},
         file' \in [Files -> Checksums]
  PROVE  IInv'
<1>1. UNCHANGED <<raw, current, isCurrent, versions, chunks, events, checkpoint, lock,
                  pc, arg, isNew, seen>>
  BY DEF tableVars, jobVars
<1>2. TypeOK'
  BY <1>1 DEF IInv, TypeOK
<1>3. CurrentVersionAgrees' /\ PublishedOnce' /\ CheckpointIsDurable'
  BY <1>1 DEF IInv, CurrentVersionAgrees, PublishedOnce, CheckpointIsDurable
<1>4. AnsweredWasCurrent' /\ LockIsHeld' /\ DecisionHolds' /\ RawIsStored'
  BY <1>1 DEF IInv, AnsweredWasCurrent, LockIsHeld, DecisionHolds, RawIsStored
<1>5. Watching' /\ Found'
  BY <1>1 DEF IInv, Watching, Found
<1> QED
  BY <1>2, <1>3, <1>4, <1>5 DEF IInv

LEMMA OutsideStep ==
  ASSUME IInv,
         Register \/ Deactivate \/ \E f \in Files, c \in Checksums : EditFile(f, c)
  PROVE  IInv'
<1>1. CASE Register
  BY <1>1, WorldStep DEF Register, IInv, TypeOK
<1>2. CASE Deactivate
  BY <1>2, WorldStep DEF Deactivate, IInv, TypeOK
<1>3. ASSUME NEW f \in Files, NEW c \in Checksums, EditFile(f, c) PROVE IInv'
  BY <1>3, WorldStep DEF EditFile, IInv, TypeOK
<1> QED
  BY <1>1, <1>2, <1>3

\* delete_document waits for the row lock, so no commit is pending on f.
LEMMA DeleteStep ==
  ASSUME IInv, NEW f \in Files, DeleteDocument(f)
  PROVE  IInv'
<1> USE DEF IInv, tableVars, jobVars, DeleteDocument
<1>1. /\ UNCHANGED <<source, file, raw, versions, chunks, events, checkpoint, lock, pc, arg, isNew>>
      /\ \A j \in Jobs : seen[j] \subseteq seen'[j]
      /\ \A j \in Jobs : seen'[j] \subseteq Checksums \cup {None}
  BY DEF Observe, TypeOK
<1>2. TypeOK'
  BY <1>1 DEF TypeOK, Observe
<1>3. CurrentVersionAgrees'
  BY <1>1 DEF CurrentVersionAgrees, TypeOK
<1>4. Watching'
  BY <1>1 DEF Watching, TypeOK, Observe
<1>5. AnsweredWasCurrent' /\ Found'
  BY <1>1 DEF AnsweredWasCurrent, Found
<1>6. PublishedOnce' /\ CheckpointIsDurable' /\ LockIsHeld' /\ DecisionHolds' /\ RawIsStored'
  BY <1>1 DEF PublishedOnce, CheckpointIsDurable, LockIsHeld, DecisionHolds, RawIsStored
<1> QED
  BY <1>2, <1>3, <1>4, <1>5, <1>6

LEMMA StartStep ==
  ASSUME IInv, NEW j \in Jobs, NEW f \in Files, Start(j, f)
  PROVE  IInv'
<1> USE DEF IInv, tableVars, Start, Go
<1>1. /\ arg'[j] = [file |-> f, sum |-> file[f]]
      /\ pc'[j] = "exists"
      /\ seen'[j] = {current[f]}
      /\ \A k \in Jobs \ {j} : arg'[k] = arg[k] /\ pc'[k] = pc[k]
                               /\ seen'[k] = seen[k] /\ isNew'[k] = isNew[k]
  BY DEF TypeOK
<1>2. TypeOK'
  BY <1>1 DEF TypeOK, States
<1>3. LockIsHeld'
  BY <1>1, IngestionConstants DEF LockIsHeld, Ended, TypeOK
<1>4. AnsweredWasCurrent' /\ Found' /\ Watching' /\ DecisionHolds' /\ RawIsStored'
  BY <1>1 DEF AnsweredWasCurrent, Found, Watching, DecisionHolds, RawIsStored, TypeOK
<1>5. CurrentVersionAgrees' /\ PublishedOnce' /\ CheckpointIsDurable'
  BY DEF CurrentVersionAgrees, PublishedOnce, CheckpointIsDurable
<1> QED
  BY <1>2, <1>3, <1>4, <1>5

(***************************************************************************)
(* The steps of a job that only read, and move its program counter.        *)
(***************************************************************************)
LEMMA ReadStep ==
  ASSUME IInv, NEW j \in Jobs,
         LookUpRaw(j) \/ GetCheckpoint(j) \/ Resume(j) \/ FindExisting(j) \/ Report(j)
  PROVE  IInv'
<1> USE DEF IInv, tableVars, Go
<1>1. UNCHANGED <<source, file, raw, tableVars, checkpoint, lock, arg, isNew, seen>>
  BY DEF LookUpRaw, GetCheckpoint, Resume, FindExisting, Report
<1>2. pc \in [Jobs -> States] /\ \A k \in Jobs \ {j} : pc'[k] = pc[k]
  BY DEF TypeOK, LookUpRaw, GetCheckpoint, Resume, FindExisting, Report
<1>3. /\ pc[j] # "commit" /\ pc'[j] # "commit"
      /\ pc[j] \notin Ended
      /\ pc'[j] \in States \ {"idle", "exists"}
      /\ pc' \in [Jobs -> States]
  BY DEF TypeOK, States, Ended, LookUpRaw, GetCheckpoint, Resume, FindExisting, Report
<1>4. TypeOK'
  BY <1>1, <1>3 DEF TypeOK
<1>5. LockIsHeld' /\ DecisionHolds'
  BY <1>1, <1>2, <1>3 DEF LockIsHeld, DecisionHolds
<1>6. RawIsStored'
  <2>1. pc'[j] \in {"put", "failed"} \/ arg[j].sum \in raw
    BY DEF RawIsStored, TypeOK, LookUpRaw, GetCheckpoint, Resume, FindExisting, Report
  <2> QED
    BY <1>1, <1>2, <2>1 DEF RawIsStored
<1>7. Watching'
  BY <1>1, <1>2, <1>3 DEF Watching
<1>8. Found' /\ AnsweredWasCurrent'
  <2>1. pc'[j] = "resume" => arg[j].sum \in checkpoint[arg[j].file]
    BY DEF TypeOK, LookUpRaw, GetCheckpoint, Resume, FindExisting, Report
  <2>2. pc'[j] = "hit" => arg[j].sum \in seen[j] \cap versions[arg[j].file]
    <3> SUFFICES ASSUME pc'[j] = "hit" PROVE arg[j].sum \in seen[j] \cap versions[arg[j].file]
      OBVIOUS
    <3>1. current[arg[j].file] = arg[j].sum
      BY DEF TypeOK, LookUpRaw, GetCheckpoint, Resume, FindExisting, Report, IdempotentHit
    <3>2. arg[j].sum \in seen[j]
      BY <1>3, <3>1 DEF Watching
    <3>3. arg[j].file \in Files /\ arg[j].sum \in Checksums /\ arg[j].sum # None
      BY IngestionConstants DEF TypeOK
    <3>4. isCurrent[arg[j].file] = {arg[j].sum}
      BY <3>1, <3>3 DEF CurrentVersionAgrees
    <3>5. isCurrent[arg[j].file] \subseteq versions[arg[j].file]
      BY <3>3 DEF CurrentVersionAgrees
    <3> QED
      BY <3>2, <3>4, <3>5
  <2>3. pc'[j] = "report" => arg[j].sum \in seen[j] \cap checkpoint[arg[j].file]
    <3> SUFFICES ASSUME pc'[j] = "report" PROVE arg[j].sum \in seen[j] \cap checkpoint[arg[j].file]
      OBVIOUS
    <3>1. Resume(j)
      BY DEF TypeOK, LookUpRaw, GetCheckpoint, Resume, FindExisting, Report
    <3>2. arg[j].file \in Files /\ arg[j].sum \in Checksums
      BY DEF TypeOK
    <3>3. CurrentContents(arg[j].file) = {arg[j].sum}
      BY <3>1 DEF Resume, TypeOK
    <3>4. current[arg[j].file] = arg[j].sum
      BY <3>2, <3>3 DEF CurrentContents, CurrentVersionAgrees
    <3> QED
      BY <1>3, <3>1, <3>4 DEF Watching, Found, Resume
  <2>4. pc'[j] = "done" => arg[j].sum \in seen[j] \cap checkpoint[arg[j].file]
    BY DEF TypeOK, LookUpRaw, GetCheckpoint, Resume, FindExisting, Report, Found
  <2> QED
    BY <1>1, <1>2, <2>1, <2>2, <2>3, <2>4 DEF Found, AnsweredWasCurrent
<1>9. CurrentVersionAgrees' /\ PublishedOnce' /\ CheckpointIsDurable'
  BY <1>1 DEF CurrentVersionAgrees, PublishedOnce, CheckpointIsDurable
<1> QED
  BY <1>4, <1>5, <1>6, <1>7, <1>8, <1>9

LEMMA PutStep ==
  ASSUME IInv, NEW j \in Jobs, PutRaw(j)
  PROVE  IInv'
<1> USE DEF IInv, tableVars, PutRaw, Go
<1>1. /\ pc[j] = "put" /\ pc'[j] = "checkpoint"
      /\ \A k \in Jobs \ {j} : pc'[k] = pc[k]
      /\ raw' = raw \cup {arg[j].sum}
  BY DEF TypeOK
<1>2. TypeOK'
  BY <1>1 DEF TypeOK, States
<1>3. LockIsHeld' /\ DecisionHolds' /\ RawIsStored'
  BY <1>1 DEF LockIsHeld, DecisionHolds, RawIsStored
<1>4. Watching' /\ Found' /\ AnsweredWasCurrent'
  BY <1>1 DEF Watching, Found, AnsweredWasCurrent, Ended
<1>5. CurrentVersionAgrees' /\ PublishedOnce' /\ CheckpointIsDurable'
  BY <1>1 DEF CurrentVersionAgrees, PublishedOnce, CheckpointIsDurable
<1> QED
  BY <1>2, <1>3, <1>4, <1>5

LEMMA HitStep ==
  ASSUME IInv, NEW j \in Jobs, CommitHit(j)
  PROVE  IInv'
<1> USE DEF IInv, tableVars, CommitHit, Go
<1>1. /\ pc[j] = "hit" /\ pc'[j] = "report"
      /\ \A k \in Jobs \ {j} : pc'[k] = pc[k]
      /\ arg[j].file \in Files /\ arg[j].sum \in Checksums
      /\ arg[j].sum \in seen[j] \cap versions[arg[j].file]
      /\ arg[j].sum \in raw
  BY DEF TypeOK, Found, RawIsStored
<1>2. /\ \A f \in Files : checkpoint[f] \subseteq checkpoint'[f]
      /\ arg[j].sum \in checkpoint'[arg[j].file]
  BY <1>1 DEF TypeOK
<1>3. TypeOK'
  BY <1>1 DEF TypeOK, States
<1>4. CheckpointIsDurable'
  BY <1>1 DEF CheckpointIsDurable, TypeOK
<1>5. LockIsHeld' /\ DecisionHolds' /\ RawIsStored' /\ Watching'
  BY <1>1 DEF LockIsHeld, DecisionHolds, RawIsStored, Watching, Ended
<1>6. \A k \in Jobs : arg[k].file \in Files
  BY DEF TypeOK
<1>7. Found' /\ AnsweredWasCurrent'
  BY <1>1, <1>2, <1>6 DEF Found, AnsweredWasCurrent
<1>8. CurrentVersionAgrees' /\ PublishedOnce'
  BY DEF CurrentVersionAgrees, PublishedOnce
<1> QED
  BY <1>3, <1>4, <1>5, <1>7, <1>8

LEMMA UpsertStep ==
  ASSUME IInv, NEW j \in Jobs, Upsert(j)
  PROVE  IInv'
<1> USE DEF IInv, tableVars, Upsert, Go
<1>1. /\ pc[j] = "upsert" /\ pc'[j] = "commit"
      /\ \A k \in Jobs \ {j} : pc'[k] = pc[k] /\ isNew'[k] = isNew[k]
      /\ arg[j].file \in Files
      /\ isNew'[j] = (arg[j].sum \notin versions[arg[j].file])
  BY DEF TypeOK
<1>2. TypeOK'
  BY <1>1 DEF TypeOK, States
<1>3. LockIsHeld'
  BY <1>1, IngestionConstants DEF LockIsHeld, TypeOK
<1>4. DecisionHolds' /\ RawIsStored'
  BY <1>1 DEF DecisionHolds, RawIsStored
<1>5. Watching' /\ Found' /\ AnsweredWasCurrent'
  BY <1>1 DEF Watching, Found, AnsweredWasCurrent, Ended
<1>6. CurrentVersionAgrees' /\ PublishedOnce' /\ CheckpointIsDurable'
  BY DEF CurrentVersionAgrees, PublishedOnce, CheckpointIsDurable
<1> QED
  BY <1>2, <1>3, <1>4, <1>5, <1>6

(***************************************************************************)
(* The commit.  The lock makes the decision taken at the upsert still      *)
(* right, which is what PublishedOnce rests on.                            *)
(***************************************************************************)
LEMMA CommitStep ==
  ASSUME IInv, NEW j \in Jobs, Commit(j)
  PROVE  IInv'
<1> USE DEF IInv, tableVars, Go
<1> DEFINE f == arg[j].file
           c == arg[j].sum
<1>0. /\ pc[j] = "commit" /\ pc'[j] = "report"
      /\ \A k \in Jobs \ {j} : pc'[k] = pc[k]
      /\ f \in Files /\ c \in Checksums
      /\ UNCHANGED <<source, file, raw, arg, isNew>>
  BY DEF TypeOK, Commit
<1>a. c \in raw
  BY <1>0 DEF RawIsStored
<1>b. isNew[j] = (c \notin versions[f]) /\ lock[f] = j
  BY <1>0 DEF DecisionHolds, LockIsHeld
<1>1. /\ pc[j] = "commit" /\ pc'[j] = "report"
      /\ \A k \in Jobs \ {j} : pc'[k] = pc[k]
      /\ f \in Files /\ c \in Checksums /\ c \in raw
      /\ isNew[j] = (c \notin versions[f])
      /\ lock[f] = j
      /\ UNCHANGED <<source, file, raw, arg, isNew>>
  BY <1>0, <1>a, <1>b
<1>2. /\ versions'[f] = versions[f] \cup {c}
      /\ isCurrent'[f] = {c}
      /\ current'[f] = c
      /\ checkpoint'[f] = checkpoint[f] \cup {c}
      /\ lock'[f] = None
  BY <1>1 DEF Commit, TypeOK
<1>3. \A g \in Files \ {f} :
         /\ versions'[g] = versions[g] /\ isCurrent'[g] = isCurrent[g]
         /\ current'[g] = current[g] /\ checkpoint'[g] = checkpoint[g]
         /\ lock'[g] = lock[g]
  BY <1>1 DEF Commit, TypeOK
<1>4. \A k \in Jobs : /\ seen[k] \subseteq seen'[k]
                      /\ arg[k].file = f => c \in seen'[k]
                      /\ seen'[k] \subseteq Checksums \cup {None}
  BY <1>1 DEF Commit, Observe, TypeOK
<1>5. /\ chunks' \in [Files -> [Checksums -> Nat]]
      /\ events' \in [Files -> [Checksums -> Nat]]
  BY <1>1 DEF Commit, TypeOK
<1>6. TypeOK'
  BY <1>1, <1>4, <1>5 DEF TypeOK, States, Commit, Observe
<1>7. CurrentVersionAgrees'
  <2> SUFFICES ASSUME NEW g \in Files
               PROVE  /\ isCurrent'[g] = IF current'[g] = None THEN {} ELSE {current'[g]}
                      /\ isCurrent'[g] \subseteq versions'[g]
    BY DEF CurrentVersionAgrees
  <2>1. CASE g = f
    BY <1>1, <1>2, <2>1, IngestionConstants
  <2>2. CASE g # f
    BY <1>3, <2>2 DEF CurrentVersionAgrees
  <2> QED
    BY <2>1, <2>2
<1>8. PublishedOnce'
  <2> SUFFICES ASSUME NEW g \in Files, NEW d \in Checksums
               PROVE  LET n == IF d \in versions'[g] THEN 1 ELSE 0
                      IN  chunks'[g][d] = n /\ events'[g][d] = n
    BY DEF PublishedOnce
  <2>1. CASE g = f /\ d = c
    <3>1. /\ chunks'[f][c] = chunks[f][c] + (IF isNew[j] THEN 1 ELSE 0)
          /\ events'[f][c] = events[f][c] + (IF isNew[j] THEN 1 ELSE 0)
      BY <1>1 DEF Commit, TypeOK
    <3>2. /\ chunks[f][c] = (IF c \in versions[f] THEN 1 ELSE 0)
          /\ events[f][c] = (IF c \in versions[f] THEN 1 ELSE 0)
      BY <1>1 DEF PublishedOnce
    <3>3. chunks'[f][c] = 1 /\ events'[f][c] = 1
      <4>1. CASE c \in versions[f]
        <5>1. ~isNew[j]
          BY <1>1, <4>1
        <5> QED
          BY <3>1, <3>2, <4>1, <5>1
      <4>2. CASE c \notin versions[f]
        <5>1. isNew[j]
          BY <1>1, <4>2
        <5> QED
          BY <3>1, <3>2, <4>2, <5>1
      <4> QED
        BY <4>1, <4>2
    <3>4. c \in versions'[f]
      BY <1>2
    <3> QED
      BY <2>1, <3>3, <3>4
  <2>2. CASE ~(g = f /\ d = c)
    <3>1. chunks'[g][d] = chunks[g][d] /\ events'[g][d] = events[g][d]
      BY <1>1, <2>2 DEF Commit, TypeOK
    <3>2. d \in versions'[g] <=> d \in versions[g]
      BY <1>2, <1>3, <2>2
    <3> QED
      BY <3>1, <3>2 DEF PublishedOnce
  <2> QED
    BY <2>1, <2>2
<1>9. CheckpointIsDurable'
  BY <1>1, <1>2, <1>3 DEF CheckpointIsDurable
<1>10. LockIsHeld'
  BY <1>1, <1>2, <1>3, IngestionConstants DEF LockIsHeld, TypeOK
<1>11. DecisionHolds'
  <2> SUFFICES ASSUME NEW k \in Jobs, pc'[k] = "commit"
               PROVE  isNew'[k] = (arg'[k].sum \notin versions'[arg'[k].file])
    BY DEF DecisionHolds
  <2>1. k # j /\ pc[k] = "commit" /\ arg[k].file \in Files
    BY <1>1 DEF TypeOK
  <2>2. arg[k].file # f
    BY <1>1, <2>1 DEF LockIsHeld
  <2> QED
    BY <1>1, <1>3, <2>1, <2>2 DEF DecisionHolds
<1>12. RawIsStored'
  BY <1>1 DEF RawIsStored
<1>13. \A k \in Jobs : arg[k].file \in Files
  BY DEF TypeOK
<1>14. Watching'
  <2> SUFFICES ASSUME NEW k \in Jobs, pc'[k] \notin Ended
               PROVE  current'[arg[k].file] \in seen'[k]
    BY <1>1 DEF Watching
  <2>1. CASE arg[k].file = f
    BY <1>2, <1>4, <2>1
  <2>2. CASE arg[k].file # f
    <3>1. pc[k] \notin Ended
      BY <1>1 DEF Ended
    <3> QED
      BY <1>3, <1>4, <1>13, <2>2, <3>1 DEF Watching
  <2> QED
    BY <2>1, <2>2
<1>15. \A g \in Files : versions[g] \subseteq versions'[g] /\ checkpoint[g] \subseteq checkpoint'[g]
  BY <1>2, <1>3
<1>16. Found' /\ AnsweredWasCurrent'
  BY <1>1, <1>2, <1>4, <1>13, <1>15 DEF Found, AnsweredWasCurrent
<1> QED
  BY <1>6, <1>7, <1>8, <1>9, <1>10, <1>11, <1>12, <1>14, <1>16

LEMMA FailStep ==
  ASSUME IInv, NEW j \in Jobs, Fail(j)
  PROVE  IInv'
<1> USE DEF IInv, tableVars, Fail, Go
<1>1. /\ pc[j] \notin Ended /\ pc'[j] = "failed"
      /\ \A k \in Jobs \ {j} : pc'[k] = pc[k]
      /\ raw \subseteq raw' /\ raw' \subseteq Checksums
      /\ arg[j].file \in Files
  BY DEF TypeOK
<1>2. TypeOK'
  BY <1>1 DEF TypeOK, States, Ended
<1>3. LockIsHeld'
  BY <1>1, IngestionConstants DEF LockIsHeld, TypeOK
<1>4. DecisionHolds' /\ RawIsStored'
  BY <1>1 DEF DecisionHolds, RawIsStored
<1>5. Watching' /\ Found' /\ AnsweredWasCurrent'
  BY <1>1 DEF Watching, Found, AnsweredWasCurrent, Ended
<1>6. CurrentVersionAgrees' /\ PublishedOnce' /\ CheckpointIsDurable'
  BY <1>1 DEF CurrentVersionAgrees, PublishedOnce, CheckpointIsDurable
<1> QED
  BY <1>2, <1>3, <1>4, <1>5, <1>6

LEMMA StutterStep == IInv /\ UNCHANGED vars => IInv'
  BY DEF vars, tableVars, jobVars, IInv, TypeOK, CurrentVersionAgrees, PublishedOnce,
         CheckpointIsDurable, AnsweredWasCurrent, LockIsHeld, DecisionHolds,
         RawIsStored, Watching, Found

(***************************************************************************)
(* IInv is an invariant of ingest_file under any interleaving of jobs,     *)
(* deletions, deactivations, edits and failures.                           *)
(***************************************************************************)
THEOREM IngestionInvariant == Spec => []IInv
<1>1. IInv /\ [Next]_vars => IInv'
  BY OutsideStep, DeleteStep, StartStep, ReadStep, PutStep, HitStep, UpsertStep,
     CommitStep, FailStep, StutterStep
  DEF Next, JobStep
<1> QED
  BY InitIInv, <1>1, PTL DEF Spec

(***************************************************************************)
(* Pointer and flags of a document agree in every reachable state.         *)
(***************************************************************************)
THEOREM PointerAndFlagAgree == Spec => []CurrentVersionAgrees
  BY IngestionInvariant, PTL DEF IInv

(***************************************************************************)
(* A version's chunks and event are stored exactly once, with the version. *)
(***************************************************************************)
THEOREM VersionsPublishedOnce == Spec => []PublishedOnce
  BY IngestionInvariant, PTL DEF IInv

(***************************************************************************)
(* Checkpoints stand for stored versions with stored raw bytes.            *)
(***************************************************************************)
THEOREM CheckpointsAreDurable == Spec => []CheckpointIsDurable
  BY IngestionInvariant, PTL DEF IInv

(***************************************************************************)
(* What ingest_file answers was current at some moment of the call.        *)
(***************************************************************************)
THEOREM AnswersWereCurrent == Spec => []AnsweredWasCurrent
  BY IngestionInvariant, PTL DEF IInv

(***************************************************************************)
(* No step removes a version or a checkpoint.                              *)
(***************************************************************************)
THEOREM VersionsAppendOnly == Spec => VersionsAreKept
<1> DEFINE Kept == \A f \in Files : /\ versions[f] \subseteq versions'[f]
                                    /\ checkpoint[f] \subseteq checkpoint'[f]
<1>1. IInv /\ [Next]_vars => [Kept]_vars
  <2> SUFFICES ASSUME IInv, Next PROVE Kept
    OBVIOUS
  <2>1. ASSUME NEW j \in Jobs, Commit(j) PROVE Kept
    BY <2>1 DEF Commit, IInv, TypeOK
  <2>2. ASSUME NEW j \in Jobs, CommitHit(j) PROVE Kept
    BY <2>2 DEF CommitHit, IInv, TypeOK, tableVars
  <2>3. ASSUME NEW j \in Jobs, Upsert(j) \/ PutRaw(j) \/ Fail(j) \/ LookUpRaw(j)
                 \/ GetCheckpoint(j) \/ Resume(j) \/ FindExisting(j) \/ Report(j)
        PROVE  Kept
    BY <2>3 DEF Upsert, PutRaw, Fail, LookUpRaw, GetCheckpoint, Resume, FindExisting,
                Report, tableVars
  <2>4. ASSUME NEW f \in Files, DeleteDocument(f) PROVE Kept
    BY <2>4 DEF DeleteDocument
  <2>5. ASSUME Register \/ Deactivate \/ (\E f \in Files, c \in Checksums : EditFile(f, c))
                 \/ (\E j \in Jobs, f \in Files : Start(j, f))
        PROVE  Kept
    BY <2>5 DEF Register, Deactivate, EditFile, Start, tableVars
  <2> QED
    BY <2>1, <2>2, <2>3, <2>4, <2>5 DEF Next, JobStep
<1> QED
  BY <1>1, IngestionInvariant, PTL DEF Spec, VersionsAreKept
=============================================================================
