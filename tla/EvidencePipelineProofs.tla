------------------------ MODULE EvidencePipelineProofs ------------------------
(***************************************************************************)
(* What TLAPS proves of EvidencePipeline, for any number of requests,      *)
(* workers, cleanup batches and objects, and for any kinds of failure.     *)
(***************************************************************************)
EXTENDS EvidencePipeline, TLAPS

(* The values that actions build keep their types.                         *)

LEMMA TouchedType ==
  ASSUME NEW s \in Rows, clock \in Nat
  PROVE  Touched(s) \in Rows
<1>1. s.version + 1 \in Nat BY DEF Rows
<1>2. [s EXCEPT !.version = @ + 1] \in Rows BY <1>1 DEF Rows
<1> QED BY <1>2 DEF Touched, Rows

LEMMA AbortType ==
  ASSUME NEW r
  PROVE  Abort(r) \in {"release", "done"}
BY DEF Abort

LEMMA GotoType ==
  ASSUME UploadsTypeOK, NEW r \in Requests, NEW pc \in Pcs, Goto(r, pc)
  PROVE  UploadsTypeOK'
BY DEF UploadsTypeOK, Goto, ReqStates

LEMMA SnapshotType ==
  ASSUME UploadsTypeOK, row \in Rows, NEW r \in Requests, NEW pc \in Pcs,
         NEW op \in Ops \cup {"none", "complete"}, Snapshot(r, op, pc)
  PROVE  UploadsTypeOK'
BY DEF UploadsTypeOK, Snapshot, ReqStates, Rows

LEMMA AddedType ==
  ASSUME queue \in [JobIds -> Jobs], NEW j \in JobIds
  PROVE  Added(j) \in [JobIds -> Jobs]
BY DEF Added, Jobs

LEMMA RemovedType ==
  ASSUME store \in [Keys -> Bytes \cup {NoBytes}], NEW k \in Keys
  PROVE  Removed(k) \in [Keys -> Bytes \cup {NoBytes}]
BY DEF Removed

-----------------------------------------------------------------------------
LEMMA TypeInit == Init => TypeOK
BY BoundsAssumption, IdentityAssumption, OpsAssumption
   DEF Init, SharedInit, UploadsInit, CleanupInit, ProcessingInit, TypeOK, SharedTypeOK,
       UploadsTypeOK, CleanupTypeOK, ProcessingTypeOK, Rows, Jobs, JobIds, Keys, Status,
       Stamp, ReqStates, Pcs, ClaimedPcs, SecurePcs, CleanerStates, WorkerStates, Extracted

LEMMA BeginType ==
  ASSUME TypeOK, NEW r \in Requests, BeginRequest(r)
  PROVE  SharedTypeOK' /\ UploadsTypeOK'
<1> USE DEF TypeOK
<1>1. CASE Create(r)
  <2>1. [row EXCEPT !.status = "UPLOADED", !.presignedAt = clock] \in Rows
    BY DEF SharedTypeOK, Rows, Status, Stamp
  <2>2. row' \in Rows BY <1>1, <2>1, TouchedType DEF Create, Reserved, SharedTypeOK
  <2>3. UploadsTypeOK'
    BY <1>1, SnapshotType DEF Create, Starts, SharedTypeOK, Pcs
  <2> QED BY <1>1, <2>2, <2>3 DEF Create, SharedTypeOK
<1>2. CASE Import(r)
  <2>1. [row EXCEPT !.status = "UPLOADED", !.presignedAt = Never] \in Rows
    BY DEF SharedTypeOK, Rows, Status, Stamp
  <2>2. row' \in Rows BY <1>2, <2>1, TouchedType DEF Import, Reserved, SharedTypeOK
  <2>3. UploadsTypeOK'
    BY <1>2, SnapshotType DEF Import, Starts, SharedTypeOK, Pcs
  <2> QED BY <1>2, <2>2, <2>3 DEF Import, SharedTypeOK
<1>3. CASE ReadForComplete(r)
  <2>1. UploadsTypeOK'
    BY <1>3, SnapshotType DEF ReadForComplete, SharedTypeOK, Pcs
  <2> QED BY <1>3, <2>1 DEF ReadForComplete, SharedTypeOK, sharedVars
<1>4. CASE ReadForReprocess(r)
  <2>1. UploadsTypeOK'
    BY <1>4, SnapshotType DEF ReadForReprocess, Starts, SharedTypeOK, Pcs, ClaimedPcs, SecurePcs
  <2> QED BY <1>4, <2>1 DEF ReadForReprocess, SharedTypeOK, sharedVars
<1>5. CASE ReadForRemove(r)
  <2>1. UploadsTypeOK'
    BY <1>5, SnapshotType DEF ReadForRemove, Starts, SharedTypeOK, Pcs
  <2> QED BY <1>5, <2>1 DEF ReadForRemove, SharedTypeOK, sharedVars
<1> QED BY <1>1, <1>2, <1>3, <1>4, <1>5 DEF BeginRequest

(* A step that rewrites the row, the store or the queue and moves on.      *)
LEMMA RowStepType ==
  ASSUME TypeOK, NEW s \in Rows, row' = Touched(s) \/ row' = s \/ row' = row,
         UNCHANGED <<store, queue, clock, signatures, passed>>
  PROVE  SharedTypeOK'
<1>1. Touched(s) \in Rows BY TouchedType DEF TypeOK, SharedTypeOK
<1> QED BY <1>1 DEF TypeOK, SharedTypeOK

LEMMA StoreStepType ==
  ASSUME TypeOK, store' \in [Keys -> Bytes \cup {NoBytes}],
         UNCHANGED <<row, queue, clock, signatures, passed>>
  PROVE  SharedTypeOK'
BY DEF TypeOK, SharedTypeOK

LEMMA QueueStepType ==
  ASSUME TypeOK, queue' \in [JobIds -> Jobs],
         UNCHANGED <<row, store, clock, signatures, passed>>
  PROVE  SharedTypeOK'
BY DEF TypeOK, SharedTypeOK

LEMMA SharedUnchangedType == TypeOK /\ UNCHANGED sharedVars => SharedTypeOK'
BY DEF TypeOK, SharedTypeOK, sharedVars

LEMMA RequestStepType ==
  ASSUME TypeOK, NEW r \in Requests, RequestStep(r) \/ CrashRequest(r)
  PROVE  SharedTypeOK' /\ UploadsTypeOK'
<1>a. /\ UploadsTypeOK /\ row \in Rows /\ store \in [Keys -> Bytes \cup {NoBytes}]
      /\ queue \in [JobIds -> Jobs] /\ passed \subseteq Bytes /\ clock \in Nat
      /\ req[r].key \in Keys /\ req[r].etag \in Bytes \cup {NoBytes}
  BY DEF TypeOK, SharedTypeOK, UploadsTypeOK, ReqStates
<1>b. {"idle", "write", "undo", "read", "claim", "mark", "erase", "drop", "done",
       "head", "reject", "block", "purge", "scan", "copy", "point", "sweep", "hash",
       "enqueue", "release"} = Pcs
  BY DEF Pcs, ClaimedPcs, SecurePcs
<1>c. Abort(r) \in Pcs BY <1>b, AbortType
<1>d. \A k \in Keys : Removed(k) \in [Keys -> Bytes \cup {NoBytes}] BY <1>a, RemovedType
<1>1. CASE WriteImport(r)
  <2>1. store' \in [Keys -> Bytes \cup {NoBytes}]
    BY <1>1, <1>a, BytesAssumption DEF WriteImport
  <2>2. UploadsTypeOK' BY <1>1, <1>a, <1>b, GotoType DEF WriteImport
  <2> QED BY <1>1, <2>1, <2>2, StoreStepType DEF WriteImport
<1>2. CASE UndoImport(r)
  <2>1. store' \in [Keys -> Bytes \cup {NoBytes}]
    BY <1>2, <1>a, <1>d DEF UndoImport, Keys
  <2>2. UploadsTypeOK' BY <1>2, <1>a, <1>b, GotoType DEF UndoImport
  <2>3. row' \in Rows BY <1>2, <1>a DEF UndoImport, Rows, Status
  <2> QED BY <1>2, <2>1, <2>2, <2>3 DEF UndoImport, TypeOK, SharedTypeOK
<1>3. CASE ReadForComplete(r)
  <2>1. UploadsTypeOK' BY <1>3, <1>a, <1>b, SnapshotType DEF ReadForComplete
  <2> QED BY <1>3, <2>1, SharedUnchangedType DEF ReadForComplete
<1>4. CASE Claim(r)
  <2>1. [row EXCEPT !.status = "PROCESSING"] \in Rows BY <1>a DEF Rows, Status
  <2>2. UploadsTypeOK' BY <1>4, <1>a, <1>b, GotoType DEF Claim
  <2> QED BY <1>4, <2>1, <2>2, RowStepType DEF Claim
<1>5. CASE Release(r)
  <2>1. [row EXCEPT !.status = "UPLOADED"] \in Rows BY <1>a DEF Rows, Status
  <2>2. UploadsTypeOK' BY <1>5, <1>a, <1>b, GotoType DEF Release
  <2> QED BY <1>5, <2>1, <2>2, RowStepType DEF Release
<1>6. CASE Mark(r)
  <2>1. [row EXCEPT !.status = "PROCESSING"] \in Rows BY <1>a DEF Rows, Status
  <2>2. UploadsTypeOK' BY <1>6, <1>a, <1>b, GotoType DEF Mark
  <2> QED BY <1>6, <2>1, <2>2, RowStepType DEF Mark
<1>7. CASE HeadObject(r)
  <2>1. UploadsTypeOK'
    <3>1. CASE /\ store[req[r].key] \in ValidBytes
               /\ req' = [req EXCEPT ![r].pc = "scan", ![r].etag = store[req[r].key]]
      <4> DEFINE q == [req[r] EXCEPT !.pc = "scan", !.etag = store[req[r].key]]
      <4>a. req[r] \in ReqStates /\ "scan" \in Pcs /\ store[req[r].key] \in Bytes
        BY <3>1, <1>a, <1>b, BytesAssumption DEF UploadsTypeOK
      <4>1. q \in ReqStates BY <4>a DEF ReqStates
      <4>2. req' = [req EXCEPT ![r] = q] BY <3>1, <1>a DEF UploadsTypeOK
      <4> QED BY <4>1, <4>2, <1>a DEF UploadsTypeOK
    <3>2. CASE \E pc \in Pcs : Goto(r, pc) BY <3>2, <1>a, GotoType
    <3> QED BY <1>7, <1>b, <1>c, <3>1, <3>2 DEF HeadObject
  <2> QED BY <1>7, <2>1, SharedUnchangedType DEF HeadObject
<1>8. CASE Quarantine(r)
  <2>1. [row EXCEPT !.status = "FAILED", !.quarantinedAt = clock] \in Rows
    BY <1>a DEF Rows, Status, Stamp
  <2>2. UploadsTypeOK' BY <1>8, <1>a, <1>b, <1>c, GotoType DEF Quarantine
  <2> QED BY <1>8, <2>1, <2>2, RowStepType DEF Quarantine
<1>9. CASE Purge(r)
  <2>1. store' \in [Keys -> Bytes \cup {NoBytes}] BY <1>9, <1>a, <1>d DEF Purge
  <2>2. UploadsTypeOK' BY <1>9, <1>a, <1>c, GotoType DEF Purge
  <2> QED BY <1>9, <2>1, <2>2, StoreStepType DEF Purge
<1>10. CASE Scan(r)
  <2>1. UploadsTypeOK' BY <1>10, <1>a, <1>b, <1>c, GotoType DEF Scan
  <2>2. passed' \subseteq Bytes
    <3>1. signatures \subseteq Bytes
      BY BytesAssumption DEF TypeOK, SharedTypeOK
    <3> QED BY <1>10, <1>a DEF Scan
  <2> QED BY <1>10, <2>1, <2>2 DEF Scan, TypeOK, SharedTypeOK
<1>11. CASE Copy(r)
  <2>1. store' \in [Keys -> Bytes \cup {NoBytes}] BY <1>11, <1>a DEF Copy, Keys
  <2>2. UploadsTypeOK' BY <1>11, <1>a, <1>b, <1>c, GotoType DEF Copy
  <2> QED BY <1>11, <2>1, <2>2, StoreStepType DEF Copy
<1>12. CASE PointToVerified(r)
  <2>1. [row EXCEPT !.key = "verified"] \in Rows BY <1>a DEF Rows, Keys
  <2>2. UploadsTypeOK' BY <1>12, <1>a, <1>b, <1>c, GotoType DEF PointToVerified
  <2> QED BY <1>12, <2>1, <2>2, RowStepType DEF PointToVerified
<1>13. CASE SweepStaging(r)
  <2>1. store' \in [Keys -> Bytes \cup {NoBytes}] BY <1>13, <1>a, <1>d DEF SweepStaging
  <2>2. UploadsTypeOK' BY <1>13, <1>a, <1>b, GotoType DEF SweepStaging
  <2> QED BY <1>13, <2>1, <2>2, StoreStepType DEF SweepStaging
<1>14. CASE RecordHash(r)
  <2>1. [row EXCEPT !.sha = req[r].etag] \in Rows BY <1>a DEF Rows
  <2>2. UploadsTypeOK' BY <1>14, <1>a, <1>b, <1>c, GotoType DEF RecordHash
  <2> QED BY <1>14, <2>1, <2>2, RowStepType DEF RecordHash
<1>15. CASE Enqueue(r)
  <2>1. \A j \in JobIds : Added(j) \in [JobIds -> Jobs] BY <1>a, AddedType
  <2>2. queue' \in [JobIds -> Jobs] BY <1>15, <1>a, <2>1 DEF Enqueue, JobIds
  <2>3. UploadsTypeOK' BY <1>15, <1>a, <1>b, <1>c, GotoType DEF Enqueue
  <2> QED BY <1>15, <2>2, <2>3, QueueStepType DEF Enqueue
<1>16. CASE EraseObjects(r)
  <2>1. store' \in [Keys -> Bytes \cup {NoBytes}] BY <1>16, <1>a, <1>d DEF EraseObjects
  <2>2. UploadsTypeOK' BY <1>16, <1>a, <1>b, GotoType DEF EraseObjects
  <2> QED BY <1>16, <2>1, <2>2, StoreStepType DEF EraseObjects
<1>17. CASE DropRow(r)
  <2>1. [row EXCEPT !.status = "DELETED"] \in Rows BY <1>a DEF Rows, Status
  <2>2. UploadsTypeOK' BY <1>17, <1>a, <1>b, GotoType DEF DropRow
  <2> QED BY <1>17, <2>1, <2>2, RowStepType DEF DropRow
<1>18. CASE CrashRequest(r)
  <2>1. UploadsTypeOK' BY <1>18, <1>a, <1>b, GotoType DEF CrashRequest
  <2> QED BY <1>18, <2>1, SharedUnchangedType DEF CrashRequest
<1> QED
  BY <1>1, <1>2, <1>3, <1>4, <1>5, <1>6, <1>7, <1>8, <1>9, <1>10, <1>11, <1>12, <1>13,
     <1>14, <1>15, <1>16, <1>17, <1>18 DEF RequestStep

LEMMA CleanerStepType ==
  ASSUME TypeOK, NEW c \in Cleaners, CleanerStep(c) \/ CrashCleaner(c)
  PROVE  SharedTypeOK' /\ CleanupTypeOK'
<1>a. /\ cleaner \in [Cleaners -> CleanerStates] /\ row \in Rows /\ clock \in Nat
      /\ store \in [Keys -> Bytes \cup {NoBytes}]
      /\ cleaner[c] \in CleanerStates /\ cleaner[c].now \in Stamp
  BY DEF TypeOK, SharedTypeOK, CleanupTypeOK, CleanerStates, Stamp
<1>b. \A pc \in {"idle", "claim", "delete", "record", "remove"} :
        CleanerGoto(c, pc) => CleanupTypeOK'
  BY <1>a DEF CleanerGoto, CleanupTypeOK, CleanerStates
<1>1. CASE SelectAbandoned(c)
  <2>1. CleanupTypeOK' BY <1>1, <1>a DEF SelectAbandoned, CleanupTypeOK, CleanerStates, Rows
  <2> QED BY <1>1, <2>1, SharedUnchangedType DEF SelectAbandoned
<1>2. CASE ClaimExpired(c)
  <2> DEFINE expired == IF row.expiredAt = Never THEN cleaner[c].now ELSE row.expiredAt
             seen == IF cleaner[c].expiredAt = Never THEN cleaner[c].now
                                                     ELSE cleaner[c].expiredAt
  <2>1. expired \in Stamp /\ seen \in Stamp BY <1>a DEF Rows, CleanerStates
  <2>2. [row EXCEPT !.status = "FAILED", !.cleanupAt = cleaner[c].now,
                    !.expiredAt = expired] \in Rows
    BY <1>a, <2>1 DEF Rows, Status
  <2>3. CleanupTypeOK'
    <3>1. CASE cleaner' = [cleaner EXCEPT ![c].pc = "delete", ![c].expiredAt = seen]
      <4> DEFINE q == [cleaner[c] EXCEPT !.pc = "delete", !.expiredAt = seen]
      <4>1. q \in CleanerStates BY <1>a, <2>1 DEF CleanerStates
      <4>2. cleaner' = [cleaner EXCEPT ![c] = q] BY <3>1, <1>a
      <4> QED BY <4>1, <4>2, <1>a DEF CleanupTypeOK
    <3> QED BY <1>2, <1>b, <3>1 DEF ClaimExpired
  <2> QED BY <1>2, <2>2, <2>3, RowStepType DEF ClaimExpired, Expired
<1>3. CASE DeleteStaging(c)
  <2>1. store' \in [Keys -> Bytes \cup {NoBytes}]
    BY <1>3, <1>a, RemovedType DEF DeleteStaging, Keys
  <2> QED BY <1>3, <1>b, <2>1, StoreStepType DEF DeleteStaging
<1>4. CASE RecordCleanupFailure(c)
  BY <1>4, <1>a, <1>b, RowStepType DEF RecordCleanupFailure
<1>5. CASE RemoveExpired(c)
  <2>1. [row EXCEPT !.status = "DELETED"] \in Rows BY <1>a DEF Rows, Status
  <2> QED BY <1>5, <1>b, <2>1, RowStepType DEF RemoveExpired
<1>6. CASE CrashCleaner(c)
  BY <1>6, <1>b, SharedUnchangedType DEF CrashCleaner
<1> QED BY <1>1, <1>2, <1>3, <1>4, <1>5, <1>6 DEF CleanerStep

LEMMA ProcessingType ==
  ASSUME TypeOK, ProcessingNext
  PROVE  SharedTypeOK' /\ ProcessingTypeOK'
<1>a. /\ worker \in [Workers -> WorkerStates] /\ row \in Rows /\ clock \in Nat
      /\ queue \in [JobIds -> Jobs]
  BY DEF TypeOK, SharedTypeOK, ProcessingTypeOK
<1>b. \A w \in Workers :
        \A pc \in {"idle", "find", "start", "extract", "finish", "fail", "ack", "nack"} :
          WorkerGoto(w, pc) => ProcessingTypeOK'
  BY <1>a DEF WorkerGoto, ProcessingTypeOK, WorkerStates
<1>1. ASSUME NEW w \in Workers, NEW j \in JobIds, TakeJob(w, j)
      PROVE  SharedTypeOK' /\ ProcessingTypeOK'
  <2>1. queue' \in [JobIds -> Jobs]
    <3> DEFINE q == [queue[j] EXCEPT !.state = "active", !.owner = w]
    <3>1. q \in Jobs BY <1>a, <1>1 DEF Jobs
    <3>2. queue' = [queue EXCEPT ![j] = q] BY <1>1, <1>a DEF TakeJob
    <3> QED BY <3>1, <3>2, <1>a
  <2>2. ProcessingTypeOK'
    <3> DEFINE q == [worker[w] EXCEPT !.pc = "find", !.job = j]
    <3>1. q \in WorkerStates BY <1>a, <1>1 DEF WorkerStates
    <3>2. worker' = [worker EXCEPT ![w] = q] BY <1>1, <1>a DEF TakeJob
    <3> QED BY <3>1, <3>2, <1>a DEF ProcessingTypeOK
  <2> QED BY <1>1, <2>1, <2>2, QueueStepType DEF TakeJob
<1>2. ASSUME NEW w \in Workers, NEW job \in Jobs, Settle(w, job)
      PROVE  SharedTypeOK' /\ ProcessingTypeOK'
  <2>1. worker[w].job \in JobIds BY <1>a, <1>2 DEF WorkerStates
  <2>2. queue' \in [JobIds -> Jobs] BY <1>2, <1>a, <2>1 DEF Settle
  <2> QED BY <1>2, <1>b, <2>2, QueueStepType DEF Settle
<1>3. ASSUME NEW w \in Workers, Complete(w) PROVE SharedTypeOK' /\ ProcessingTypeOK'
  <2>1. [queue[worker[w].job] EXCEPT !.state = "completed", !.owner = NoWorker] \in Jobs
    <3>1. queue[worker[w].job] \in Jobs BY <1>a, <1>3 DEF WorkerStates
    <3> QED BY <3>1 DEF Jobs
  <2> QED BY <1>2, <1>3, <2>1 DEF Complete
<1>4. ASSUME NEW w \in Workers, Retry(w) PROVE SharedTypeOK' /\ ProcessingTypeOK'
  <2>1. \A job \in Jobs : Retried(job) \in Jobs
    <3> SUFFICES ASSUME NEW job \in Jobs PROVE Retried(job) \in Jobs OBVIOUS
    <3>1. job.attempts + 1 \in Nat BY DEF Jobs
    <3>2. [job EXCEPT !.attempts = @ + 1] \in Jobs BY <3>1 DEF Jobs
    <3> QED BY <3>1, <3>2 DEF Retried, Jobs
  <2>2. queue[worker[w].job] \in Jobs BY <1>a, <1>4 DEF WorkerStates
  <2>3. Retried(queue[worker[w].job]) \in Jobs BY <2>1, <2>2
  <2> QED BY <1>2, <1>4, <2>3 DEF Retry
<1>5. ASSUME NEW w \in Workers, LoseLock(w) PROVE SharedTypeOK' /\ ProcessingTypeOK'
  <2>1. queue' \in [JobIds -> Jobs] BY <1>5, <1>a DEF LoseLock, WorkerStates, Jobs
  <2> QED BY <1>5, <1>a, <2>1, QueueStepType DEF LoseLock, ProcessingTypeOK
<1>6. ASSUME NEW j \in JobIds, StallCheck(j) PROVE SharedTypeOK' /\ ProcessingTypeOK'
  <2>1. queue' \in [JobIds -> Jobs]
    <3> DEFINE next == IF queue[j].stalls < MaxStalls THEN "waiting" ELSE "failed"
               q == [queue[j] EXCEPT !.stalls = @ + 1, !.state = next]
    <3>1. queue[j] \in Jobs BY <1>a, <1>6
    <3>2. queue[j].stalls + 1 \in Nat BY <3>1 DEF Jobs
    <3>3. q \in Jobs BY <3>1, <3>2 DEF Jobs
    <3>4. queue' = [queue EXCEPT ![j] = q] BY <1>6, <1>a DEF StallCheck
    <3> QED BY <3>3, <3>4, <1>a
  <2> QED BY <1>6, <1>a, <2>1, QueueStepType DEF StallCheck, ProcessingTypeOK
<1>7. ASSUME NEW w \in Workers, FindDocument(w) PROVE SharedTypeOK' /\ ProcessingTypeOK'
  <2>1. ProcessingTypeOK'
    <3> DEFINE q == [worker[w] EXCEPT !.pc = "start", !.key = row.key]
    <3>1. CASE worker' = [worker EXCEPT ![w].pc = "start", ![w].key = row.key]
      <4>1. row.key \in Keys BY <1>a DEF Rows
      <4>2. q \in WorkerStates BY <1>a, <1>7, <4>1 DEF WorkerStates
      <4>3. worker' = [worker EXCEPT ![w] = q] BY <3>1, <1>a
      <4> QED BY <4>2, <4>3, <1>a DEF ProcessingTypeOK
    <3> QED BY <1>7, <1>b, <3>1 DEF FindDocument
  <2> QED BY <1>7, <2>1, SharedUnchangedType DEF FindDocument
<1>8. ASSUME NEW w \in Workers, StartProcessing(w) PROVE SharedTypeOK' /\ ProcessingTypeOK'
  <2>1. [row EXCEPT !.status = "PROCESSING"] \in Rows BY <1>a DEF Rows, Status
  <2>2. ProcessingTypeOK' BY <1>8, <1>b DEF StartProcessing
  <2> QED BY <1>8, <2>1, <2>2, RowStepType DEF StartProcessing
<1>9. ASSUME NEW w \in Workers, Extract(w) PROVE SharedTypeOK' /\ ProcessingTypeOK'
  <2>1. ProcessingTypeOK'
    <3>1. ASSUME NEW s \in Extracted,
                 worker' = [worker EXCEPT ![w].pc = "finish", ![w].result = s]
          PROVE  ProcessingTypeOK'
      <4> DEFINE q == [worker[w] EXCEPT !.pc = "finish", !.result = s]
      <4>1. q \in WorkerStates BY <1>a, <1>9 DEF WorkerStates
      <4>2. worker' = [worker EXCEPT ![w] = q] BY <3>1, <1>a
      <4> QED BY <4>1, <4>2, <1>a DEF ProcessingTypeOK
    <3> QED BY <1>9, <1>b, <3>1 DEF Extract
  <2> QED BY <1>9, <2>1, SharedUnchangedType DEF Extract
<1>10. ASSUME NEW w \in Workers, FinishProcessing(w)
       PROVE  SharedTypeOK' /\ ProcessingTypeOK'
  <2>1. worker[w].result \in Status BY <1>a, <1>10 DEF WorkerStates, Status
  <2>2. [row EXCEPT !.status = worker[w].result] \in Rows BY <1>a, <2>1 DEF Rows
  <2>3. ProcessingTypeOK' BY <1>10, <1>b DEF FinishProcessing
  <2> QED BY <1>10, <2>2, <2>3, RowStepType DEF FinishProcessing
<1>11. ASSUME NEW w \in Workers, RecordProcessingFailure(w)
       PROVE  SharedTypeOK' /\ ProcessingTypeOK'
  <2>1. [row EXCEPT !.status = "FAILED"] \in Rows BY <1>a DEF Rows, Status
  <2>2. ProcessingTypeOK' BY <1>11, <1>b DEF RecordProcessingFailure
  <2> QED BY <1>11, <2>1, <2>2, RowStepType DEF RecordProcessingFailure
<1>12. ASSUME NEW w \in Workers, CrashWorker(w) PROVE SharedTypeOK' /\ ProcessingTypeOK'
  <2>1. queue' \in [JobIds -> Jobs] BY <1>12, <1>a DEF CrashWorker, WorkerStates, Jobs
  <2> QED BY <1>12, <1>b, <2>1, QueueStepType DEF CrashWorker
<1> QED
  BY <1>1, <1>3, <1>4, <1>5, <1>6, <1>7, <1>8, <1>9, <1>10, <1>11, <1>12
     DEF ProcessingNext, WorkerStep

LEMMA TypeNext == TypeOK /\ [Next]_vars => TypeOK'
<1> SUFFICES ASSUME TypeOK, [Next]_vars PROVE TypeOK' OBVIOUS
<1>1. CASE Environment
  BY <1>1 DEF Environment, Tick, UpdateSignatures, TypeOK, SharedTypeOK, UploadsTypeOK,
              CleanupTypeOK, ProcessingTypeOK
<1>2. CASE UploadsNext /\ UNCHANGED <<cleaner, worker>>
  <2>1. CASE ClientPut
    <3>1. store' \in [Keys -> Bytes \cup {NoBytes}]
      BY <2>1 DEF ClientPut, TypeOK, SharedTypeOK
    <3> QED BY <1>2, <2>1, <3>1, StoreStepType
            DEF ClientPut, TypeOK, UploadsTypeOK, CleanupTypeOK, ProcessingTypeOK
  <2>2. ASSUME NEW r \in Requests, BeginRequest(r) \/ RequestStep(r) \/ CrashRequest(r)
        PROVE  SharedTypeOK' /\ UploadsTypeOK'
    BY <2>2, BeginType, RequestStepType
  <2> QED BY <1>2, <2>1, <2>2 DEF UploadsNext, TypeOK, CleanupTypeOK, ProcessingTypeOK
<1>3. CASE CleanupNext /\ UNCHANGED <<req, worker>>
  BY <1>3, CleanerStepType DEF CleanupNext, TypeOK, UploadsTypeOK, ProcessingTypeOK
<1>4. CASE ProcessingNext /\ UNCHANGED <<req, cleaner>>
  BY <1>4, ProcessingType DEF TypeOK, UploadsTypeOK, CleanupTypeOK
<1>5. CASE UNCHANGED vars
  BY <1>5 DEF vars, TypeOK, SharedTypeOK, UploadsTypeOK, CleanupTypeOK, ProcessingTypeOK
<1> QED BY <1>1, <1>2, <1>3, <1>4, <1>5 DEF Next

(* Every variable keeps its type.                                          *)
THEOREM TypeCorrect == Spec => []TypeOK
BY TypeInit, TypeNext, PTL DEF Spec

-----------------------------------------------------------------------------
(***************************************************************************)
(* The safety properties.  Every actor but the one that moves relies on    *)
(* the row only moving forward; that is shown once, for every action.      *)
(***************************************************************************)

(* The row as a step may change it.                                        *)
Forward ==
  /\ row'.status = "ABSENT" => row.status = "ABSENT"
  /\ row.status # "ABSENT" => row'.status # "ABSENT"
  /\ row.key = "verified" => row'.key = "verified"
  /\ Gone => Gone'
  /\ row.sha # NoBytes => row'.sha # NoBytes
  /\ row.quarantinedAt # Never => row'.quarantinedAt # Never
  /\ row.version <= row'.version
  /\ row'.version = row.version => row'.touched = row.touched
  /\ row'.key # row.key => row.status \notin {"ABSENT", "DELETED"}
  /\ row'.expiredAt # row.expiredAt
       => /\ row.expiredAt = Never /\ row.key = "staging"
          /\ row.status \notin {"ABSENT", "DELETED"} /\ row'.status = "FAILED"

(* What the actions write to the row.                                      *)
LEMMA TouchedFields ==
  ASSUME NEW s \in Rows
  PROVE  /\ Touched(s).status = s.status /\ Touched(s).key = s.key
         /\ Touched(s).quarantinedAt = s.quarantinedAt
         /\ Touched(s).expiredAt = s.expiredAt /\ Touched(s).cleanupAt = s.cleanupAt
         /\ Touched(s).sha = s.sha
         /\ Touched(s).version = s.version + 1 /\ Touched(s).touched = clock
BY DEF Touched, Rows

LEMMA StatusWritten ==
  ASSUME row \in Rows, NEW s \in Status, row' = Touched([row EXCEPT !.status = s])
  PROVE  /\ row'.status = s /\ row'.key = row.key /\ row'.expiredAt = row.expiredAt
         /\ row'.sha = row.sha /\ row'.version = row.version + 1
         /\ row'.quarantinedAt = row.quarantinedAt
<1>1. [row EXCEPT !.status = s] \in Rows BY DEF Rows
<1> QED BY <1>1, TouchedFields DEF Rows

LEMMA RowDropped ==
  ASSUME row \in Rows, row' = [row EXCEPT !.status = "DELETED"]
  PROVE  /\ row'.status = "DELETED" /\ row'.key = row.key /\ row'.expiredAt = row.expiredAt
         /\ row'.sha = row.sha /\ row'.version = row.version /\ row'.touched = row.touched
         /\ row'.quarantinedAt = row.quarantinedAt
BY DEF Rows

LEMMA RowMovesForward ==
  ASSUME IInv, TypeOK', [Next]_vars
  PROVE  Forward
<1>a. /\ row \in Rows /\ row.version \in Nat /\ row' \in Rows /\ clock \in Nat
      /\ row.status \in Status
  BY DEF IInv, TypeOK, SharedTypeOK, Rows
<1>b. {"ABSENT", "UPLOADED", "PROCESSING", "FAILED", "DELETED", "PROCESSED",
       "NEEDS_REVIEW"} = Status
  BY DEF Status, Extracted
<1>c. ASSUME UNCHANGED row PROVE Forward BY <1>c, <1>a DEF Forward, Gone
<1>d. ASSUME NEW s \in Status, s # "ABSENT", row.status \notin {"ABSENT", "DELETED"},
             row' = Touched([row EXCEPT !.status = s])
      PROVE  Forward
  BY <1>a, <1>d, StatusWritten DEF Forward, Gone
<1>e. ASSUME row.status # "ABSENT", row' = [row EXCEPT !.status = "DELETED"]
      PROVE  Forward
  BY <1>a, <1>e, RowDropped DEF Forward, Gone
<1>1. ASSUME NEW r \in Requests, BeginRequest(r) PROVE Forward
  <2>1. ASSUME NEW t \in Stamp, row.status = "ABSENT", row' = Reserved(t)
        PROVE  Forward
    <3> DEFINE s == [row EXCEPT !.status = "UPLOADED", !.presignedAt = t]
    <3>1. s \in Rows /\ s.status = "UPLOADED" /\ s.key = row.key /\ s.sha = row.sha
          /\ s.version = row.version /\ s.quarantinedAt = row.quarantinedAt
            /\ s.expiredAt = row.expiredAt
      BY <1>a, <1>b, <2>1 DEF Rows
    <3>2. row' = Touched(s) BY <2>1 DEF Reserved
    <3> HIDE DEF s
    <3> QED BY <1>a, <2>1, <3>1, <3>2, TouchedFields DEF Forward, Gone
  <2> QED BY <1>1, <1>a, <1>c, <2>1
          DEF BeginRequest, Create, Import, Starts, ReadForComplete, ReadForReprocess,
              ReadForRemove, sharedVars, Stamp
<1>2. ASSUME NEW r \in Requests, RequestStep(r) PROVE Forward
  <2>1. CASE UndoImport(r) BY <1>c, <1>e, <2>1 DEF UndoImport, Exists
  <2>2. CASE Claim(r) BY <1>b, <1>c, <1>d, <2>2 DEF Claim, Claimable
  <2>3. CASE Release(r) BY <1>b, <1>c, <1>d, <2>3 DEF Release, Releasable
  <2>4. CASE Mark(r) BY <1>b, <1>c, <1>d, <2>4 DEF Mark, Marks, Exists
  <2>5. CASE Quarantine(r)
    <3>1. ASSUME Exists,
                 row' = Touched([row EXCEPT !.status = "FAILED", !.quarantinedAt = clock])
          PROVE  Forward
      <4> DEFINE s == [row EXCEPT !.status = "FAILED", !.quarantinedAt = clock]
      <4>1. s \in Rows /\ s.status = "FAILED" /\ s.key = row.key /\ s.sha = row.sha
            /\ s.version = row.version /\ s.quarantinedAt # Never
            /\ s.expiredAt = row.expiredAt
        BY <1>a, <1>b, IdentityAssumption DEF Rows, Stamp
      <4>2. row' = Touched(s) BY <3>1
      <4> HIDE DEF s
      <4> QED BY <1>a, <3>1, <4>1, <4>2, TouchedFields DEF Forward, Gone, Exists
    <3> QED BY <1>c, <2>5, <3>1 DEF Quarantine
  <2>6. CASE PointToVerified(r)
    <3>1. ASSUME Exists, row' = Touched([row EXCEPT !.key = "verified"]) PROVE Forward
      <4> DEFINE s == [row EXCEPT !.key = "verified"]
      <4>1. s \in Rows /\ s.status = row.status /\ s.key = "verified" /\ s.sha = row.sha
            /\ s.version = row.version /\ s.quarantinedAt = row.quarantinedAt
            /\ s.expiredAt = row.expiredAt
        BY <1>a DEF Rows, Keys
      <4>2. row' = Touched(s) BY <3>1
      <4> HIDE DEF s
      <4> QED BY <1>a, <3>1, <4>1, <4>2, TouchedFields DEF Forward, Gone, Exists
    <3> QED BY <1>c, <2>6, <3>1 DEF PointToVerified
  <2>7. CASE RecordHash(r)
    <3>1. ASSUME Exists, row' = Touched([row EXCEPT !.sha = req[r].etag]) PROVE Forward
      <4> DEFINE s == [row EXCEPT !.sha = req[r].etag]
      <4>1. req[r].etag \in Bytes /\ req[r].etag # NoBytes
        BY <2>7, BytesAssumption DEF RecordHash, At, IInv, RequestOK
      <4>2. s \in Rows /\ s.status = row.status /\ s.key = row.key
            /\ s.sha = req[r].etag /\ s.version = row.version /\ s.quarantinedAt = row.quarantinedAt
            /\ s.expiredAt = row.expiredAt
        BY <1>a, <4>1 DEF Rows
      <4>3. row' = Touched(s) BY <3>1
      <4> HIDE DEF s
      <4> QED BY <1>a, <3>1, <4>1, <4>2, <4>3, TouchedFields DEF Forward, Gone, Exists
    <3> QED BY <1>c, <2>7, <3>1 DEF RecordHash
  <2>8. CASE DropRow(r) BY <1>c, <1>e, <2>8 DEF DropRow, Exists
  <2>9. CASE UNCHANGED row BY <1>c, <2>9
  <2> QED
    BY <1>2, <2>1, <2>2, <2>3, <2>4, <2>5, <2>6, <2>7, <2>8, <2>9
       DEF RequestStep, WriteImport, ReadForComplete, HeadObject, Purge, Scan, Copy,
           SweepStaging, Enqueue, EraseObjects, sharedVars
<1>3. ASSUME NEW c \in Cleaners, CleanerStep(c) PROVE Forward
  <2>1. CASE ClaimExpired(c)
    <3>1. CASE Unchanged(c) /\ row' = Expired(c)
      <4> DEFINE t == IF row.expiredAt = Never THEN cleaner[c].now ELSE row.expiredAt
                 s == [row EXCEPT !.status = "FAILED", !.cleanupAt = cleaner[c].now,
                                  !.expiredAt = t]
      <4>1. row.status \notin {"ABSENT", "DELETED"}
        BY <2>1, <3>1 DEF ClaimExpired, Unchanged, IInv, CleanerOK
      <4>2. cleaner[c].now \in Stamp /\ t \in Stamp
        BY <1>a DEF IInv, TypeOK, CleanupTypeOK, CleanerStates, Stamp, Rows
      <4>3. s \in Rows /\ s.status = "FAILED" /\ s.key = row.key /\ s.sha = row.sha
            /\ s.version = row.version /\ s.quarantinedAt = row.quarantinedAt
            /\ s.expiredAt = t
        BY <1>a, <1>b, <4>2 DEF Rows
      <4>4. row' = Touched(s) BY <3>1 DEF Expired
      <4>5. row.key = "staging" BY <3>1 DEF Unchanged
      <4> HIDE DEF s
      <4> QED BY <1>a, <4>1, <4>3, <4>4, <4>5, TouchedFields DEF Forward, Gone
    <3> QED BY <1>c, <2>1, <3>1 DEF ClaimExpired
  <2>2. CASE RecordCleanupFailure(c)
    <3>1. ASSUME row' = Touched(row) PROVE Forward
      BY <1>a, <3>1, TouchedFields DEF Forward, Gone
    <3> QED BY <1>c, <2>2, <3>1 DEF RecordCleanupFailure
  <2>3. CASE RemoveExpired(c) BY <1>c, <1>e, <2>3 DEF RemoveExpired, StillMine
  <2>4. CASE UNCHANGED row BY <1>c, <2>4
  <2> QED BY <1>3, <2>1, <2>2, <2>3, <2>4
          DEF CleanerStep, SelectAbandoned, DeleteStaging, sharedVars
<1>4. ASSUME NEW w \in Workers, WorkerStep(w) PROVE Forward
  <2>1. CASE StartProcessing(w) BY <1>b, <1>c, <1>d, <2>1 DEF StartProcessing, Exists
  <2>2. CASE FinishProcessing(w)
    <3>1. worker[w].result \in Status /\ worker[w].result # "ABSENT"
      BY <1>b DEF IInv, TypeOK, ProcessingTypeOK, WorkerStates, Extracted
    <3> QED BY <1>c, <1>d, <2>2, <3>1 DEF FinishProcessing, Exists
  <2>3. CASE RecordProcessingFailure(w)
    BY <1>b, <1>c, <1>d, <2>3 DEF RecordProcessingFailure, Exists
  <2>4. CASE UNCHANGED row BY <1>c, <2>4
  <2> QED BY <1>4, <2>1, <2>2, <2>3, <2>4
          DEF WorkerStep, TakeJob, Complete, Retry, Settle, FindDocument, Extract, sharedVars
<1>5. CASE UNCHANGED row BY <1>c, <1>5
<1> QED
  BY <1>1, <1>2, <1>3, <1>4, <1>5
     DEF Next, Environment, Tick, UpdateSignatures, UploadsNext, ClientPut, CrashRequest,
         CleanupNext, CrashCleaner, ProcessingNext, StallCheck, LoseLock, CrashWorker,
         sharedVars, vars

(* Which action can have changed the status, and how.                      *)
StatusCauses ==
  \/ row'.status \in {"FAILED", "DELETED"}
  \/ /\ row'.status = "UPLOADED"
     /\ row.status = "ABSENT" \/ \E r \in Requests : Release(r) /\ Releasable
  \/ /\ row'.status = "PROCESSING"
     /\ \/ \E r \in Requests : Claim(r) /\ Claimable
        \/ \E w \in Workers : StartProcessing(w) /\ Exists
  \/ row'.status \in Extracted /\ \E w \in Workers : FinishProcessing(w) /\ Exists

LEMMA StatusChanges ==
  ASSUME IInv, TypeOK', [Next]_vars, row'.status # row.status
  PROVE  StatusCauses
<1>a. row \in Rows /\ row.status \in Status BY DEF IInv, TypeOK, SharedTypeOK, Rows
<1>b. {"ABSENT", "UPLOADED", "PROCESSING", "FAILED", "DELETED", "PROCESSED",
       "NEEDS_REVIEW"} = Status
  BY DEF Status, Extracted
<1>1. ASSUME NEW r \in Requests, BeginRequest(r) PROVE StatusCauses
  <2>1. ASSUME NEW t \in Stamp, row.status = "ABSENT", row' = Reserved(t)
        PROVE  StatusCauses
    <3> DEFINE s == [row EXCEPT !.status = "UPLOADED", !.presignedAt = t]
    <3>1. s \in Rows /\ s.status = "UPLOADED" BY <1>a, <1>b, <2>1 DEF Rows
    <3>2. row' = Touched(s) BY <2>1 DEF Reserved
    <3> HIDE DEF s
    <3> QED BY <2>1, <3>1, <3>2, TouchedFields DEF StatusCauses
  <2>2. clock \in Stamp /\ Never \in Stamp
    BY DEF IInv, TypeOK, SharedTypeOK, Stamp
  <2> QED BY <1>1, <2>1, <2>2
          DEF BeginRequest, Create, Import, Starts, ReadForComplete, ReadForReprocess,
              ReadForRemove, sharedVars
<1>2. ASSUME NEW r \in Requests, RequestStep(r) PROVE StatusCauses
  <2>1. CASE UndoImport(r) BY <1>a, <2>1, RowDropped DEF UndoImport, StatusCauses
  <2>2. CASE Claim(r) BY <1>a, <1>b, <2>2, StatusWritten DEF Claim, StatusCauses
  <2>3. CASE Release(r) BY <1>a, <1>b, <2>3, StatusWritten DEF Release, StatusCauses
  <2>4. CASE Mark(r)
    <3>1. At(r, "mark") => Gone \/ req[r].version < row.version BY DEF IInv, RequestOK, At
    <3>2. req[r].version \in Nat /\ row.version \in Nat
      BY <1>a DEF IInv, TypeOK, UploadsTypeOK, ReqStates, Rows
    <3>3. ~Marks(r) BY <2>4, <3>1, <3>2 DEF Mark, Marks, Gone, Exists
    <3> QED BY <2>4, <3>3 DEF Mark
  <2>5. CASE Quarantine(r)
    <3>1. ASSUME row' = Touched([row EXCEPT !.status = "FAILED", !.quarantinedAt = clock])
          PROVE  row'.status = "FAILED"
      <4> DEFINE s == [row EXCEPT !.status = "FAILED", !.quarantinedAt = clock]
      <4>1. s \in Rows /\ s.status = "FAILED"
        BY <1>a, <1>b DEF Rows, Stamp, IInv, TypeOK, SharedTypeOK
      <4>2. row' = Touched(s) BY <3>1
      <4> HIDE DEF s
      <4> QED BY <4>1, <4>2, TouchedFields
    <3> QED BY <2>5, <3>1 DEF Quarantine, StatusCauses
  <2>6. CASE PointToVerified(r)
    <3>1. [row EXCEPT !.key = "verified"] \in Rows BY <1>a DEF Rows, Keys
    <3>2. [row EXCEPT !.key = "verified"].status = row.status BY <1>a DEF Rows
    <3> QED BY <2>6, <3>1, <3>2, TouchedFields DEF PointToVerified
  <2>7. CASE RecordHash(r)
    <3>1. req[r].etag \in Bytes \cup {NoBytes}
      BY DEF IInv, TypeOK, UploadsTypeOK, ReqStates
    <3>2. [row EXCEPT !.sha = req[r].etag] \in Rows BY <1>a, <3>1 DEF Rows
    <3>3. [row EXCEPT !.sha = req[r].etag].status = row.status BY <1>a DEF Rows
    <3> QED BY <2>7, <3>2, <3>3, TouchedFields DEF RecordHash
  <2>8. CASE DropRow(r) BY <1>a, <2>8, RowDropped DEF DropRow, StatusCauses
  <2> QED
    BY <1>2, <2>1, <2>2, <2>3, <2>4, <2>5, <2>6, <2>7, <2>8
       DEF RequestStep, WriteImport, ReadForComplete, HeadObject, Purge, Scan, Copy,
           SweepStaging, Enqueue, EraseObjects, sharedVars
<1>3. ASSUME NEW c \in Cleaners, CleanerStep(c) PROVE StatusCauses
  <2>1. CASE ClaimExpired(c)
    <3>1. ASSUME row' = Expired(c) PROVE row'.status = "FAILED"
      <4> DEFINE t == IF row.expiredAt = Never THEN cleaner[c].now ELSE row.expiredAt
                 s == [row EXCEPT !.status = "FAILED", !.cleanupAt = cleaner[c].now,
                                  !.expiredAt = t]
      <4>1. cleaner[c].now \in Stamp /\ t \in Stamp
        BY <1>a DEF IInv, TypeOK, CleanupTypeOK, CleanerStates, Stamp, Rows
      <4>2. s \in Rows /\ s.status = "FAILED" BY <1>a, <1>b, <4>1 DEF Rows
      <4>3. row' = Touched(s) BY <3>1 DEF Expired
      <4> HIDE DEF s
      <4> QED BY <4>2, <4>3, TouchedFields
    <3> QED BY <2>1, <3>1 DEF ClaimExpired, StatusCauses
  <2>2. CASE RecordCleanupFailure(c)
    BY <1>a, <2>2, TouchedFields DEF RecordCleanupFailure
  <2>3. CASE RemoveExpired(c) BY <1>a, <2>3, RowDropped DEF RemoveExpired, StatusCauses
  <2> QED BY <1>3, <2>1, <2>2, <2>3
          DEF CleanerStep, SelectAbandoned, DeleteStaging, sharedVars
<1>4. ASSUME NEW w \in Workers, WorkerStep(w) PROVE StatusCauses
  <2>1. CASE StartProcessing(w)
    BY <1>a, <1>b, <2>1, StatusWritten DEF StartProcessing, StatusCauses
  <2>2. CASE FinishProcessing(w)
    <3>1. worker[w].result \in Extracted /\ worker[w].result \in Status
      BY DEF IInv, TypeOK, ProcessingTypeOK, WorkerStates, Status
    <3> QED BY <1>a, <2>2, <3>1, StatusWritten DEF FinishProcessing, StatusCauses
  <2>3. CASE RecordProcessingFailure(w)
    BY <1>a, <1>b, <2>3, StatusWritten DEF RecordProcessingFailure, StatusCauses
  <2> QED BY <1>4, <2>1, <2>2, <2>3
          DEF WorkerStep, TakeJob, Complete, Retry, Settle, FindDocument, Extract, sharedVars
<1> QED
  BY <1>1, <1>2, <1>3, <1>4
     DEF Next, Environment, Tick, UpdateSignatures, UploadsNext, ClientPut, CrashRequest,
         CleanupNext, CrashCleaner, ProcessingNext, StallCheck, LoseLock, CrashWorker,
         sharedVars, vars

LEMMA ExpiredNext ==
  ASSUME IInv, TypeOK', [Next]_vars
  PROVE  ExpiredStaysFailed'
<1>1. Forward BY RowMovesForward
<1>2. CASE row'.expiredAt # row.expiredAt
  BY <1>1, <1>2 DEF Forward, ExpiredStaysFailed
<1>3. CASE row'.expiredAt = row.expiredAt /\ row'.status = row.status
  BY <1>3 DEF IInv, ExpiredStaysFailed
<1>4. CASE row'.expiredAt = row.expiredAt /\ row'.status # row.status
  <2> SUFFICES ASSUME row.expiredAt # Never PROVE row'.status \in {"FAILED", "DELETED"}
    BY <1>4 DEF ExpiredStaysFailed
  <2>1. row.status \in {"FAILED", "DELETED"} BY DEF IInv, ExpiredStaysFailed
  <2>2. ~Claimable /\ ~Releasable /\ row.status # "ABSENT"
    BY <2>1 DEF Claimable, Releasable
  <2>3. \A w \in Workers : StartProcessing(w) \/ FinishProcessing(w) => ~Exists
    BY DEF IInv, WorkerOK, WorkerAt, StartProcessing, FinishProcessing, Exists, Gone
  <2> QED BY <1>4, <2>2, <2>3, StatusChanges DEF StatusCauses
<1> QED BY <1>2, <1>3, <1>4

LEMMA ExtractedNext ==
  ASSUME IInv, TypeOK', [Next]_vars
  PROVE  ExtractedIsFingerprinted'
<1>1. Forward BY RowMovesForward
<1>2. row.status \in Extracted => ExtractedIsFingerprinted'
  BY <1>1 DEF Forward, IInv, ExtractedIsFingerprinted
<1>3. CASE row'.status = row.status BY <1>2, <1>3 DEF ExtractedIsFingerprinted
<1>4. CASE row'.status # row.status /\ row'.status \in Extracted
  <2>1. PICK w \in Workers : FinishProcessing(w) /\ Exists
    BY <1>4, StatusChanges DEF StatusCauses, Extracted
  <2>2. queue[worker[w].job].state # "none" /\ worker[w].job \in JobIds
    BY <2>1 DEF IInv, WorkerOK, WorkerAt, FinishProcessing, TypeOK, ProcessingTypeOK,
                WorkerStates
  <2>3. row.key = "verified" /\ row.sha # NoBytes
    BY <2>1, <2>2 DEF IInv, OnlySecuredIsQueued, Exists, Gone
  <2> QED BY <1>1, <2>3 DEF Forward, ExtractedIsFingerprinted
<1> QED BY <1>3, <1>4 DEF ExtractedIsFingerprinted

(* A request's step leaves the other requests where they are.              *)
LEMMA OthersStay ==
  ASSUME TypeOK, NEW r \in Requests, BeginRequest(r) \/ RequestStep(r) \/ CrashRequest(r),
         NEW s \in Requests, s # r
  PROVE  req'[s] = req[s]
<1>a. req \in [Requests -> ReqStates] BY DEF TypeOK, UploadsTypeOK
<1>1. ASSUME NEW pc, Goto(r, pc) PROVE req'[s] = req[s] BY <1>a, <1>1 DEF Goto
<1>2. ASSUME NEW op, NEW pc, Snapshot(r, op, pc) PROVE req'[s] = req[s]
  BY <1>a, <1>2 DEF Snapshot
<1>3. CASE BeginRequest(r)
  BY <1>2, <1>3 DEF BeginRequest, Create, Import, ReadForComplete, ReadForReprocess,
                    ReadForRemove
<1>4. CASE HeadObject(r) BY <1>a, <1>1, <1>4 DEF HeadObject
<1>5. CASE RequestStep(r)
  BY <1>1, <1>2, <1>4, <1>5
     DEF RequestStep, WriteImport, UndoImport, ReadForComplete, Claim, Release, Mark,
         Quarantine, Purge, Scan, Copy, PointToVerified, SweepStaging, RecordHash, Enqueue,
         EraseObjects, DropRow
<1>6. CASE CrashRequest(r) BY <1>1, <1>6 DEF CrashRequest
<1> QED BY <1>3, <1>5, <1>6

LEMMA ActingRequest ==
  ASSUME IInv, [Next]_vars, NEW r \in Requests, req'[r] # req[r]
  PROVE  BeginRequest(r) \/ RequestStep(r) \/ CrashRequest(r)
<1>1. PICK s \in Requests : BeginRequest(s) \/ RequestStep(s) \/ CrashRequest(s)
  BY DEF Next, vars, UploadsNext, ClientPut, Environment
<1> QED BY <1>1, OthersStay DEF IInv

LEMMA PassedGrows == [Next]_vars => passed \subseteq passed'
<1>1. \A r \in Requests : BeginRequest(r) => UNCHANGED passed
  BY DEF BeginRequest, Create, Import, ReadForComplete, ReadForReprocess, ReadForRemove,
         sharedVars
<1>2. \A r \in Requests : RequestStep(r) => passed \subseteq passed'
  BY DEF RequestStep, WriteImport, UndoImport, ReadForComplete, Claim, Release, Mark,
         HeadObject, Quarantine, Purge, Scan, Copy, PointToVerified, SweepStaging, RecordHash,
         Enqueue, EraseObjects, DropRow, sharedVars
<1>3. CleanupNext => UNCHANGED passed
  BY DEF CleanupNext, CleanerStep, SelectAbandoned, ClaimExpired, DeleteStaging,
         RecordCleanupFailure, RemoveExpired, CrashCleaner, sharedVars
<1>4. ProcessingNext => UNCHANGED passed
  BY DEF ProcessingNext, WorkerStep, TakeJob, Complete, Retry, Settle, LoseLock, StallCheck,
         FindDocument, StartProcessing, Extract, FinishProcessing, RecordProcessingFailure,
         CrashWorker, sharedVars
<1> QED BY <1>1, <1>2, <1>3, <1>4
        DEF Next, Environment, Tick, UpdateSignatures, UploadsNext, ClientPut, CrashRequest,
            sharedVars, vars

LEMMA ClockTicks == [Next]_vars => clock' = clock \/ clock' = clock + 1
<1>1. \A r \in Requests : BeginRequest(r) => UNCHANGED clock
  BY DEF BeginRequest, Create, Import, ReadForComplete, ReadForReprocess, ReadForRemove,
         sharedVars
<1>2. \A r \in Requests : RequestStep(r) => UNCHANGED clock
  BY DEF RequestStep, WriteImport, UndoImport, ReadForComplete, Claim, Release, Mark,
         HeadObject, Quarantine, Purge, Scan, Copy, PointToVerified, SweepStaging, RecordHash,
         Enqueue, EraseObjects, DropRow, sharedVars
<1>3. CleanupNext => UNCHANGED clock
  BY DEF CleanupNext, CleanerStep, SelectAbandoned, ClaimExpired, DeleteStaging,
         RecordCleanupFailure, RemoveExpired, CrashCleaner, sharedVars
<1>4. ProcessingNext => UNCHANGED clock
  BY DEF ProcessingNext, WorkerStep, TakeJob, Complete, Retry, Settle, LoseLock, StallCheck,
         FindDocument, StartProcessing, Extract, FinishProcessing, RecordProcessingFailure,
         CrashWorker, sharedVars
<1> QED BY <1>1, <1>2, <1>3, <1>4
        DEF Next, Environment, Tick, UpdateSignatures, UploadsNext, ClientPut, CrashRequest,
            sharedVars, vars

LEMMA FreshNext ==
  ASSUME IInv, TypeOK', [Next]_vars
  PROVE  AbsentIsFresh'
<1> SUFFICES ASSUME row'.status = "ABSENT" PROVE AbsentIsFresh' BY DEF AbsentIsFresh
<1>1. Forward BY RowMovesForward
<1>2. row.status = "ABSENT" BY <1>1 DEF Forward
<1>3. row'.key = "staging" /\ row'.expiredAt = Never
  BY <1>1, <1>2 DEF Forward, IInv, AbsentIsFresh
<1>4. ASSUME NEW r \in Requests PROVE req'[r] = req[r]
  <2> SUFFICES ASSUME req'[r] # req[r] PROVE FALSE OBVIOUS
  <2>1. At(r, "idle") BY <1>2 DEF IInv, AbsentIsFresh
  <2>2. CASE Create(r) \/ Import(r)
    <3>1. PICK t \in Stamp : row' = Reserved(t)
      BY <2>2 DEF Create, Import, IInv, TypeOK, SharedTypeOK, Stamp
    <3> DEFINE s == [row EXCEPT !.status = "UPLOADED", !.presignedAt = t]
    <3>2. s \in Rows /\ s.status = "UPLOADED"
      BY DEF IInv, TypeOK, SharedTypeOK, Rows, Status
    <3>3. row' = Touched(s) BY <3>1 DEF Reserved
    <3> HIDE DEF s
    <3> QED BY <3>2, <3>3, TouchedFields
  <2>3. CASE BeginRequest(r) /\ ~Create(r) /\ ~Import(r)
    BY <1>2, <2>1, <2>3 DEF BeginRequest, ReadForComplete, ReadForReprocess, ReadForRemove,
                            Starts, At
  <2>4. CASE RequestStep(r) \/ CrashRequest(r)
    BY <2>1, <2>4
       DEF RequestStep, WriteImport, UndoImport, Claim, Release, Mark, HeadObject,
           Quarantine, Purge, Scan, Copy, PointToVerified, SweepStaging, RecordHash, Enqueue,
           EraseObjects, DropRow, CrashRequest, At
  <2> QED BY <2>2, <2>3, <2>4, ActingRequest
<1> QED BY <1>2, <1>3, <1>4 DEF IInv, AbsentIsFresh, At

LEMMA GotoFields ==
  ASSUME UploadsTypeOK, NEW r \in Requests, NEW pc, Goto(r, pc)
  PROVE  /\ req'[r].pc = pc /\ req'[r].op = req[r].op /\ req'[r].key = req[r].key
         /\ req'[r].version = req[r].version /\ req'[r].etag = req[r].etag
BY DEF UploadsTypeOK, Goto, ReqStates

LEMMA SnapshotFields ==
  ASSUME UploadsTypeOK, NEW r \in Requests, NEW op, NEW pc, Snapshot(r, op, pc)
  PROVE  /\ req'[r].pc = pc /\ req'[r].op = op /\ req'[r].key = row.key
         /\ req'[r].version = row.version
BY DEF UploadsTypeOK, Snapshot

(* The positions that say nothing of the bytes or of the row.              *)
FreePcs == {"idle", "write", "undo", "read", "claim", "erase", "drop", "done", "head",
            "reject", "block", "purge"}

LEMMA RequestNext ==
  ASSUME IInv, TypeOK', [Next]_vars, NEW r \in Requests
  PROVE  RequestOK(r)'
<1>a. /\ UploadsTypeOK /\ RequestOK(r) /\ row \in Rows /\ row' \in Rows
      /\ row.version \in Nat /\ row'.version \in Nat /\ req[r].version \in Nat
      /\ req[r].key \in Keys
  BY DEF IInv, TypeOK, SharedTypeOK, Rows, UploadsTypeOK, ReqStates
<1>b. Forward /\ passed \subseteq passed' BY RowMovesForward, PassedGrows
<1>c. CASE req'[r] = req[r]
  BY <1>a, <1>b, <1>c DEF RequestOK, Forward, Gone, At
<1>d. Abort(r) = "release" => req[r].op = "complete" BY DEF Abort
<1>e. ASSUME NEW pc \in FreePcs, Goto(r, pc) PROVE RequestOK(r)'
  BY <1>a, <1>b, <1>e, GotoFields DEF RequestOK, Forward, Gone, At, FreePcs
<1>f. ASSUME Goto(r, Abort(r)) PROVE RequestOK(r)'
  BY <1>a, <1>b, <1>d, <1>f, AbortType, GotoFields DEF RequestOK, Forward, Gone, At
<1>g. ASSUME NEW op, NEW pc \in FreePcs, Snapshot(r, op, pc) PROVE RequestOK(r)'
  BY <1>a, <1>b, <1>g, SnapshotFields DEF RequestOK, Forward, Gone, At, FreePcs
<1>1. CASE BeginRequest(r)
  BY <1>1, <1>g DEF BeginRequest, Create, Import, ReadForComplete, ReadForReprocess,
                    ReadForRemove, FreePcs
<1>2. CASE WriteImport(r) \/ UndoImport(r) \/ Release(r) \/ Mark(r) \/ Purge(r)
           \/ EraseObjects(r) \/ DropRow(r) \/ Claim(r) \/ Quarantine(r) \/ CrashRequest(r)
  BY <1>2, <1>e, <1>f
     DEF WriteImport, UndoImport, Release, Mark, Purge, EraseObjects, DropRow, Claim,
         Quarantine, CrashRequest, FreePcs
<1>3. CASE ReadForComplete(r) BY <1>3, <1>g DEF ReadForComplete, FreePcs
<1>4. CASE HeadObject(r)
  <2>1. ASSUME store[req[r].key] \in ValidBytes,
               req' = [req EXCEPT ![r].pc = "scan", ![r].etag = store[req[r].key]]
        PROVE  RequestOK(r)'
    <3>1. /\ req'[r].pc = "scan" /\ req'[r].etag \in ValidBytes
          /\ req'[r].key = req[r].key /\ req'[r].version = req[r].version
      BY <1>a, <2>1 DEF UploadsTypeOK, ReqStates
    <3> QED BY <1>a, <1>b, <3>1 DEF RequestOK, Forward, Gone, At
  <2> QED BY <1>4, <1>e, <1>f, <2>1 DEF HeadObject, FreePcs
<1>5. CASE Scan(r)
  <2>1. ASSUME store[req[r].key] \notin signatures, store[req[r].key] = req[r].etag,
               passed' = passed \cup {store[req[r].key]}, At(r, "scan"), UNCHANGED row,
               Goto(r, IF req[r].key = "staging" THEN "copy" ELSE "hash")
        PROVE  RequestOK(r)'
    <3>1. req[r].etag \in ValidBytes \cap passed'
      BY <1>a, <2>1 DEF RequestOK
    <3>2. CASE req[r].key = "staging"
      BY <1>a, <2>1, <3>1, <3>2, GotoFields DEF RequestOK, Gone, At
    <3>3. CASE req[r].key = "verified"
      BY <1>a, <2>1, <3>1, <3>3, GotoFields DEF RequestOK, Gone, At
    <3> QED BY <1>a, <3>2, <3>3 DEF Keys
  <2> QED BY <1>5, <1>e, <1>f, <2>1 DEF Scan, FreePcs
<1>6. CASE Copy(r)
  <2>1. ASSUME At(r, "copy"), Goto(r, "point") PROVE RequestOK(r)'
    BY <1>a, <1>b, <2>1, GotoFields DEF RequestOK, Forward, Gone, At
  <2> QED BY <1>6, <1>f, <2>1 DEF Copy
<1>7. CASE PointToVerified(r)
  <2>1. ASSUME At(r, "point"), Goto(r, "sweep"),
               IF Exists /\ row.key = req[r].key
                 THEN row' = Touched([row EXCEPT !.key = "verified"])
                 ELSE UNCHANGED row
        PROVE  RequestOK(r)'
    <3>1. row'.key = "verified" \/ Gone'
      <4>1. CASE Exists /\ row.key = req[r].key
        <5>1. [row EXCEPT !.key = "verified"] \in Rows BY <1>a DEF Rows, Keys
        <5>2. [row EXCEPT !.key = "verified"].key = "verified" BY <1>a DEF Rows
        <5> QED BY <2>1, <4>1, <5>1, <5>2, TouchedFields
      <4>2. CASE Exists /\ row.key # req[r].key
        BY <1>a, <2>1, <4>2 DEF RequestOK, At, Rows, Keys
      <4>3. CASE ~Exists
        BY <2>1, <4>3 DEF Exists, Gone, IInv, AbsentIsFresh, At
      <4> QED BY <4>1, <4>2, <4>3
    <3> QED BY <1>a, <1>b, <2>1, <3>1, GotoFields DEF RequestOK, Forward, Gone, At
  <2> QED BY <1>7, <1>f, <2>1 DEF PointToVerified
<1>8. CASE SweepStaging(r)
  BY <1>a, <1>b, <1>8, GotoFields DEF SweepStaging, RequestOK, Forward, Gone, At
<1>9. CASE RecordHash(r)
  <2>1. ASSUME At(r, "hash"), Goto(r, "enqueue"),
               row' = Touched([row EXCEPT !.sha = req[r].etag])
        PROVE  RequestOK(r)'
    <3>1. req[r].etag \in Bytes /\ req[r].etag # NoBytes
      BY <1>a, <2>1, BytesAssumption DEF RequestOK, At
    <3> DEFINE s == [row EXCEPT !.sha = req[r].etag]
    <3>2. s \in Rows /\ s.sha = req[r].etag /\ s.version = row.version
      BY <1>a, <3>1 DEF Rows
    <3>3. row' = Touched(s) BY <2>1
    <3> HIDE DEF s
    <3>4. row'.sha # NoBytes /\ row'.version = row.version + 1
      BY <3>1, <3>2, <3>3, TouchedFields
    <3>5. req[r].version < row'.version BY <1>a, <3>4 DEF RequestOK
    <3> QED BY <1>a, <1>b, <2>1, <3>4, <3>5, GotoFields DEF RequestOK, Forward, Gone, At
  <2> QED BY <1>9, <1>f, <2>1 DEF RecordHash
<1>10. CASE Enqueue(r)
  <2>1. ASSUME At(r, "enqueue"), Goto(r, "mark") PROVE RequestOK(r)'
    BY <1>a, <1>b, <2>1, GotoFields DEF RequestOK, Forward, Gone, At
  <2> QED BY <1>10, <1>e, <1>f, <2>1 DEF Enqueue, FreePcs
<1> QED
  BY <1>c, <1>1, <1>2, <1>3, <1>4, <1>5, <1>6, <1>7, <1>8, <1>9, <1>10, ActingRequest
     DEF RequestStep

(* One comes to hold the claim only by Claim.                              *)
LEMMA HolderCauses ==
  ASSUME IInv, [Next]_vars, NEW r \in Requests, HoldsClaim(r)', ~HoldsClaim(r)
  PROVE  Claim(r) /\ Claimable
<1>a. UploadsTypeOK /\ RequestOK(r) BY DEF IInv, TypeOK
<1>b. req'[r] # req[r] BY DEF HoldsClaim
<1>c. {"head", "reject", "block", "purge", "scan", "copy", "point", "sweep", "hash",
       "enqueue", "release"} = ClaimedPcs
  BY DEF ClaimedPcs, SecurePcs
<1>d. ASSUME NEW pc, Goto(r, pc), req[r].pc \in ClaimedPcs PROVE FALSE
  BY <1>a, <1>d, GotoFields DEF HoldsClaim
<1>e. ASSUME NEW pc, Goto(r, pc), pc \notin ClaimedPcs PROVE FALSE
  BY <1>a, <1>e, GotoFields DEF HoldsClaim
<1>f. ASSUME NEW op, NEW pc, Snapshot(r, op, pc), pc \notin ClaimedPcs \/ op # "complete"
      PROVE  FALSE
  BY <1>a, <1>f, SnapshotFields DEF HoldsClaim
<1>1. ~BeginRequest(r) /\ ~ReadForComplete(r)
  BY <1>c, <1>f DEF BeginRequest, Create, Import, ReadForComplete, ReadForReprocess,
                    ReadForRemove
<1>2. ~CrashRequest(r) /\ ~WriteImport(r) /\ ~UndoImport(r) /\ ~Release(r) /\ ~Mark(r)
      /\ ~EraseObjects(r) /\ ~DropRow(r)
  BY <1>c, <1>e
     DEF CrashRequest, WriteImport, UndoImport, Release, Mark, EraseObjects, DropRow
<1>3. ~HeadObject(r)
  <2>1. ASSUME At(r, "head"),
               req' = [req EXCEPT ![r].pc = "scan", ![r].etag = store[req[r].key]]
        PROVE  FALSE
    <3>1. req'[r].op = req[r].op BY <1>a, <2>1 DEF UploadsTypeOK, ReqStates
    <3> QED BY <1>c, <2>1, <3>1 DEF HoldsClaim, At
  <2> QED BY <1>c, <1>d, <2>1 DEF HeadObject, At
<1>4. ~Quarantine(r) /\ ~Purge(r) /\ ~Scan(r) /\ ~Copy(r) /\ ~PointToVerified(r)
      /\ ~SweepStaging(r) /\ ~RecordHash(r) /\ ~Enqueue(r)
  BY <1>c, <1>d
     DEF Quarantine, Purge, Scan, Copy, PointToVerified, SweepStaging, RecordHash, Enqueue, At
<1> QED BY <1>b, <1>c, <1>e, <1>1, <1>2, <1>3, <1>4, ActingRequest DEF RequestStep, Claim

LEMMA ExclusiveNext ==
  ASSUME IInv, TypeOK', [Next]_vars
  PROVE  CompletionIsExclusive' /\ ClaimShows'
<1>a. UploadsTypeOK /\ row \in Rows BY DEF IInv, TypeOK, SharedTypeOK
<1>b. Forward BY RowMovesForward
<1>c. \A r \in Requests : HoldsClaim(r) => row.status \notin {"ABSENT", "UPLOADED"}
  BY DEF IInv, ClaimShows
<1>1. ASSUME NEW r \in Requests, NEW s \in Requests, HoldsClaim(r)', HoldsClaim(s)',
             r # s
      PROVE  FALSE
  <2>1. CASE HoldsClaim(r) /\ HoldsClaim(s)
    BY <1>1, <2>1 DEF IInv, CompletionIsExclusive
  <2>2. ASSUME NEW t \in Requests, NEW u \in Requests, t # u, HoldsClaim(t)', HoldsClaim(u)',
               ~HoldsClaim(t)
        PROVE  FALSE
    <3>1. Claim(t) /\ Claimable BY <2>2, HolderCauses
    <3>2. req'[u] = req[u] BY <2>2, <3>1, OthersStay DEF RequestStep, IInv
    <3>3. HoldsClaim(u) BY <2>2, <3>2 DEF HoldsClaim
    <3> QED BY <1>c, <3>1, <3>3 DEF Claimable
  <2> QED BY <1>1, <2>1, <2>2
<1>2. ASSUME NEW r \in Requests, HoldsClaim(r)'
      PROVE  row'.status \notin {"ABSENT", "UPLOADED"}
  <2>1. CASE HoldsClaim(r)
    <3>1. row'.status # "ABSENT" BY <1>b, <1>c, <2>1 DEF Forward
    <3>2. ASSUME row'.status = "UPLOADED" PROVE FALSE
      <4>1. PICK s \in Requests : Release(s) /\ Releasable
        BY <1>c, <2>1, <3>2, StatusChanges DEF StatusCauses, Extracted
      <4>2. HoldsClaim(s)
        BY <4>1 DEF HoldsClaim, Release, IInv, RequestOK, At, ClaimedPcs
      <4>3. r = s BY <2>1, <4>2 DEF IInv, CompletionIsExclusive
      <4>4. req'[r].pc = "done" BY <1>a, <4>1, <4>3, GotoFields DEF Release
      <4> QED BY <1>2, <4>4 DEF HoldsClaim, ClaimedPcs, SecurePcs
    <3> QED BY <3>1, <3>2
  <2>2. CASE ~HoldsClaim(r)
    <3>1. Claim(r) /\ Claimable BY <1>2, <2>2, HolderCauses
    <3> QED BY <1>a, <3>1, StatusWritten DEF Claim, Status
  <2> QED BY <2>1, <2>2
<1> QED BY <1>1, <1>2 DEF CompletionIsExclusive, ClaimShows

(* Only Copy writes under the verified key.                                *)
LEMMA VerifiedNext ==
  ASSUME IInv, TypeOK', [Next]_vars
  PROVE  VerifiedBytesAreSafe'
<1>a. store \in [Keys -> Bytes \cup {NoBytes}] /\ UploadsTypeOK
      /\ \A r \in Requests : req[r].key \in Keys
  BY DEF IInv, TypeOK, SharedTypeOK, UploadsTypeOK, ReqStates
<1>b. passed \subseteq passed' BY PassedGrows
<1>c. ASSUME store'["verified"] \in {store["verified"], NoBytes} PROVE VerifiedBytesAreSafe'
  BY <1>b, <1>c DEF IInv, VerifiedBytesAreSafe
<1>d. ASSUME NEW k \in Keys, store' \in {store, Removed(k)}
      PROVE  store'["verified"] \in {store["verified"], NoBytes}
  BY <1>a, <1>d DEF Removed, Keys
<1>e. ASSUME NEW b, store' = [store EXCEPT !["staging"] = b]
      PROVE  store'["verified"] \in {store["verified"], NoBytes}
  BY <1>a, <1>e DEF Keys
<1>1. ASSUME NEW r \in Requests, Copy(r) PROVE VerifiedBytesAreSafe'
  <2>1. CASE SourceMatches(r) /\ store' = [store EXCEPT !["verified"] = store[req[r].key]]
    <3>1. req[r].etag \in ValidBytes \cap passed
      BY <1>1 DEF Copy, IInv, RequestOK, At
    <3>2. store'["verified"] = req[r].etag BY <1>a, <2>1 DEF SourceMatches, Keys
    <3> QED BY <1>b, <3>1, <3>2 DEF VerifiedBytesAreSafe
  <2> QED BY <1>1, <1>c, <2>1 DEF Copy
<1>2. ASSUME NEW r \in Requests, RequestStep(r) PROVE VerifiedBytesAreSafe'
  <2>1. CASE WriteImport(r) BY <1>c, <1>e, <2>1 DEF WriteImport
  <2>2. CASE UndoImport(r) \/ Purge(r) \/ SweepStaging(r) \/ EraseObjects(r)
    BY <1>a, <1>c, <1>d, <2>2 DEF UndoImport, Purge, SweepStaging, EraseObjects, Keys
  <2>3. CASE UNCHANGED store BY <1>c, <2>3
  <2> QED
    BY <1>1, <1>2, <2>1, <2>2, <2>3
       DEF RequestStep, ReadForComplete, Claim, Release, Mark, HeadObject, Quarantine, Scan,
           PointToVerified, RecordHash, Enqueue, DropRow, sharedVars
<1>3. CASE ClientPut BY <1>c, <1>e, <1>3 DEF ClientPut
<1>4. ASSUME NEW c \in Cleaners, DeleteStaging(c) PROVE VerifiedBytesAreSafe'
  BY <1>c, <1>d, <1>4 DEF DeleteStaging, Keys
<1>5. CASE UNCHANGED store BY <1>c, <1>5
<1> QED
  BY <1>2, <1>3, <1>4, <1>5
     DEF Next, Environment, Tick, UpdateSignatures, UploadsNext, BeginRequest, Create, Import,
         ReadForComplete, ReadForReprocess, ReadForRemove, CrashRequest, CleanupNext,
         CleanerStep, SelectAbandoned, ClaimExpired, RecordCleanupFailure, RemoveExpired,
         CrashCleaner, ProcessingNext, WorkerStep, TakeJob, Complete, Retry, Settle, LoseLock,
         StallCheck, FindDocument, StartProcessing, Extract, FinishProcessing,
         RecordProcessingFailure, CrashWorker, sharedVars, vars

(* The queue forgets no job, and only Enqueue adds one.                    *)
LEMMA QueueKeeps ==
  ASSUME IInv, [Next]_vars, NEW j \in JobIds
  PROVE  /\ queue[j].state # "none" => queue'[j].state # "none"
         /\ queue[j].state = "none" /\ queue'[j].state # "none"
              => \E r \in Requests : Enqueue(r)
<1> DEFINE Kept == queue[j].state # "none" <=> queue'[j].state # "none"
           Goal == /\ queue[j].state # "none" => queue'[j].state # "none"
                   /\ queue[j].state = "none" /\ queue'[j].state # "none"
                        => \E r \in Requests : Enqueue(r)
<1>a. queue \in [JobIds -> Jobs] /\ \A w \in Workers : worker[w].job \in JobIds
  BY DEF IInv, TypeOK, SharedTypeOK, ProcessingTypeOK, WorkerStates
<1>b. \A w \in Workers : ~WorkerAt(w, "idle") => queue[worker[w].job].state # "none"
  BY DEF IInv, WorkerOK
<1>1. ASSUME NEW r \in Requests, Enqueue(r) PROVE Goal
  <2>1. queue[j].state # "none" => queue'[j].state # "none"
    BY <1>a, <1>1 DEF Enqueue, Added, Jobs
  <2> QED BY <1>1, <2>1
<1>2. ASSUME NEW w \in Workers, NEW i \in JobIds, TakeJob(w, i) PROVE Kept
  BY <1>a, <1>2 DEF TakeJob, Jobs
<1>3. ASSUME NEW w \in Workers, NEW job, job.state # "none", ~WorkerAt(w, "idle"),
             Settle(w, job)
      PROVE  Kept
  BY <1>a, <1>b, <1>3 DEF Settle, Jobs
<1>4. ASSUME NEW w \in Workers, Complete(w) PROVE Kept
  <2>1. queue[worker[w].job] \in Jobs BY <1>a, <1>4
  <2>2. [queue[worker[w].job] EXCEPT !.state = "completed", !.owner = NoWorker].state
          = "completed"
    BY <2>1 DEF Jobs
  <2> QED BY <1>3, <1>4, <2>2 DEF Complete, WorkerAt
<1>5. ASSUME NEW w \in Workers, Retry(w) PROVE Kept
  <2>1. queue[worker[w].job] \in Jobs BY <1>a, <1>5
  <2>2. Retried(queue[worker[w].job]).state # "none" BY <2>1 DEF Retried, Jobs
  <2> QED BY <1>3, <1>5, <2>2 DEF Retry, WorkerAt
<1>6. ASSUME NEW w \in Workers, LoseLock(w) \/ CrashWorker(w) PROVE Kept
  BY <1>a, <1>6 DEF LoseLock, CrashWorker, Jobs
<1>7. ASSUME NEW i \in JobIds, StallCheck(i) PROVE Kept
  BY <1>a, <1>7 DEF StallCheck, Jobs
<1>8. CASE UNCHANGED queue BY <1>8
<1>9. ASSUME NEW w \in Workers, WorkerStep(w) PROVE Kept
  BY <1>2, <1>4, <1>5, <1>9
     DEF WorkerStep, FindDocument, StartProcessing, Extract, FinishProcessing,
         RecordProcessingFailure, sharedVars
<1> QED
  BY <1>1, <1>6, <1>7, <1>8, <1>9
     DEF Next, Environment, Tick, UpdateSignatures, UploadsNext, ClientPut, BeginRequest,
         Create, Import, ReadForComplete, ReadForReprocess, ReadForRemove, RequestStep,
         WriteImport, UndoImport, Claim, Release, Mark, HeadObject, Quarantine, Purge, Scan,
         Copy, PointToVerified, SweepStaging, RecordHash, EraseObjects, DropRow, CrashRequest,
         CleanupNext, CleanerStep, SelectAbandoned, ClaimExpired, DeleteStaging,
         RecordCleanupFailure, RemoveExpired, CrashCleaner, ProcessingNext, sharedVars, vars

LEMMA QueuedNext ==
  ASSUME IInv, TypeOK', [Next]_vars
  PROVE  OnlySecuredIsQueued'
<1>1. Forward BY RowMovesForward
<1> SUFFICES ASSUME NEW j \in JobIds, queue'[j].state # "none"
             PROVE  Gone' \/ (row'.key = "verified" /\ row'.sha # NoBytes)
  BY DEF OnlySecuredIsQueued
<1>2. Gone \/ (row.key = "verified" /\ row.sha # NoBytes)
  <2>1. CASE queue[j].state # "none" BY <2>1 DEF IInv, OnlySecuredIsQueued
  <2>2. CASE queue[j].state = "none"
    <3>1. PICK r \in Requests : Enqueue(r) BY <2>2, QueueKeeps
    <3> QED BY <3>1 DEF Enqueue, IInv, RequestOK, At
  <2> QED BY <2>1, <2>2
<1> QED BY <1>1, <1>2 DEF Forward, Gone

LEMMA WorkerNext ==
  ASSUME IInv, TypeOK', [Next]_vars, NEW w \in Workers
  PROVE  WorkerOK(w)'
<1>a. /\ worker \in [Workers -> WorkerStates] /\ worker[w].job \in JobIds
      /\ worker'[w].job \in JobIds /\ row' \in Rows
  BY DEF IInv, TypeOK, SharedTypeOK, ProcessingTypeOK, WorkerStates
<1>b. Forward /\ \A j \in JobIds : queue[j].state # "none" => queue'[j].state # "none"
  BY RowMovesForward, QueueKeeps
<1>c. WorkerOK(w) /\ OnlySecuredIsQueued BY DEF IInv
<1>d. ~WorkerAt(w, "idle") => Gone \/ row.key = "verified"
  BY <1>a, <1>c DEF WorkerOK, OnlySecuredIsQueued
(* A document with a job is not expired any more.                          *)
<1>e. ASSUME ~WorkerAt(w, "idle"), Gone \/ row.expiredAt = Never
      PROVE  Gone' \/ row'.expiredAt = Never
  BY <1>b, <1>d, <1>e DEF Forward, Gone
<1>1. CASE worker'[w] = worker[w]
  <2>1. ~WorkerAt(w, "idle") => queue'[worker[w].job].state # "none"
    BY <1>a, <1>b, <1>c DEF WorkerOK
  <2>2. worker[w].pc \in {"start", "extract", "finish"}
          => worker[w].key = "verified" /\ (Gone' \/ row'.expiredAt = Never)
    BY <1>c, <1>e DEF WorkerOK, WorkerAt
  <2> QED BY <1>1, <2>1, <2>2 DEF WorkerOK, WorkerAt
<1>2. CASE worker'[w] # worker[w]
  <2>1. WorkerStep(w) \/ CrashWorker(w)
    <3>1. PICK v \in Workers : WorkerStep(v) \/ CrashWorker(v)
      BY <1>2 DEF Next, Environment, vars, ProcessingNext, StallCheck, LoseLock
    <3>2. ASSUME v # w PROVE worker'[w] = worker[w]
      BY <1>a, <3>1, <3>2
         DEF WorkerStep, TakeJob, Complete, Retry, Settle, FindDocument, StartProcessing,
             Extract, FinishProcessing, RecordProcessingFailure, CrashWorker, WorkerGoto
    <3> QED BY <1>2, <3>1, <3>2
  <2>a. ASSUME NEW pc, pc \in {"find", "fail", "ack", "nack", "idle"},
               ~WorkerAt(w, "idle"), WorkerGoto(w, pc)
        PROVE  WorkerOK(w)'
    BY <1>a, <1>b, <1>c, <2>a DEF WorkerGoto, WorkerOK, WorkerAt, WorkerStates
  <2>b. ASSUME worker[w].pc \in {"start", "extract"}, NEW pc, pc \in {"extract", "finish"},
               worker'[w].pc = pc, worker'[w].job = worker[w].job,
               worker'[w].key = worker[w].key
        PROVE  WorkerOK(w)'
    BY <1>a, <1>b, <1>c, <1>e, <2>b DEF WorkerOK, WorkerAt
  <2>1a. CASE CrashWorker(w) BY <2>a, <2>1a DEF CrashWorker
  <2>2. ASSUME NEW j \in JobIds, TakeJob(w, j) PROVE WorkerOK(w)'
    <3>1. worker'[w].pc = "find" /\ worker'[w].job = j
      BY <1>a, <2>2 DEF TakeJob, WorkerStates
    <3>2. queue'[j].state # "none" BY <1>b, <2>2 DEF TakeJob
    <3> QED BY <3>1, <3>2 DEF WorkerOK, WorkerAt
  <2>3. CASE Complete(w) \/ Retry(w)
    BY <2>a, <2>3 DEF Complete, Retry, Settle, WorkerAt
  <2>4. CASE FindDocument(w)
    <3>1. ASSUME WorkerAt(w, "find"), Exists, ~Skips,
                 worker' = [worker EXCEPT ![w].pc = "start", ![w].key = row.key]
          PROVE  WorkerOK(w)'
      <4>1. worker'[w].pc = "start" /\ worker'[w].key = row.key
            /\ worker'[w].job = worker[w].job
        BY <1>a, <3>1 DEF WorkerStates
      <4>2. row.key = "verified" BY <1>d, <3>1 DEF WorkerAt, Exists, Gone
      <4>3. Gone' \/ row'.expiredAt = Never BY <1>e, <3>1 DEF WorkerAt, Skips
      <4>4. queue'[worker[w].job].state # "none"
        BY <1>a, <1>b, <1>c, <3>1 DEF WorkerOK, WorkerAt
      <4> QED BY <4>1, <4>2, <4>3, <4>4 DEF WorkerOK, WorkerAt
    <3> QED BY <2>a, <2>4, <3>1 DEF FindDocument, WorkerAt
  <2>5. CASE StartProcessing(w)
    <3>1. CASE WorkerGoto(w, "extract")
      BY <1>a, <2>b, <2>5, <3>1 DEF StartProcessing, WorkerGoto, WorkerAt, WorkerStates
    <3> QED BY <2>a, <2>5, <3>1 DEF StartProcessing, WorkerAt
  <2>6. CASE Extract(w)
    <3>1. ASSUME NEW s \in Extracted, WorkerAt(w, "extract"),
                 worker' = [worker EXCEPT ![w].pc = "finish", ![w].result = s]
          PROVE  WorkerOK(w)'
      <4>1. worker'[w].pc = "finish" /\ worker'[w].key = worker[w].key
            /\ worker'[w].job = worker[w].job
        BY <1>a, <3>1 DEF WorkerStates
      <4> QED BY <2>b, <3>1, <4>1 DEF WorkerAt
    <3> QED BY <2>a, <2>6, <3>1 DEF Extract, WorkerAt
  <2>7. CASE FinishProcessing(w) \/ RecordProcessingFailure(w)
    BY <2>a, <2>7 DEF FinishProcessing, RecordProcessingFailure, WorkerAt
  <2> QED BY <2>1, <2>1a, <2>2, <2>3, <2>4, <2>5, <2>6, <2>7 DEF WorkerStep
<1> QED BY <1>1, <1>2

LEMMA CleanerNext ==
  ASSUME IInv, TypeOK', [Next]_vars, NEW c \in Cleaners
  PROVE  CleanerOK(c)'
<1>a. /\ cleaner \in [Cleaners -> CleanerStates] /\ CleanerOK(c) /\ clock \in Nat
      /\ clock' \in Nat /\ row.version \in Nat /\ row'.version \in Nat
      /\ cleaner[c].version \in Nat /\ cleaner[c].now \in Nat /\ row.touched \in Nat
  BY DEF IInv, TypeOK, SharedTypeOK, CleanupTypeOK, CleanerStates, Rows
<1>b. Forward BY RowMovesForward
<1>c. clock <= clock' BY <1>a, ClockTicks
<1>1. CASE cleaner'[c] = cleaner[c]
  BY <1>a, <1>b, <1>c, <1>1 DEF CleanerOK, Forward
<1>2. CASE cleaner'[c] # cleaner[c]
  <2>1. CleanerStep(c) \/ CrashCleaner(c)
    <3>1. PICK d \in Cleaners : CleanerStep(d) \/ CrashCleaner(d)
      BY <1>2 DEF Next, Environment, vars, CleanupNext
    <3>2. ASSUME d # c PROVE cleaner'[c] = cleaner[c]
      BY <1>a, <3>1, <3>2
         DEF CleanerStep, SelectAbandoned, ClaimExpired, DeleteStaging, RecordCleanupFailure,
             RemoveExpired, CrashCleaner, CleanerGoto
    <3> QED BY <1>2, <3>1, <3>2
  <2>a. ASSUME NEW pc, pc # "claim", cleaner'[c].pc = pc,
               cleaner'[c].version = cleaner[c].version, cleaner'[c].now = cleaner[c].now
        PROVE  CleanerOK(c)'
    BY <1>a, <1>b, <1>c, <2>a DEF CleanerOK, Forward
  <2>b. ASSUME NEW pc, pc # "claim", CleanerGoto(c, pc) PROVE CleanerOK(c)'
    BY <1>a, <2>a, <2>b DEF CleanerGoto, CleanerStates
  <2>2. CASE SelectAbandoned(c)
    <3>1. cleaner'[c] = [pc |-> "claim", now |-> clock, status |-> row.status,
                         version |-> row.version, cleanupAt |-> row.cleanupAt,
                         expiredAt |-> row.expiredAt]
      BY <1>a, <2>2 DEF SelectAbandoned
    <3>2. row' = row /\ clock' = clock BY <2>2 DEF SelectAbandoned, sharedVars
    <3>3. row.status \notin {"ABSENT", "DELETED"} BY <2>2 DEF SelectAbandoned, Exists
    <3>4. row.expiredAt = Never => row.touched + AbandonedAge <= clock
      BY <2>2 DEF SelectAbandoned, Abandoned, CleanupDue
    <3> QED BY <1>a, <3>1, <3>2, <3>3, <3>4 DEF CleanerOK
  <2>3. CASE ClaimExpired(c)
    <3> DEFINE seen == IF cleaner[c].expiredAt = Never THEN cleaner[c].now
                                                       ELSE cleaner[c].expiredAt
    <3>1. CASE cleaner' = [cleaner EXCEPT ![c].pc = "delete", ![c].expiredAt = seen]
      <4>1. /\ cleaner'[c].pc = "delete" /\ cleaner'[c].version = cleaner[c].version
            /\ cleaner'[c].now = cleaner[c].now
        BY <1>a, <3>1 DEF CleanerStates
      <4> QED BY <2>a, <4>1
    <3> QED BY <2>b, <2>3, <3>1 DEF ClaimExpired
  <2>4. CASE DeleteStaging(c) \/ RecordCleanupFailure(c) \/ RemoveExpired(c)
             \/ CrashCleaner(c)
    BY <2>b, <2>4 DEF DeleteStaging, RecordCleanupFailure, RemoveExpired, CrashCleaner
  <2> QED BY <2>1, <2>2, <2>3, <2>4 DEF CleanerStep
<1> QED BY <1>1, <1>2

-----------------------------------------------------------------------------
LEMMA IInvInit == Init => IInv
<1> SUFFICES ASSUME Init PROVE IInv OBVIOUS
<1>1. TypeOK BY TypeInit
<1>2. /\ row.status = "ABSENT" /\ row.key = "staging" /\ row.expiredAt = Never
      /\ row.version = 0 /\ clock = 0 /\ store["verified"] = NoBytes
      /\ \A j \in JobIds : queue[j].state = "none"
  BY DEF Init, SharedInit, Keys
<1>3. \A r \in Requests : req[r].op = "none" /\ req[r].pc = "idle"
                         /\ req[r].key = "staging" /\ req[r].version = 0
  BY DEF Init, UploadsInit
<1>4. \A c \in Cleaners : cleaner[c].pc = "idle" /\ cleaner[c].version = 0
                         /\ cleaner[c].now = 0
  BY DEF Init, CleanupInit
<1>5. \A w \in Workers : worker[w].pc = "idle" BY DEF Init, ProcessingInit
<1>6. \A r \in Requests : ~HoldsClaim(r) BY <1>3 DEF HoldsClaim
<1>7. ASSUME NEW r \in Requests PROVE RequestOK(r)
  <2>1. req[r].version <= row.version BY <1>2, <1>3
  <2>2. req[r].pc = "idle" /\ req[r].key = "staging" BY <1>3
  <2> QED BY <2>1, <2>2 DEF RequestOK, At
<1>8. \A c \in Cleaners : CleanerOK(c) BY <1>2, <1>4 DEF CleanerOK
<1>9. \A w \in Workers : WorkerOK(w) BY <1>5 DEF WorkerOK, WorkerAt
<1> QED BY <1>1, <1>2, <1>3, <1>6, <1>7, <1>8, <1>9
        DEF IInv, AbsentIsFresh, CompletionIsExclusive, ClaimShows, VerifiedBytesAreSafe,
            OnlySecuredIsQueued, ExtractedIsFingerprinted, Extracted, ExpiredStaysFailed, At

LEMMA IInvNext == IInv /\ [Next]_vars => IInv'
<1> SUFFICES ASSUME IInv, [Next]_vars PROVE IInv' OBVIOUS
<1>1. TypeOK' BY TypeNext DEF IInv
<1>2. AbsentIsFresh' BY <1>1, FreshNext
<1>3. CompletionIsExclusive' /\ ClaimShows' BY <1>1, ExclusiveNext
<1>4. VerifiedBytesAreSafe' BY <1>1, VerifiedNext
<1>5. OnlySecuredIsQueued' BY <1>1, QueuedNext
<1>6. ExtractedIsFingerprinted' BY <1>1, ExtractedNext
<1>7. ExpiredStaysFailed' BY <1>1, ExpiredNext
<1>8. \A r \in Requests : RequestOK(r)' BY <1>1, RequestNext
<1>9. \A w \in Workers : WorkerOK(w)' BY <1>1, WorkerNext
<1>10. \A c \in Cleaners : CleanerOK(c)' BY <1>1, CleanerNext
<1> QED BY <1>1, <1>2, <1>3, <1>4, <1>5, <1>6, <1>7, <1>8, <1>9, <1>10 DEF IInv

(* What the position of every request, batch and worker says about the row *)
(* holds in every reachable state.                                         *)
THEOREM InvariantCorrect == Spec => []IInv
BY IInvInit, IInvNext, PTL DEF Spec

(* At most one request completes an upload, however many try, fail, are    *)
(* retried or die.                                                         *)
THEOREM ExclusiveCompletion == Spec => []CompletionIsExclusive
<1>1. IInv => CompletionIsExclusive BY DEF IInv
<1> QED BY <1>1, InvariantCorrect, PTL

(* Nothing but scanned bytes of the reserved size and type is ever stored  *)
(* under a verified key.                                                   *)
THEOREM SafeBytes == Spec => []VerifiedBytesAreSafe
<1>1. IInv => VerifiedBytesAreSafe BY DEF IInv
<1> QED BY <1>1, InvariantCorrect, PTL

(* The pipeline fails closed: no job without a promoted, fingerprinted row.*)
THEOREM FailClosed == Spec => []OnlySecuredIsQueued
<1>1. IInv => OnlySecuredIsQueued BY DEF IInv
<1> QED BY <1>1, InvariantCorrect, PTL

(* No extraction result is recorded on a document without a fingerprint.   *)
THEOREM FingerprintedResults == Spec => []ExtractedIsFingerprinted
<1>1. IInv => ExtractedIsFingerprinted BY DEF IInv
<1> QED BY <1>1, InvariantCorrect, PTL

(* Nothing revives an upload that the cleanup has expired.                 *)
THEOREM ExpiryIsFinal == Spec => []ExpiredStaysFailed
<1>1. IInv => ExpiredStaysFailed BY DEF IInv
<1> QED BY <1>1, InvariantCorrect, PTL

(* A worker at the point of reading finds scanned bytes or nothing.        *)
THEOREM ScannedExtraction == Spec => []ExtractsScannedBytes
<1>1. ASSUME IInv PROVE ExtractsScannedBytes
  <2> SUFFICES ASSUME NEW w \in Workers, WorkerAt(w, "extract")
               PROVE  store[worker[w].key] \in {NoBytes} \cup (ValidBytes \cap passed)
    BY DEF ExtractsScannedBytes
  <2>1. worker[w].key = "verified" BY <1>1 DEF IInv, WorkerOK, WorkerAt
  <2> QED BY <1>1, <2>1 DEF IInv, VerifiedBytesAreSafe
<1> QED BY <1>1, InvariantCorrect, PTL

-----------------------------------------------------------------------------
(* A promoted document keeps its object, and what the cleanup may never do *)
(* to a document.                                                          *)

(* Only these two delete the object under the verified key.                *)
LEMMA VerifiedStays ==
  ASSUME IInv, [Next]_vars, store["verified"] # NoBytes, store'["verified"] = NoBytes
  PROVE  \E r \in Requests : /\ Purge(r) \/ EraseObjects(r)
                             /\ req[r].key = "verified"
<1>a. store \in [Keys -> Bytes \cup {NoBytes}]
      /\ \A r \in Requests : req[r].key \in Keys
  BY DEF IInv, TypeOK, SharedTypeOK, UploadsTypeOK, ReqStates
<1>b. "verified" \in Keys /\ "staging" \in Keys BY DEF Keys
<1>c. store' # Removed("staging") /\ store' # store
      /\ \A b : store' # [store EXCEPT !["staging"] = b]
  BY <1>a, <1>b DEF Removed
<1>1. PICK r \in Requests : RequestStep(r)
  BY <1>c
     DEF Next, Environment, Tick, UpdateSignatures, UploadsNext, ClientPut, BeginRequest,
         Create, Import, ReadForComplete, ReadForReprocess, ReadForRemove, CrashRequest,
         CleanupNext, CleanerStep, SelectAbandoned, ClaimExpired, DeleteStaging,
         RecordCleanupFailure, RemoveExpired, CrashCleaner, ProcessingNext, StallCheck,
         WorkerStep, TakeJob, Complete, Retry, Settle, LoseLock, FindDocument,
         StartProcessing, Extract, FinishProcessing, RecordProcessingFailure, CrashWorker,
         sharedVars, vars
<1>2. ~WriteImport(r) /\ ~UndoImport(r) BY <1>c DEF WriteImport, UndoImport
<1>3. ~SweepStaging(r)
  BY <1>c DEF SweepStaging, IInv, RequestOK, At
<1>4. ~Copy(r)
  <2> SUFFICES ASSUME Copy(r) PROVE FALSE OBVIOUS
  <2>1. SourceMatches(r) /\ store' = [store EXCEPT !["verified"] = store[req[r].key]]
    BY <1>c DEF Copy
  <2>2. req[r].etag \in Bytes BY BytesAssumption DEF Copy, IInv, RequestOK, At
  <2> QED BY <1>a, <1>b, <2>1, <2>2, BytesAssumption DEF SourceMatches
<1>5. Purge(r) \/ EraseObjects(r)
  BY <1>1, <1>2, <1>3, <1>4, <1>c
     DEF RequestStep, ReadForComplete, Claim, Release, Mark, HeadObject, Quarantine, Scan,
         PointToVerified, RecordHash, Enqueue, DropRow, sharedVars
<1>6. req[r].key = "verified"
  BY <1>a, <1>5, <1>c DEF Purge, EraseObjects, Keys
<1> QED BY <1>5, <1>6

(* The row points to the verified key only after the copy.                 *)
LEMMA KeyChanges ==
  ASSUME IInv, TypeOK', [Next]_vars, row'.key # row.key
  PROVE  \E r \in Requests : At(r, "point") /\ row.key = "staging"
<1>a. /\ row \in Rows /\ row' \in Rows BY DEF IInv, TypeOK, SharedTypeOK
<1>b. ASSUME NEW s \in Status, row' = Touched([row EXCEPT !.status = s]) PROVE FALSE
  BY <1>a, <1>b, StatusWritten
<1>c. row' # [row EXCEPT !.status = "DELETED"] BY <1>a DEF Rows
<1>d. ASSUME NEW s \in Rows, s.key = row.key, row' = Touched(s) PROVE FALSE
  BY <1>d, TouchedFields
<1>e. {"ABSENT", "UPLOADED", "PROCESSING", "FAILED", "DELETED", "PROCESSED",
       "NEEDS_REVIEW"} = Status
  BY DEF Status, Extracted
<1>f. row' # row OBVIOUS
<1>1. ASSUME NEW r \in Requests, BeginRequest(r) PROVE FALSE
  <2>1. ASSUME NEW t \in Stamp, row' = Reserved(t) PROVE FALSE
    <3> DEFINE s == [row EXCEPT !.status = "UPLOADED", !.presignedAt = t]
    <3>1. s \in Rows /\ s.key = row.key BY <1>a, <1>e DEF Rows
    <3>2. row' = Touched(s) BY <2>1 DEF Reserved
    <3> HIDE DEF s
    <3> QED BY <1>d, <3>1, <3>2
  <2>2. clock \in Stamp /\ Never \in Stamp BY DEF IInv, TypeOK, SharedTypeOK, Stamp
  <2> QED BY <1>1, <1>f, <2>1, <2>2
          DEF BeginRequest, Create, Import, ReadForComplete, ReadForReprocess,
              ReadForRemove, sharedVars
<1>2. ASSUME NEW r \in Requests, RequestStep(r), ~At(r, "point") PROVE FALSE
  <2>1. ~Quarantine(r)
    <3> SUFFICES ASSUME Quarantine(r) PROVE FALSE OBVIOUS
    <3> DEFINE s == [row EXCEPT !.status = "FAILED", !.quarantinedAt = clock]
    <3>1. s \in Rows /\ s.key = row.key
      BY <1>a, <1>e DEF Rows, Stamp, IInv, TypeOK, SharedTypeOK
    <3>2. row' = Touched(s) BY <1>f DEF Quarantine
    <3> HIDE DEF s
    <3> QED BY <1>d, <3>1, <3>2
  <2>2. ~RecordHash(r)
    <3> SUFFICES ASSUME RecordHash(r) PROVE FALSE OBVIOUS
    <3> DEFINE s == [row EXCEPT !.sha = req[r].etag]
    <3>1. s \in Rows /\ s.key = row.key
      BY <1>a DEF Rows, IInv, TypeOK, UploadsTypeOK, ReqStates
    <3>2. row' = Touched(s) BY <1>f DEF RecordHash
    <3> HIDE DEF s
    <3> QED BY <1>d, <3>1, <3>2
  <2>3. ~UndoImport(r) /\ ~DropRow(r) BY <1>c, <1>f DEF UndoImport, DropRow
  <2>4. ~Claim(r) /\ ~Release(r) /\ ~Mark(r) BY <1>b, <1>e, <1>f DEF Claim, Release, Mark
  <2> QED BY <1>2, <1>f, <2>1, <2>2, <2>3, <2>4
          DEF RequestStep, WriteImport, ReadForComplete, HeadObject, Purge, Scan, Copy,
              PointToVerified, SweepStaging, Enqueue, EraseObjects, sharedVars
<1>3. ASSUME NEW c \in Cleaners, CleanerStep(c) PROVE FALSE
  <2>1. ~ClaimExpired(c)
    <3> SUFFICES ASSUME ClaimExpired(c) PROVE FALSE OBVIOUS
    <3> DEFINE t == IF row.expiredAt = Never THEN cleaner[c].now ELSE row.expiredAt
               s == [row EXCEPT !.status = "FAILED", !.cleanupAt = cleaner[c].now,
                                !.expiredAt = t]
    <3>1. cleaner[c].now \in Stamp /\ t \in Stamp
      BY <1>a DEF IInv, TypeOK, CleanupTypeOK, CleanerStates, Stamp, Rows
    <3>2. s \in Rows /\ s.key = row.key BY <1>a, <1>e, <3>1 DEF Rows
    <3>3. row' = Touched(s) BY <1>f DEF ClaimExpired, Expired
    <3> HIDE DEF s
    <3> QED BY <1>d, <3>2, <3>3
  <2>2. ~RecordCleanupFailure(c) BY <1>a, <1>d, <1>f DEF RecordCleanupFailure
  <2>3. ~RemoveExpired(c) BY <1>c, <1>f DEF RemoveExpired
  <2> QED BY <1>3, <1>f, <2>1, <2>2, <2>3
          DEF CleanerStep, SelectAbandoned, DeleteStaging, sharedVars
<1>4. ASSUME NEW w \in Workers, WorkerStep(w) PROVE FALSE
  <2>1. worker[w].result \in Status
    BY DEF IInv, TypeOK, ProcessingTypeOK, WorkerStates, Status
  <2> QED BY <1>4, <1>b, <1>e, <1>f, <2>1
          DEF WorkerStep, TakeJob, Complete, Retry, Settle, FindDocument, StartProcessing,
              Extract, FinishProcessing, RecordProcessingFailure, sharedVars
<1>5. PICK r \in Requests : At(r, "point")
  BY <1>f, <1>1, <1>2, <1>3, <1>4
     DEF Next, Environment, Tick, UpdateSignatures, UploadsNext, ClientPut, CrashRequest,
         CleanupNext, CrashCleaner, ProcessingNext, StallCheck, LoseLock, CrashWorker,
         sharedVars, vars
<1>6. row.key = "staging"
  BY <1>a, RowMovesForward DEF Forward, Rows, Keys
<1> QED BY <1>5, <1>6

(* Only the cleanup's claim sets the expiry.                               *)
LEMMA ExpiryCauses ==
  ASSUME IInv, [Next]_vars, row.expiredAt = Never, row'.expiredAt # Never
  PROVE  \E c \in Cleaners : ClaimExpired(c) /\ Unchanged(c)
<1>a. row \in Rows BY DEF IInv, TypeOK, SharedTypeOK
<1>b. ASSUME NEW s \in Status, row' = Touched([row EXCEPT !.status = s]) PROVE FALSE
  BY <1>a, <1>b, StatusWritten
<1>c. row' # [row EXCEPT !.status = "DELETED"] BY <1>a DEF Rows
<1>d. ASSUME NEW s \in Rows, s.expiredAt = Never, row' = Touched(s) PROVE FALSE
  BY <1>d, TouchedFields
<1>e. {"ABSENT", "UPLOADED", "PROCESSING", "FAILED", "DELETED", "PROCESSED",
       "NEEDS_REVIEW"} = Status
  BY DEF Status, Extracted
<1>f. row' # row OBVIOUS
<1>1. ASSUME NEW r \in Requests, BeginRequest(r) PROVE FALSE
  <2>1. ASSUME NEW t \in Stamp, row' = Reserved(t) PROVE FALSE
    <3> DEFINE s == [row EXCEPT !.status = "UPLOADED", !.presignedAt = t]
    <3>1. s \in Rows /\ s.expiredAt = Never BY <1>a, <1>e DEF Rows
    <3>2. row' = Touched(s) BY <2>1 DEF Reserved
    <3> HIDE DEF s
    <3> QED BY <1>d, <3>1, <3>2
  <2>2. clock \in Stamp /\ Never \in Stamp BY DEF IInv, TypeOK, SharedTypeOK, Stamp
  <2> QED BY <1>1, <1>f, <2>1, <2>2
          DEF BeginRequest, Create, Import, ReadForComplete, ReadForReprocess,
              ReadForRemove, sharedVars
<1>2. ASSUME NEW r \in Requests, RequestStep(r) PROVE FALSE
  <2>1. ~Quarantine(r)
    <3> SUFFICES ASSUME Quarantine(r) PROVE FALSE OBVIOUS
    <3> DEFINE s == [row EXCEPT !.status = "FAILED", !.quarantinedAt = clock]
    <3>1. s \in Rows /\ s.expiredAt = Never
      BY <1>a, <1>e DEF Rows, Stamp, IInv, TypeOK, SharedTypeOK
    <3>2. row' = Touched(s) BY <1>f DEF Quarantine
    <3> HIDE DEF s
    <3> QED BY <1>d, <3>1, <3>2
  <2>2. ~RecordHash(r)
    <3> SUFFICES ASSUME RecordHash(r) PROVE FALSE OBVIOUS
    <3> DEFINE s == [row EXCEPT !.sha = req[r].etag]
    <3>1. s \in Rows /\ s.expiredAt = Never
      BY <1>a DEF Rows, IInv, TypeOK, UploadsTypeOK, ReqStates
    <3>2. row' = Touched(s) BY <1>f DEF RecordHash
    <3> HIDE DEF s
    <3> QED BY <1>d, <3>1, <3>2
  <2>3. ~PointToVerified(r)
    <3> SUFFICES ASSUME PointToVerified(r) PROVE FALSE OBVIOUS
    <3> DEFINE s == [row EXCEPT !.key = "verified"]
    <3>1. s \in Rows /\ s.expiredAt = Never BY <1>a DEF Rows, Keys
    <3>2. row' = Touched(s) BY <1>f DEF PointToVerified
    <3> HIDE DEF s
    <3> QED BY <1>d, <3>1, <3>2
  <2>4. ~UndoImport(r) /\ ~DropRow(r) BY <1>c, <1>f DEF UndoImport, DropRow
  <2>5. ~Claim(r) /\ ~Release(r) /\ ~Mark(r) BY <1>b, <1>e, <1>f DEF Claim, Release, Mark
  <2> QED BY <1>2, <1>f, <2>1, <2>2, <2>3, <2>4, <2>5
          DEF RequestStep, WriteImport, ReadForComplete, HeadObject, Purge, Scan, Copy,
              SweepStaging, Enqueue, EraseObjects, sharedVars
<1>3. ASSUME NEW w \in Workers, WorkerStep(w) PROVE FALSE
  <2>1. worker[w].result \in Status
    BY DEF IInv, TypeOK, ProcessingTypeOK, WorkerStates, Status
  <2> QED BY <1>3, <1>b, <1>e, <1>f, <2>1
          DEF WorkerStep, TakeJob, Complete, Retry, Settle, FindDocument, StartProcessing,
              Extract, FinishProcessing, RecordProcessingFailure, sharedVars
<1>4. PICK c \in Cleaners : CleanerStep(c)
  BY <1>f, <1>1, <1>2, <1>3
     DEF Next, Environment, Tick, UpdateSignatures, UploadsNext, ClientPut, CrashRequest,
         CleanupNext, CrashCleaner, ProcessingNext, StallCheck, LoseLock, CrashWorker,
         sharedVars, vars
<1>5. ~RecordCleanupFailure(c) BY <1>a, <1>d, <1>f DEF RecordCleanupFailure
<1>6. ~RemoveExpired(c) BY <1>c, <1>f DEF RemoveExpired
<1> QED BY <1>4, <1>5, <1>6, <1>f
        DEF CleanerStep, ClaimExpired, SelectAbandoned, DeleteStaging, sharedVars

LEMMA ObjectInit == Init => ObjectInv
<1> SUFFICES ASSUME Init PROVE ObjectInv OBVIOUS
<1>1. IInv BY IInvInit
<1>2. row.key = "staging" BY DEF Init, SharedInit
<1>3. \A r \in Requests : req[r].op = "none" /\ req[r].pc = "idle"
  BY DEF Init, UploadsInit
<1>4. ASSUME NEW r \in Requests PROVE ObjectOK(r) BY <1>3 DEF ObjectOK, At
<1> QED BY <1>1, <1>2, <1>4 DEF ObjectInv, PromotedHasObject

(* Where a request can be and which operation it then performs.            *)
LEMMA RemovalNext ==
  ASSUME ObjectInv, [Next]_vars, NEW r \in Requests
  PROVE  /\ At(r, "erase")' => req'[r].op = "remove"
         /\ req'[r].op = "remove" => req'[r].pc \in {"erase", "drop", "done"}
         /\ req[r].op = "remove" => req'[r].op = "remove"
<1> DEFINE Goal == /\ At(r, "erase")' => req'[r].op = "remove"
                   /\ req'[r].op = "remove" => req'[r].pc \in {"erase", "drop", "done"}
                   /\ req[r].op = "remove" => req'[r].op = "remove"
<1>a. UploadsTypeOK /\ IInv /\ ObjectOK(r) BY DEF ObjectInv, IInv, TypeOK
<1>b. ASSUME NEW pc, Goto(r, pc), pc # "erase",
             pc \in {"drop", "done"} \/ req[r].pc \notin {"erase", "drop", "done"}
      PROVE  Goal
  BY <1>a, <1>b, GotoFields DEF ObjectOK, At
<1>c. ASSUME NEW op, NEW pc, Snapshot(r, op, pc), op # "remove" => pc # "erase",
             op = "remove" => pc \in {"erase", "drop", "done"}, req[r].op # "remove"
      PROVE  Goal
  BY <1>a, <1>c, SnapshotFields DEF At
<1>d. Abort(r) \in {"done", "release"} BY DEF Abort
<1>1. CASE req'[r] = req[r] BY <1>a, <1>1 DEF ObjectOK, At
<1>2. CASE BeginRequest(r)
  <2>1. req[r].op # "remove" BY <1>a, <1>2
    DEF BeginRequest, Create, Import, ReadForReprocess, ReadForRemove, Starts, ObjectOK, At
  <2>2. CASE ReadForRemove(r) BY <1>c, <2>1, <2>2 DEF ReadForRemove
  <2>3. CASE ReadForReprocess(r) BY <1>c, <2>1, <2>3 DEF ReadForReprocess
  <2>4. CASE ReadForComplete(r) BY <1>c, <2>1, <2>4 DEF ReadForComplete
  <2>5. CASE Create(r) \/ Import(r) BY <1>c, <2>1, <2>5 DEF Create, Import
  <2> QED BY <1>2, <2>2, <2>3, <2>4, <2>5 DEF BeginRequest
<1>3. CASE At(r, "read") /\ ReadForComplete(r)
  <2>1. req[r].op # "remove" BY <1>a, <1>3 DEF ObjectOK, At
  <2> QED BY <1>c, <1>3, <2>1 DEF ReadForComplete
<1>4. CASE HeadObject(r)
  <2>1. ASSUME At(r, "head"),
               req' = [req EXCEPT ![r].pc = "scan", ![r].etag = store[req[r].key]]
        PROVE  Goal
    <3>1. req'[r].pc = "scan" /\ req'[r].op = req[r].op
      BY <1>a, <2>1 DEF UploadsTypeOK, ReqStates
    <3> QED BY <1>a, <2>1, <3>1 DEF ObjectOK, At
  <2> QED BY <1>4, <1>b, <1>d, <2>1 DEF HeadObject, At
<1>5. CASE EraseObjects(r) \/ DropRow(r) \/ CrashRequest(r)
  BY <1>5, <1>b DEF EraseObjects, DropRow, CrashRequest
<1>6. CASE WriteImport(r) \/ UndoImport(r) \/ Claim(r) \/ Release(r) \/ Mark(r)
           \/ Quarantine(r) \/ Purge(r)
  BY <1>6, <1>b, <1>d
     DEF WriteImport, UndoImport, Claim, Release, Mark, Quarantine, Purge, At
<1>7. CASE Scan(r) \/ Copy(r) \/ PointToVerified(r) \/ SweepStaging(r)
           \/ RecordHash(r) \/ Enqueue(r)
  BY <1>7, <1>b, <1>d
     DEF Scan, Copy, PointToVerified, SweepStaging, RecordHash, Enqueue, At
<1> QED BY <1>a, <1>1, <1>2, <1>3, <1>4, <1>5, <1>6, <1>7, ActingRequest DEF RequestStep

LEMMA ObjectNext == ObjectInv /\ [Next]_vars => ObjectInv'
<1> SUFFICES ASSUME ObjectInv, [Next]_vars PROVE ObjectInv' OBVIOUS
<1>1. IInv /\ IInv' /\ TypeOK' BY IInvNext DEF ObjectInv, IInv
<1>2. Forward BY <1>1, RowMovesForward
<1>3. ASSUME NEW r \in Requests PROVE ObjectOK(r)'
  <2>a. UploadsTypeOK /\ ObjectOK(r) BY <1>1 DEF ObjectInv, IInv, TypeOK
  <2>1. ASSUME At(r, "purge")' PROVE Gone' \/ row'.quarantinedAt # Never
    <3>1. CASE At(r, "purge") BY <1>2, <2>a, <3>1 DEF ObjectOK, Forward
    <3>2. CASE ~At(r, "purge")
      <4>1. BeginRequest(r) \/ RequestStep(r) \/ CrashRequest(r)
        BY <1>1, <2>1, <3>2, ActingRequest DEF At
      <4>2. ASSUME NEW pc, Goto(r, pc) PROVE pc = "purge"
        BY <2>1, <2>a, <4>2, GotoFields DEF At
      <4>3. ASSUME NEW op, NEW pc, Snapshot(r, op, pc) PROVE pc = "purge"
        BY <2>1, <2>a, <4>3, SnapshotFields DEF At
      <4>4. ~BeginRequest(r) /\ ~CrashRequest(r) /\ ~ReadForComplete(r)
        BY <4>2, <4>3 DEF BeginRequest, Create, Import, ReadForComplete,
                          ReadForReprocess, ReadForRemove, CrashRequest
      <4>5. Abort(r) # "purge" BY DEF Abort
      <4>6. req' # [req EXCEPT ![r].pc = "scan", ![r].etag = store[req[r].key]]
        BY <2>1, <2>a DEF UploadsTypeOK, ReqStates, At
      <4>7. ~HeadObject(r) BY <4>2, <4>5, <4>6 DEF HeadObject
      <4>8. ~Scan(r) /\ ~Copy(r) /\ ~PointToVerified(r) /\ ~SweepStaging(r)
            /\ ~RecordHash(r) /\ ~Enqueue(r) /\ ~Purge(r)
        BY <4>2, <4>5 DEF Scan, Copy, PointToVerified, SweepStaging, RecordHash, Enqueue,
                          Purge
      <4>9. ~WriteImport(r) /\ ~UndoImport(r) /\ ~Claim(r) /\ ~Release(r) /\ ~Mark(r)
            /\ ~EraseObjects(r) /\ ~DropRow(r)
        BY <4>2 DEF WriteImport, UndoImport, Claim, Release, Mark, EraseObjects, DropRow
      <4>10. row' = Touched([row EXCEPT !.status = "FAILED", !.quarantinedAt = clock])
        BY <4>1, <4>2, <4>4, <4>5, <4>7, <4>8, <4>9 DEF RequestStep, Quarantine
      <4> DEFINE s == [row EXCEPT !.status = "FAILED", !.quarantinedAt = clock]
      <4>11. s \in Rows /\ s.quarantinedAt = clock /\ clock # Never
        BY <1>1, IdentityAssumption
           DEF IInv, TypeOK, SharedTypeOK, Rows, Stamp, Status, Extracted
      <4>12. row' = Touched(s) BY <4>10
      <4> HIDE DEF s
      <4> QED BY <4>11, <4>12, TouchedFields
    <3> QED BY <3>1, <3>2
  <2>2. ASSUME At(r, "point")', row'.key = "staging" PROVE store'["verified"] # NoBytes
    <3> SUFFICES ASSUME store'["verified"] = NoBytes PROVE FALSE OBVIOUS
    <3>0. row.key = "staging"
      BY <1>1, <1>2, <2>2 DEF Forward, IInv, TypeOK, SharedTypeOK, Rows, Keys
    <3>1. store["verified"] = NoBytes
      <4> SUFFICES ASSUME store["verified"] # NoBytes PROVE FALSE OBVIOUS
      <4>1. PICK q \in Requests : req[q].key = "verified" BY <1>1, VerifiedStays
      <4> QED BY <1>1, <3>0, <4>1 DEF IInv, RequestOK
    <3>2. ~At(r, "point") BY <2>a, <3>0, <3>1 DEF ObjectOK
    <3>3. BeginRequest(r) \/ RequestStep(r) \/ CrashRequest(r)
      BY <1>1, <2>2, <3>2, ActingRequest DEF At
    <3>4. ASSUME NEW pc, Goto(r, pc) PROVE pc = "point"
      BY <2>2, <2>a, <3>4, GotoFields DEF At
    <3>5. ASSUME NEW op, NEW pc, Snapshot(r, op, pc) PROVE pc = "point"
      BY <2>2, <2>a, <3>5, SnapshotFields DEF At
    <3>6. ~BeginRequest(r) /\ ~CrashRequest(r) /\ ~ReadForComplete(r)
      BY <3>4, <3>5 DEF BeginRequest, Create, Import, ReadForComplete,
                        ReadForReprocess, ReadForRemove, CrashRequest
    <3>7. Abort(r) # "point" BY DEF Abort
    <3>8. req' # [req EXCEPT ![r].pc = "scan", ![r].etag = store[req[r].key]]
      BY <2>2, <2>a DEF UploadsTypeOK, ReqStates, At
    <3>9. ~HeadObject(r) BY <3>4, <3>7, <3>8 DEF HeadObject
    <3>10. ~Scan(r) /\ ~PointToVerified(r) /\ ~SweepStaging(r) /\ ~Quarantine(r)
           /\ ~RecordHash(r) /\ ~Enqueue(r) /\ ~Purge(r)
      BY <3>4, <3>7 DEF Scan, PointToVerified, SweepStaging, RecordHash, Enqueue, Purge,
                        Quarantine
    <3>11. ~WriteImport(r) /\ ~UndoImport(r) /\ ~Claim(r) /\ ~Release(r) /\ ~Mark(r)
           /\ ~EraseObjects(r) /\ ~DropRow(r)
      BY <3>4 DEF WriteImport, UndoImport, Claim, Release, Mark, EraseObjects, DropRow
    <3>12. Copy(r) BY <3>3, <3>6, <3>9, <3>10, <3>11 DEF RequestStep
    <3>13. SourceMatches(r) /\ store' = [store EXCEPT !["verified"] = store[req[r].key]]
      BY <3>4, <3>7, <3>12 DEF Copy
    <3>14. req[r].etag \in Bytes /\ store \in [Keys -> Bytes \cup {NoBytes}]
      BY <1>1, <3>12, BytesAssumption
         DEF Copy, IInv, RequestOK, At, TypeOK, SharedTypeOK
    <3> QED BY <3>13, <3>14, BytesAssumption DEF SourceMatches, Keys
  <2> QED BY <2>1, <2>2, RemovalNext DEF ObjectOK, At
<1>4. PromotedHasObject'
  <2> SUFFICES ASSUME Exists', row'.key = "verified", row'.quarantinedAt = Never,
                      ~Removing', store'["verified"] = NoBytes
               PROVE  FALSE
    BY DEF PromotedHasObject
  <2>1. row.status # "DELETED" /\ row.quarantinedAt = Never
    BY <1>2 DEF Forward, Gone, Exists
  <2>2. ~Removing BY RemovalNext DEF Removing
  <2>3. row.key = "verified" /\ store["verified"] # NoBytes
    <3>1. CASE row.key = "verified"
      <4>1. Exists BY <1>1, <2>1, <3>1 DEF Exists, IInv, AbsentIsFresh
      <4> QED BY <2>1, <2>2, <3>1, <4>1 DEF ObjectInv, PromotedHasObject
    <3>2. CASE row.key # "verified"
      <4>1. PICK r \in Requests : At(r, "point") /\ row.key = "staging"
        BY <1>1, <3>2, KeyChanges
      <4>2. store["verified"] # NoBytes BY <4>1 DEF ObjectInv, ObjectOK
      <4>3. PICK q \in Requests : req[q].key = "verified" BY <1>1, <4>2, VerifiedStays
      <4> QED BY <1>1, <3>2, <4>3 DEF IInv, RequestOK
    <3> QED BY <3>1, <3>2
  <2>4. PICK r \in Requests : Purge(r) \/ EraseObjects(r) BY <1>1, <2>3, VerifiedStays
  <2>5. CASE Purge(r) BY <2>1, <2>5 DEF Purge, ObjectInv, ObjectOK, Gone
  <2>6. CASE EraseObjects(r)
    BY <2>2, <2>6 DEF EraseObjects, ObjectInv, ObjectOK, Removing
  <2> QED BY <2>4, <2>5, <2>6
<1> QED BY <1>1, <1>3, <1>4 DEF ObjectInv

(* The strengthened invariant holds: see ObjectInv in EvidencePipeline.    *)
THEOREM ObjectInvariantCorrect == Spec => []ObjectInv
BY ObjectInit, ObjectNext, PTL DEF Spec

(* No promoted document loses its object to a retry, an overlap or the     *)
(* cleanup: only a quarantine or remove() takes it away.                   *)
THEOREM ObjectIsKept == Spec => []PromotedHasObject
<1>1. ObjectInv => PromotedHasObject BY DEF ObjectInv
<1> QED BY <1>1, ObjectInvariantCorrect, PTL

(* The cleanup expires only what nobody has touched for AbandonedAge.      *)
THEOREM ExpiryIsJustified == Spec => OnlyAbandonedExpire
<1> DEFINE A == row.expiredAt = Never /\ row'.expiredAt # Never
                  => row.touched + AbandonedAge <= clock
<1>1. IInv /\ IInv' /\ [Next]_vars => [A]_vars
  <2> SUFFICES ASSUME IInv, IInv', [Next]_vars, row.expiredAt = Never,
                      row'.expiredAt # Never
               PROVE  row.touched + AbandonedAge <= clock
    OBVIOUS
  <2>1. PICK c \in Cleaners : ClaimExpired(c) /\ Unchanged(c) BY ExpiryCauses
  <2>2. /\ cleaner[c].version = row.version
        /\ cleaner[c].expiredAt = Never /\ cleaner[c].pc = "claim"
    BY <2>1 DEF ClaimExpired, Unchanged
  <2>3. cleaner[c].status \notin {"ABSENT", "DELETED"} BY <2>1, <2>2 DEF IInv, CleanerOK
  <2>4. row.touched + AbandonedAge <= cleaner[c].now /\ cleaner[c].now <= clock
    BY <2>2 DEF IInv, CleanerOK
  <2>5. /\ row.touched \in Nat /\ cleaner[c].now \in Nat /\ clock \in Nat
        /\ AbandonedAge \in Nat
    BY CleanupAssumption
       DEF IInv, TypeOK, SharedTypeOK, CleanupTypeOK, Rows, CleanerStates
  <2> QED BY <2>4, <2>5
<1> QED BY <1>1, InvariantCorrect, PTL DEF Spec, OnlyAbandonedExpire

(* The cleanup never changes a promoted document, nor removes it.          *)
THEOREM PromotedIsSpared == Spec => CleanupSparesPromoted
<1>1. ASSUME CleanupNext, row.key = "verified" PROVE row' = row
  BY <1>1 DEF CleanupNext, CleanerStep, SelectAbandoned, ClaimExpired, Unchanged,
              DeleteStaging, RecordCleanupFailure, StillMine, RemoveExpired, CrashCleaner,
              sharedVars
<1>2. [Next]_vars => [CleanupNext /\ row.key = "verified" => row' = row]_vars
  BY <1>1
<1> QED BY <1>2, PTL DEF Spec, CleanupSparesPromoted

-----------------------------------------------------------------------------
(* What is PROCESSING is owned, where the database answers and no process  *)
(* dies.                                                                   *)

(* A quarantine leaves the document FAILED.                                *)
QuarantineFails ==
  row.quarantinedAt = Never /\ row'.quarantinedAt # Never => row'.status = "FAILED"

LEMMA QuarantineCauses ==
  ASSUME IInv, TypeOK', [Next]_vars
  PROVE  QuarantineFails
<1>a. /\ row \in Rows /\ row.status \in Status /\ clock \in Nat
      /\ clock \in Stamp /\ Never \in Stamp /\ clock # Never
  BY IdentityAssumption DEF IInv, TypeOK, SharedTypeOK, Rows, Stamp
<1>b. {"ABSENT", "UPLOADED", "PROCESSING", "FAILED", "DELETED", "PROCESSED",
       "NEEDS_REVIEW"} = Status
  BY DEF Status, Extracted
<1>c. ASSUME UNCHANGED row PROVE QuarantineFails BY <1>c DEF QuarantineFails
<1>d. ASSUME NEW s \in Status, row' = Touched([row EXCEPT !.status = s])
      PROVE  QuarantineFails
  BY <1>a, <1>d, StatusWritten DEF QuarantineFails
<1>e. ASSUME row' = [row EXCEPT !.status = "DELETED"] PROVE QuarantineFails
  BY <1>a, <1>e, RowDropped DEF QuarantineFails
<1>f. ASSUME NEW s \in Rows, row' = Touched(s), s.quarantinedAt = row.quarantinedAt
      PROVE  QuarantineFails
  BY <1>f, TouchedFields DEF QuarantineFails
<1>1. ASSUME NEW r \in Requests, BeginRequest(r) PROVE QuarantineFails
  <2>1. ASSUME NEW t \in Stamp, row' = Reserved(t) PROVE QuarantineFails
    <3> DEFINE s == [row EXCEPT !.status = "UPLOADED", !.presignedAt = t]
    <3>1. s \in Rows /\ s.status = "UPLOADED" /\ s.quarantinedAt = row.quarantinedAt
      BY <1>a, <1>b DEF Rows
    <3>2. row' = Touched(s) BY <2>1 DEF Reserved
    <3> HIDE DEF s
    <3> QED BY <1>f, <3>1, <3>2
  <2> QED BY <1>1, <1>a, <1>c, <2>1
          DEF BeginRequest, Create, Import, ReadForComplete, ReadForReprocess, ReadForRemove,
              sharedVars
<1>2. ASSUME NEW r \in Requests, RequestStep(r) PROVE QuarantineFails
  <2>1. CASE UndoImport(r) BY <1>c, <1>e, <2>1 DEF UndoImport
  <2>2. CASE Claim(r) BY <1>b, <1>c, <1>d, <2>2 DEF Claim
  <2>3. CASE Release(r) BY <1>b, <1>c, <1>d, <2>3 DEF Release
  <2>4. CASE Mark(r) BY <1>b, <1>c, <1>d, <2>4 DEF Mark
  <2>5. CASE Quarantine(r)
    <3>1. ASSUME row' = Touched([row EXCEPT !.status = "FAILED", !.quarantinedAt = clock])
          PROVE  QuarantineFails
      <4> DEFINE s == [row EXCEPT !.status = "FAILED", !.quarantinedAt = clock]
      <4>1. s \in Rows /\ s.status = "FAILED" /\ s.quarantinedAt = clock
        BY <1>a, <1>b DEF Rows
      <4>2. row' = Touched(s) BY <3>1
      <4> HIDE DEF s
      <4> QED BY <1>a, <4>1, <4>2, TouchedFields DEF QuarantineFails
    <3> QED BY <1>c, <2>5, <3>1 DEF Quarantine
  <2>6. CASE PointToVerified(r)
    <3>1. /\ [row EXCEPT !.key = "verified"] \in Rows
          /\ [row EXCEPT !.key = "verified"].status = row.status
          /\ [row EXCEPT !.key = "verified"].quarantinedAt = row.quarantinedAt
      BY <1>a DEF Rows, Keys
    <3> QED BY <1>c, <1>f, <2>6, <3>1 DEF PointToVerified
  <2>7. CASE RecordHash(r)
    <3>1. req[r].etag \in Bytes \cup {NoBytes} BY DEF IInv, TypeOK, UploadsTypeOK, ReqStates
    <3>2. /\ [row EXCEPT !.sha = req[r].etag] \in Rows
          /\ [row EXCEPT !.sha = req[r].etag].status = row.status
          /\ [row EXCEPT !.sha = req[r].etag].quarantinedAt = row.quarantinedAt
      BY <1>a, <3>1 DEF Rows
    <3> QED BY <1>c, <1>f, <2>7, <3>2 DEF RecordHash
  <2>8. CASE DropRow(r) BY <1>c, <1>e, <2>8 DEF DropRow
  <2>9. CASE UNCHANGED row BY <1>c, <2>9
  <2> QED
    BY <1>2, <2>1, <2>2, <2>3, <2>4, <2>5, <2>6, <2>7, <2>8, <2>9
       DEF RequestStep, WriteImport, ReadForComplete, HeadObject, Purge, Scan, Copy,
           SweepStaging, Enqueue, EraseObjects, sharedVars
<1>3. ASSUME NEW c \in Cleaners, CleanerStep(c) PROVE QuarantineFails
  <2>1. CASE ClaimExpired(c)
    <3>1. ASSUME row' = Expired(c) PROVE QuarantineFails
      <4> DEFINE t == IF row.expiredAt = Never THEN cleaner[c].now ELSE row.expiredAt
                 s == [row EXCEPT !.status = "FAILED", !.cleanupAt = cleaner[c].now,
                                  !.expiredAt = t]
      <4>1. cleaner[c].now \in Stamp /\ t \in Stamp /\ t # Never
        BY <1>a, IdentityAssumption
           DEF IInv, TypeOK, CleanupTypeOK, CleanerStates, Stamp, Rows
      <4>2. /\ s \in Rows /\ s.status = "FAILED" /\ s.expiredAt = t
            /\ s.quarantinedAt = row.quarantinedAt
        BY <1>a, <1>b, <4>1 DEF Rows
      <4>3. row' = Touched(s) BY <3>1 DEF Expired
      <4> HIDE DEF s
      <4> QED BY <4>1, <4>2, <4>3, TouchedFields DEF QuarantineFails
    <3> QED BY <1>c, <2>1, <3>1 DEF ClaimExpired
  <2>2. CASE RecordCleanupFailure(c)
    <3>1. ASSUME row' = Touched(row) PROVE QuarantineFails BY <1>a, <1>f, <3>1
    <3> QED BY <1>c, <2>2, <3>1 DEF RecordCleanupFailure
  <2>3. CASE RemoveExpired(c) BY <1>c, <1>e, <2>3 DEF RemoveExpired
  <2>4. CASE UNCHANGED row BY <1>c, <2>4
  <2> QED BY <1>3, <2>1, <2>2, <2>3, <2>4
          DEF CleanerStep, SelectAbandoned, DeleteStaging, sharedVars
<1>4. ASSUME NEW w \in Workers, WorkerStep(w) PROVE QuarantineFails
  <2>1. CASE StartProcessing(w) BY <1>b, <1>c, <1>d, <2>1 DEF StartProcessing
  <2>2. CASE FinishProcessing(w)
    <3>1. worker[w].result \in Status /\ worker[w].result # "FAILED"
      BY <1>b DEF IInv, TypeOK, ProcessingTypeOK, WorkerStates, Extracted
    <3> QED BY <1>c, <1>d, <2>2, <3>1 DEF FinishProcessing
  <2>3. CASE RecordProcessingFailure(w)
    <3>1. row' = Touched([row EXCEPT !.status = "FAILED"]) => row'.quarantinedAt = row.quarantinedAt
      BY <1>a, <1>b, StatusWritten
    <3> QED BY <1>c, <2>3, <3>1 DEF RecordProcessingFailure, QuarantineFails
  <2>4. CASE UNCHANGED row BY <1>c, <2>4
  <2> QED BY <1>4, <2>1, <2>2, <2>3, <2>4
          DEF WorkerStep, TakeJob, Complete, Retry, Settle, FindDocument, Extract, sharedVars
<1>5. CASE UNCHANGED row BY <1>c, <1>5
<1> QED
  BY <1>1, <1>2, <1>3, <1>4, <1>5
     DEF Next, Environment, Tick, UpdateSignatures, UploadsNext, ClientPut, CrashRequest,
         CleanupNext, CrashCleaner, ProcessingNext, StallCheck, LoseLock, CrashWorker,
         sharedVars, vars

(* A worker's step leaves the other workers where they are.                *)
LEMMA ActingWorker ==
  ASSUME IInv, [Next]_vars, NEW w \in Workers, worker'[w] # worker[w]
  PROVE  /\ WorkerStep(w) \/ CrashWorker(w)
         /\ \A v \in Workers : v # w => worker'[v] = worker[v]
<1>a. worker \in [Workers -> WorkerStates] BY DEF IInv, TypeOK, ProcessingTypeOK
<1>1. PICK u \in Workers : WorkerStep(u) \/ CrashWorker(u)
  BY DEF Next, Environment, vars, ProcessingNext, StallCheck, LoseLock
<1>2. ASSUME NEW v \in Workers, v # u PROVE worker'[v] = worker[v]
  BY <1>a, <1>1, <1>2
     DEF WorkerStep, TakeJob, Complete, Retry, Settle, FindDocument, StartProcessing,
         Extract, FinishProcessing, RecordProcessingFailure, CrashWorker, WorkerGoto
<1> QED BY <1>1, <1>2

Calm == Faults \cap {"database", "crash"} = {}

LEMMA WorkerGoes ==
  ASSUME worker \in [Workers -> WorkerStates], NEW w \in Workers, NEW pc, WorkerGoto(w, pc)
  PROVE  worker'[w].pc = pc
BY DEF WorkerGoto, WorkerStates

(* A busy worker goes on until it has written a status.                    *)
LEMMA BusyEnds ==
  ASSUME Calm, IInv, [Next]_vars, NEW w \in Workers, Busy(w), ~Busy(w)'
  PROVE  ~Open'
<1>a. /\ worker \in [Workers -> WorkerStates] /\ row \in Rows
      /\ worker[w].result \in Extracted
  BY DEF IInv, TypeOK, SharedTypeOK, ProcessingTypeOK, WorkerStates
<1>b. \A s \in {"FAILED"} \cup Extracted : s \in Status /\ s \notin {"UPLOADED", "PROCESSING"}
  BY DEF Status, Extracted
<1>c. ~Faulty("database") /\ ~Faulty("crash") BY DEF Calm, Faulty
<1>d. \A pc \in {"extract", "finish", "fail"} : ~WorkerGoto(w, pc) BY <1>a, WorkerGoes DEF Busy
<1>1. WorkerStep(w) \/ CrashWorker(w) BY ActingWorker DEF Busy
<1>2. CASE FinishProcessing(w)
  BY <1>a, <1>b, <1>c, <1>d, <1>2, StatusWritten DEF FinishProcessing, Open
<1>3. CASE RecordProcessingFailure(w)
  BY <1>a, <1>b, <1>c, <1>3, StatusWritten DEF RecordProcessingFailure, Exists, Open
<1>4. CASE Extract(w)
  <2>1. ASSUME NEW s, worker' = [worker EXCEPT ![w].pc = "finish", ![w].result = s]
        PROVE  FALSE
    <3>1. worker'[w].pc = "finish" BY <1>a, <2>1 DEF WorkerStates
    <3> QED BY <3>1 DEF Busy
  <2> QED BY <1>d, <1>4, <2>1 DEF Extract
<1>5. ~CrashWorker(w) BY <1>c DEF CrashWorker
<1> QED
  BY <1>1, <1>2, <1>3, <1>4, <1>5
     DEF WorkerStep, TakeJob, Complete, Retry, FindDocument, StartProcessing, WorkerAt, Busy

LEMMA BusyBegins ==
  ASSUME Calm, IInv, NEW w \in Workers, StartProcessing(w), Exists
  PROVE  Busy(w)'
<1>a. worker \in [Workers -> WorkerStates] BY DEF IInv, TypeOK, ProcessingTypeOK
<1>b. ~Faulty("database") BY DEF Calm, Faulty
<1> QED BY <1>a, <1>b, WorkerGoes DEF StartProcessing, Busy

(* A worker reports success after its status, or for what is skipped.      *)
LEMMA ReportBegins ==
  ASSUME Calm, IInv, [Next]_vars, NEW w \in Workers, WorkerAt(w, "ack")', ~WorkerAt(w, "ack")
  PROVE  ~Open' \/ (row' = row /\ Skips)
<1>a. /\ worker \in [Workers -> WorkerStates] /\ row \in Rows
      /\ worker[w].result \in Extracted
  BY DEF IInv, TypeOK, SharedTypeOK, ProcessingTypeOK, WorkerStates
<1>b. \A s \in Extracted : s \in Status /\ s \notin {"UPLOADED", "PROCESSING"} BY DEF Status, Extracted
<1>c. ~Faulty("crash") BY DEF Calm, Faulty
<1>d. \A pc : WorkerGoto(w, pc) => pc = "ack" BY <1>a, WorkerGoes DEF WorkerAt
<1>1. WorkerStep(w) \/ CrashWorker(w) BY ActingWorker DEF WorkerAt
<1>2. CASE FinishProcessing(w)
  BY <1>a, <1>b, <1>d, <1>2, StatusWritten DEF FinishProcessing, Open
<1>3. CASE FindDocument(w)
  <2>1. worker' # [worker EXCEPT ![w].pc = "start", ![w].key = row.key]
    BY <1>a DEF WorkerAt, WorkerStates
  <2> QED BY <1>d, <1>3, <2>1 DEF FindDocument, sharedVars
<1>4. CASE Extract(w)
  <2>1. \A s : worker' # [worker EXCEPT ![w].pc = "finish", ![w].result = s]
    BY <1>a DEF WorkerAt, WorkerStates
  <2> QED BY <1>d, <1>4, <2>1 DEF Extract
<1>5. ~\E j \in JobIds : TakeJob(w, j)
  <2>1. \A j : worker' # [worker EXCEPT ![w].pc = "find", ![w].job = j]
    BY <1>a DEF WorkerAt, WorkerStates
  <2> QED BY <2>1 DEF TakeJob
<1>6. ~Complete(w) /\ ~Retry(w) /\ ~StartProcessing(w) /\ ~RecordProcessingFailure(w)
      /\ ~CrashWorker(w)
  BY <1>d DEF Complete, Retry, Settle, StartProcessing, RecordProcessingFailure, CrashWorker
<1> QED BY <1>1, <1>2, <1>3, <1>4, <1>5, <1>6 DEF WorkerStep

(* A claim ends with its release or with a job.                            *)
LEMMA HolderLeaves ==
  ASSUME Calm, IInv, [Next]_vars, NEW r \in Requests, HoldsClaim(r), ~HoldsClaim(r)'
  PROVE  \/ Release(r)
         \/ Enqueue(r) /\ queue' = Added(DocumentJob)
<1>a. UploadsTypeOK /\ req[r].op = "complete" BY DEF IInv, TypeOK, HoldsClaim
<1>b. ~Faulty("crash") BY DEF Calm, Faulty
<1>c. {"head", "reject", "block", "purge", "scan", "copy", "point", "sweep", "hash",
       "enqueue", "release"} = ClaimedPcs
  BY DEF ClaimedPcs, SecurePcs
<1>d. \A pc \in ClaimedPcs : ~Goto(r, pc)
  <2> SUFFICES ASSUME NEW pc \in ClaimedPcs, Goto(r, pc) PROVE FALSE OBVIOUS
  <2> QED BY <1>a, GotoFields DEF HoldsClaim
<1>e. Abort(r) \in ClaimedPcs BY <1>a, <1>c DEF Abort
<1>1. BeginRequest(r) \/ RequestStep(r) \/ CrashRequest(r) BY ActingRequest DEF HoldsClaim
<1>2. ~BeginRequest(r) /\ ~CrashRequest(r)
  BY <1>b, <1>c DEF BeginRequest, Create, Import, ReadForReprocess, ReadForRemove, Starts,
                    CrashRequest, At, HoldsClaim
<1>3. ~HeadObject(r)
  <2>1. req' # [req EXCEPT ![r].pc = "scan", ![r].etag = store[req[r].key]]
    <3> SUFFICES ASSUME req' = [req EXCEPT ![r].pc = "scan", ![r].etag = store[req[r].key]]
                 PROVE  FALSE
      OBVIOUS
    <3>1. req'[r].pc = "scan" /\ req'[r].op = "complete"
      BY <1>a DEF UploadsTypeOK, ReqStates
    <3> QED BY <1>c, <3>1 DEF HoldsClaim
  <2> QED BY <1>c, <1>d, <1>e, <2>1 DEF HeadObject
<1>4. ~Quarantine(r) /\ ~Purge(r) /\ ~Scan(r) /\ ~Copy(r) /\ ~PointToVerified(r)
      /\ ~SweepStaging(r) /\ ~RecordHash(r)
  BY <1>c, <1>d, <1>e
     DEF Quarantine, Purge, Scan, Copy, PointToVerified, SweepStaging, RecordHash
<1>5. ~WriteImport(r) /\ ~UndoImport(r) /\ ~(At(r, "read") /\ ReadForComplete(r))
      /\ ~Claim(r) /\ ~Mark(r) /\ ~EraseObjects(r) /\ ~DropRow(r)
  BY <1>c DEF WriteImport, UndoImport, Claim, Mark, EraseObjects, DropRow, At, HoldsClaim
<1>6. Enqueue(r) => queue' = Added(DocumentJob) BY <1>a, <1>d, <1>e DEF Enqueue
<1> QED BY <1>1, <1>2, <1>3, <1>4, <1>5, <1>6 DEF RequestStep

(* An unsettled job ends with a worker's report.                           *)
LEMMA JobLeaves ==
  ASSUME IInv, [Next]_vars, NEW j \in JobIds, Unsettled(j), ~Unsettled(j)'
  PROVE  \E w \in Workers : WorkerAt(w, "ack")
<1> SUFFICES ASSUME \A w \in Workers : ~WorkerAt(w, "ack") PROVE FALSE OBVIOUS
<1>a. queue \in [JobIds -> Jobs] /\ \A w \in Workers : worker[w].job \in JobIds
  BY DEF IInv, TypeOK, SharedTypeOK, ProcessingTypeOK, WorkerStates
<1>b. \A w \in Workers : ~Complete(w) BY DEF Complete
<1>1. ASSUME NEW i \in JobIds, queue' = Added(i) PROVE FALSE
  BY <1>a, <1>1 DEF Added, Unsettled, Jobs
<1>2. ASSUME NEW w \in Workers, NEW i \in JobIds, TakeJob(w, i) PROVE FALSE
  BY <1>a, <1>2 DEF TakeJob, Unsettled, Jobs
<1>3. ASSUME NEW w \in Workers, Retry(w) PROVE FALSE
  <2>1. queue[worker[w].job] \in Jobs BY <1>a, <1>3
  <2>2. Retried(queue[worker[w].job]).state \in {"waiting", "failed"}
    BY <2>1 DEF Retried, Jobs
  <2> QED BY <1>a, <1>3, <2>2 DEF Retry, Settle, Unsettled
<1>4. ASSUME NEW w \in Workers, LoseLock(w) \/ CrashWorker(w) PROVE FALSE
  BY <1>a, <1>4 DEF LoseLock, CrashWorker, Unsettled, Jobs
<1>5. ASSUME NEW i \in JobIds, StallCheck(i) PROVE FALSE
  BY <1>a, <1>5 DEF StallCheck, Unsettled, Jobs
<1>6. queue' # queue BY DEF Unsettled
<1>7. ASSUME NEW r \in Requests, Enqueue(r) PROVE FALSE
  BY <1>1, <1>6, <1>7 DEF Enqueue, JobIds
<1>8. ASSUME NEW w \in Workers, WorkerStep(w) PROVE FALSE
  BY <1>b, <1>2, <1>3, <1>6, <1>8
     DEF WorkerStep, FindDocument, StartProcessing, Extract, FinishProcessing,
         RecordProcessingFailure, sharedVars
<1> QED
  BY <1>4, <1>5, <1>6, <1>7, <1>8
     DEF Next, Environment, Tick, UpdateSignatures, UploadsNext, ClientPut, BeginRequest,
         Create, Import, ReadForComplete, ReadForReprocess, ReadForRemove, RequestStep,
         WriteImport, UndoImport, Claim, Release, Mark, HeadObject, Quarantine, Purge, Scan,
         Copy, PointToVerified, SweepStaging, RecordHash, EraseObjects, DropRow, CrashRequest,
         CleanupNext, CleanerStep, SelectAbandoned, ClaimExpired, DeleteStaging,
         RecordCleanupFailure, RemoveExpired, CrashCleaner, ProcessingNext, sharedVars, vars

LEMMA StaysQueued == IInv /\ [Next]_vars /\ Enqueued => Enqueued'
BY QueueKeeps DEF Enqueued

(* A worker that is not idle has a job.                                    *)
LEMMA WorkIsQueued ==
  ASSUME IInv, NEW w \in Workers, ~WorkerAt(w, "idle")
  PROVE  Enqueued
BY DEF IInv, TypeOK, ProcessingTypeOK, WorkerStates, WorkerOK, Enqueued

(* Only a worker opens a document that has a job, and only with a status   *)
(* of its own to follow.                                                   *)
LEMMA OpenCauses ==
  ASSUME Calm, DeliveryInv, TypeOK', [Next]_vars, Enqueued, ~Open, Open'
  PROVE  Working'
<1>a. IInv BY DEF DeliveryInv
<1>1. row.status # "ABSENT"
  <2>1. Gone \/ row.key = "verified" BY <1>a DEF IInv, OnlySecuredIsQueued, Enqueued
  <2> QED BY <1>a, <2>1 DEF IInv, AbsentIsFresh, Gone
<1>2. ~Claimable /\ ~Releasable BY DEF Claimable, Releasable, Open
<1>3. PICK w \in Workers : StartProcessing(w) /\ Exists
  BY <1>a, <1>1, <1>2, StatusChanges DEF StatusCauses, Extracted, Open
<1>4. Busy(w)' BY <1>a, <1>3, BusyBegins
<1> QED BY <1>4 DEF Working

LEMMA WorkGoesOn ==
  ASSUME Calm, IInv, [Next]_vars, Working, Open'
  PROVE  Working'
<1>1. PICK w \in Workers : Busy(w) BY DEF Working
<1>2. Busy(w)' BY <1>1, BusyEnds
<1> QED BY <1>2 DEF Working

LEMMA WorkingIsQueued == IInv /\ Working => Enqueued
BY WorkIsQueued DEF Working, Busy, WorkerAt

LEMMA QuarantineNext ==
  ASSUME Calm, DeliveryInv, TypeOK', [Next]_vars
  PROVE  QuarantineCloses' /\ (row'.status = "ABSENT" => row'.quarantinedAt = Never)
<1>a. IInv /\ QuarantineCloses /\ Forward BY RowMovesForward DEF DeliveryInv
<1>b. row'.status # "FAILED" /\ row'.quarantinedAt # Never => row.quarantinedAt # Never
  BY <1>a, QuarantineCauses DEF QuarantineFails
<1>1. row'.status = "ABSENT" => row'.quarantinedAt = Never
  BY <1>a, <1>b DEF Forward, DeliveryInv
<1>2. ASSUME Open', row'.quarantinedAt # Never PROVE Working'
  <2>1. row.quarantinedAt # Never BY <1>b, <1>2 DEF Open
  <2>2. CASE Open BY <1>a, <1>2, <2>1, <2>2, WorkGoesOn DEF QuarantineCloses
  <2>3. CASE ~Open
    <3>1. row.status # "ABSENT" /\ ~Claimable /\ ~Releasable
      BY <2>1, <2>3 DEF DeliveryInv, Claimable, Releasable, Open
    <3>2. PICK w \in Workers : StartProcessing(w) /\ Exists
      BY <1>a, <1>2, <2>3, <3>1, StatusChanges DEF StatusCauses, Extracted, Open
    <3>3. Busy(w)' BY <1>a, <3>2, BusyBegins
    <3> QED BY <3>3 DEF Working
  <2> QED BY <2>2, <2>3
<1> QED BY <1>1, <1>2 DEF QuarantineCloses

LEMMA ReportNext ==
  ASSUME Calm, DeliveryInv, TypeOK', [Next]_vars, QuarantineCloses'
  PROVE  ReportIsTrue'
<1>a. IInv /\ ReportIsTrue BY DEF DeliveryInv
<1> SUFFICES ASSUME NEW w \in Workers, WorkerAt(w, "ack")', Open'
             PROVE  Working'
  BY DEF ReportIsTrue
<1>1. CASE WorkerAt(w, "ack") /\ Open BY <1>a, <1>1, WorkGoesOn DEF ReportIsTrue
<1>2. CASE WorkerAt(w, "ack") /\ ~Open
  <2>1. Enqueued BY <1>a, <1>2, WorkIsQueued DEF WorkerAt
  <2> QED BY <1>2, <2>1, OpenCauses
<1>3. CASE ~WorkerAt(w, "ack")
  <2>1. row' = row /\ Skips BY <1>a, <1>3, ReportBegins
  <2>2. row'.quarantinedAt # Never
    BY <1>a, <2>1 DEF Skips, IInv, ExpiredStaysFailed, Open
  <2> QED BY <2>2 DEF QuarantineCloses
<1> QED BY <1>1, <1>2, <1>3

(* The first job there is waits to be taken.                               *)
LEMMA FirstJobWaits ==
  ASSUME IInv, [Next]_vars, ~Enqueued, Enqueued'
  PROVE  \E j \in JobIds : Unsettled(j)'
<1>a. queue \in [JobIds -> Jobs] BY DEF IInv, TypeOK, SharedTypeOK
<1>b. \A j \in JobIds : queue[j].state = "none" BY DEF Enqueued
<1>1. PICK j \in JobIds : queue'[j].state # "none" BY DEF Enqueued
<1>2. PICK r \in Requests : Enqueue(r) BY <1>b, <1>1, QueueKeeps
<1>3. PICK i \in JobIds : queue' = Added(i)
  BY <1>b, <1>1, <1>2 DEF Enqueue, JobIds
<1>4. queue'[i].state = "waiting" BY <1>a, <1>b, <1>3 DEF Added, Jobs
<1> QED BY <1>4 DEF Unsettled

LEMMA OwedNext ==
  ASSUME Calm, DeliveryInv, TypeOK', [Next]_vars
  PROVE  JobIsOwed'
<1>a. IInv /\ ReportIsTrue /\ JobIsOwed BY DEF DeliveryInv
<1> SUFFICES ASSUME Open', Enqueued'
             PROVE  Working' \/ \E j \in JobIds : Unsettled(j)'
  BY DEF JobIsOwed
<1>1. CASE ~Enqueued BY <1>a, <1>1, FirstJobWaits
<1>2. CASE Enqueued /\ ~Open BY <1>2, OpenCauses
<1>3. CASE Enqueued /\ Open
  <2>1. CASE Working BY <1>a, <2>1, WorkGoesOn
  <2>2. ASSUME NEW j \in JobIds, Unsettled(j), ~Unsettled(j)' PROVE Working'
    <3>1. PICK w \in Workers : WorkerAt(w, "ack") BY <1>a, <2>2, JobLeaves
    <3>2. Working BY <1>a, <1>3, <3>1 DEF ReportIsTrue
    <3> QED BY <1>a, <3>2, WorkGoesOn
  <2> QED BY <1>a, <1>3, <2>1, <2>2 DEF JobIsOwed
<1> QED BY <1>1, <1>2, <1>3

LEMMA HeldNext ==
  ASSUME Calm, DeliveryInv, TypeOK', [Next]_vars
  PROVE  ClaimIsHeld'
<1>a. /\ IInv /\ ClaimIsHeld /\ QuarantineCloses
      /\ \A r \in Requests : At(r, "claim") => req[r].op = "complete"
  BY DEF DeliveryInv
<1>b. /\ row \in Rows /\ UploadsTypeOK /\ "UPLOADED" \in Status
      /\ queue \in [JobIds -> Jobs] /\ DocumentJob \in JobIds
  BY <1>a DEF IInv, TypeOK, SharedTypeOK, Status, JobIds
<1> SUFFICES ASSUME row'.status = "PROCESSING", ~Enqueued' PROVE Held'
  BY DEF ClaimIsHeld
<1>c. ~Enqueued /\ ~Working BY <1>a, StaysQueued, WorkingIsQueued
<1>1. CASE row.status # "PROCESSING"
  <2>1. ~\E w \in Workers : StartProcessing(w) BY <1>a, <1>c, WorkIsQueued DEF StartProcessing, WorkerAt
  <2>2. PICK r \in Requests : Claim(r) /\ Claimable
    BY <1>a, <1>1, <2>1, StatusChanges DEF StatusCauses, Extracted
  <2>3. req[r].op = "complete" BY <1>a, <2>2 DEF Claim
  <2>4. req'[r].pc = "head" /\ req'[r].op = "complete" BY <1>b, <2>2, <2>3, GotoFields DEF Claim
  <2> QED BY <2>4 DEF Held, HoldsClaim, ClaimedPcs, SecurePcs
<1>2. CASE row.status = "PROCESSING"
  <2>1. PICK r \in Requests : HoldsClaim(r) BY <1>a, <1>c, <1>2 DEF ClaimIsHeld, Held
  <2>2. ~Release(r)
    <3>1. row.quarantinedAt = Never /\ row.expiredAt = Never
      BY <1>a, <1>c, <1>2 DEF QuarantineCloses, Open, IInv, ExpiredStaysFailed
    <3>2. Releasable BY <1>2, <3>1 DEF Releasable
    <3> QED BY <1>b, <3>2, StatusWritten DEF Release, Calm, Faulty
  <2>3. queue' # Added(DocumentJob)
    <3>1. queue[DocumentJob].state = "none" BY <1>b, <1>c DEF Enqueued
    <3>2. Added(DocumentJob)[DocumentJob].state = "waiting" BY <1>b, <3>1 DEF Added, Jobs
    <3> QED BY <1>b, <3>2 DEF Enqueued
  <2>4. HoldsClaim(r)' BY <1>a, <2>1, <2>2, <2>3, HolderLeaves
  <2> QED BY <2>4 DEF Held
<1> QED BY <1>1, <1>2

(* Only complete() asks for a claim.                                       *)
LEMMA ClaimsNext ==
  ASSUME DeliveryInv, [Next]_vars, NEW r \in Requests, At(r, "claim")'
  PROVE  req'[r].op = "complete"
<1>a. IInv /\ UploadsTypeOK BY DEF DeliveryInv, IInv, TypeOK
<1>b. \A pc : Goto(r, pc) => pc = "claim" BY <1>a, GotoFields DEF At
<1>c. \A op, pc : Snapshot(r, op, pc) => pc = "claim" /\ req'[r].op = op
  BY <1>a, SnapshotFields DEF At
<1>d. Abort(r) # "claim" BY AbortType
<1>1. CASE req'[r] = req[r] BY <1>1 DEF DeliveryInv, At
<1>2. CASE BeginRequest(r)
  BY <1>c, <1>2 DEF BeginRequest, Create, Import, ReadForComplete, ReadForReprocess, ReadForRemove
<1>3. CASE HeadObject(r)
  <2>1. req' # [req EXCEPT ![r].pc = "scan", ![r].etag = store[req[r].key]]
    BY <1>a DEF At, UploadsTypeOK, ReqStates
  <2> QED BY <1>3, <1>b, <1>d, <2>1 DEF HeadObject
<1>4. CASE RequestStep(r) \/ CrashRequest(r)
  BY <1>b, <1>c, <1>d, <1>3, <1>4
     DEF RequestStep, CrashRequest, WriteImport, UndoImport, ReadForComplete, Claim, Release,
         Mark, Quarantine, Purge, Scan, Copy, PointToVerified, SweepStaging, RecordHash, Enqueue,
         EraseObjects, DropRow
<1> QED BY <1>a, <1>1, <1>2, <1>4, ActingRequest

LEMMA DeliveryInit == Init => DeliveryInv
<1> SUFFICES ASSUME Init PROVE DeliveryInv OBVIOUS
<1>1. IInv BY IInvInit
<1>2. row.status = "ABSENT" /\ row.quarantinedAt = Never BY DEF Init, SharedInit
<1>3. \A r \in Requests : req[r].pc = "idle" BY DEF Init, UploadsInit
<1> QED BY <1>1, <1>2, <1>3
        DEF DeliveryInv, ClaimIsHeld, JobIsOwed, QuarantineCloses, ReportIsTrue, Open, At

LEMMA DeliveryNext ==
  ASSUME Calm, DeliveryInv, [Next]_vars
  PROVE  DeliveryInv'
<1>1. IInv' /\ TypeOK' BY IInvNext DEF DeliveryInv, IInv
<1>2. QuarantineCloses' /\ (row'.status = "ABSENT" => row'.quarantinedAt = Never)
  BY <1>1, QuarantineNext
<1>3. ReportIsTrue' BY <1>1, <1>2, ReportNext
<1>4. JobIsOwed' BY <1>1, OwedNext
<1>5. ClaimIsHeld' BY <1>1, HeldNext
<1>6. \A r \in Requests : At(r, "claim")' => req'[r].op = "complete" BY ClaimsNext
<1> QED BY <1>1, <1>2, <1>3, <1>4, <1>5, <1>6 DEF DeliveryInv

(* Where the database answers and no process dies, a document that is      *)
(* PROCESSING always has somebody who will write its next status, or a job *)
(* that did not end in success: whatever locks are lost, storage, scanner  *)
(* or queue fail, and however requests, workers and cleanups overlap.      *)
THEOREM ProcessingHasOwner ==
  ASSUME Faults \cap {"database", "crash"} = {}
  PROVE  Spec => []ProcessingIsOwned
<1>1. Calm BY DEF Calm
<1>2. DeliveryInv /\ [Next]_vars => DeliveryInv' BY <1>1, DeliveryNext
<1>3. DeliveryInv => ProcessingIsOwned
  BY DEF DeliveryInv, ClaimIsHeld, JobIsOwed, ProcessingIsOwned, Open
<1> QED BY <1>2, <1>3, DeliveryInit, PTL DEF Spec

(* Hence completed jobs and nobody at work leave no document PROCESSING.   *)
THEOREM CompletedCorrect ==
  ASSUME Faults \cap {"database", "crash"} = {}
  PROVE  Spec => []CompletedLeavesNothingProcessing
<1>1. ASSUME ProcessingIsOwned PROVE CompletedLeavesNothingProcessing
  <2> SUFFICES ASSUME Quiet, AllCompleted, row.status = "PROCESSING" PROVE FALSE
    BY DEF CompletedLeavesNothingProcessing
  <2>1. ~Held BY DEF Quiet, Held, HoldsClaim, ClaimedPcs, SecurePcs
  <2>2. ~Working BY DEF Quiet, Working, Busy, WorkerAt
  <2>3. \A j \in JobIds : ~Unsettled(j) BY DEF AllCompleted, Unsettled
  <2> QED BY <1>1, <2>1, <2>2, <2>3 DEF ProcessingIsOwned
<1> QED BY <1>1, ProcessingHasOwner, PTL
=============================================================================
