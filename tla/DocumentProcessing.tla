-------------------------- MODULE DocumentProcessing --------------------------
(***************************************************************************)
(* The worker's processUploadedDocument and the BullMQ delivery under it:  *)
(* a waiting job is locked by a worker; a job whose lock is not renewed is *)
(* stalled, redelivered once and then failed; a handler that throws is     *)
(* retried until MaxAttempts.  Delivery is at least once: a worker that    *)
(* lost its lock runs on beside the one that took its job over.            *)
(***************************************************************************)
EXTENDS EvidenceDocument

CONSTANTS
  MaxAttempts,   \* attempts: 3 in addProcessDocumentJob
  MaxStalls      \* BullMQ's maxStalledCount, 1 by default

ASSUME AttemptsAssumption == MaxAttempts \in Nat \ {0} /\ MaxStalls \in Nat

VARIABLE worker  \* worker[w]: the job it runs, where it is, its snapshot

WorkerStates == [pc : {"idle", "find", "start", "extract", "finish", "fail", "ack", "nack"},
                 job : JobIds, key : Keys, result : Extracted]

ProcessingTypeOK == worker \in [Workers -> WorkerStates]

ProcessingInit ==
  worker = [w \in Workers |-> [pc |-> "idle", job |-> DocumentJob, key |-> "staging",
                               result |-> "PROCESSED"]]

WorkerAt(w, pc) == worker[w].pc = pc
WorkerGoto(w, pc) == worker' = [worker EXCEPT ![w].pc = pc]

-----------------------------------------------------------------------------
(* BullMQ.                                                                 *)

TakeJob(w, j) ==
  /\ WorkerAt(w, "idle") /\ queue[j].state = "waiting"
  /\ queue' = [queue EXCEPT ![j].state = "active", ![j].owner = w]
  /\ worker' = [worker EXCEPT ![w].pc = "find", ![w].job = j]
  /\ UNCHANGED <<row, store, clock, signatures, passed>>

Holds(w) == queue[worker[w].job].owner = w

(* Only the lock's owner can settle the job; another's answer is refused.  *)
Settle(w, job) ==
  /\ queue' = IF Holds(w) THEN [queue EXCEPT ![worker[w].job] = job] ELSE queue
  /\ WorkerGoto(w, "idle")
  /\ UNCHANGED <<row, store, clock, signatures, passed>>

Complete(w) ==
  /\ WorkerAt(w, "ack")
  /\ Settle(w, [queue[worker[w].job] EXCEPT !.state = "completed", !.owner = NoWorker])

(* Mutation: no limit to the attempts.                                     *)
RetriedForever(job) == [job EXCEPT !.state = "waiting", !.owner = NoWorker]

(* attempts: 3 with exponential backoff; a delayed job counts as waiting.  *)
Retried(job) ==
  [job EXCEPT !.attempts = @ + 1, !.owner = NoWorker,
              !.state = IF job.attempts + 1 < MaxAttempts THEN "waiting" ELSE "failed"]

Retry(w) ==
  /\ WorkerAt(w, "nack")
  /\ Settle(w, Retried(queue[worker[w].job]))

LoseLock(w) ==
  /\ Faulty("lock") /\ ~WorkerAt(w, "idle") /\ Holds(w)
  /\ queue' = [queue EXCEPT ![worker[w].job].owner = NoWorker]
  /\ UNCHANGED <<row, store, clock, signatures, passed, worker>>

StallCheck(j) ==
  /\ queue[j].state = "active" /\ queue[j].owner = NoWorker
  /\ queue' = [queue EXCEPT ![j].stalls = @ + 1,
                 ![j].state = IF queue[j].stalls < MaxStalls THEN "waiting" ELSE "failed"]
  /\ UNCHANGED <<row, store, clock, signatures, passed, worker>>

-----------------------------------------------------------------------------
(* processUploadedDocument.                                                *)

(* Mutation: only quarantined documents are skipped.                       *)
SkipsQuarantined == row.quarantinedAt # Never

Skips == row.quarantinedAt # Never \/ row.expiredAt # Never

FindDocument(w) ==
  /\ WorkerAt(w, "find")
  /\ \/ ~Exists /\ WorkerGoto(w, "nack")
     \/ Exists /\ Skips /\ WorkerGoto(w, "ack")
     \/ /\ Exists /\ ~Skips
        /\ worker' = [worker EXCEPT ![w].pc = "start", ![w].key = row.key]
     \/ Faulty("database") /\ WorkerGoto(w, "nack")
  /\ UNCHANGED sharedVars

(* The status is written by id, whatever it has become since the read.     *)
(* The log line that follows is outside the try: when it throws, the job   *)
(* fails and the row stays PROCESSING.                                     *)
StartProcessing(w) ==
  /\ WorkerAt(w, "start")
  /\ \/ /\ Exists
        /\ row' = Touched([row EXCEPT !.status = "PROCESSING"])
        /\ \/ WorkerGoto(w, "extract")
           \/ Faulty("database") /\ WorkerGoto(w, "nack")
     \/ (~Exists \/ Faulty("database")) /\ UNCHANGED row /\ WorkerGoto(w, "nack")
  /\ UNCHANGED <<store, queue, clock, signatures, passed>>

(* extractDocumentContent reads the object under the key found before; any *)
(* document may defeat the extractor.                                      *)
Extract(w) ==
  /\ WorkerAt(w, "extract")
  /\ \/ /\ store[worker[w].key] # NoBytes
        /\ \E s \in Extracted :
             worker' = [worker EXCEPT ![w].pc = "finish", ![w].result = s]
     \/ WorkerGoto(w, "fail")
  /\ UNCHANGED sharedVars

FinishProcessing(w) ==
  /\ WorkerAt(w, "finish")
  /\ \/ Exists /\ row' = Touched([row EXCEPT !.status = worker[w].result])
               /\ WorkerGoto(w, "ack")
     \/ (~Exists \/ Faulty("database")) /\ UNCHANGED row /\ WorkerGoto(w, "fail")
  /\ UNCHANGED <<store, queue, clock, signatures, passed>>

(* The catch block's transaction; whatever happens to it, the job throws.  *)
RecordProcessingFailure(w) ==
  /\ WorkerAt(w, "fail")
  /\ \/ Exists /\ row' = Touched([row EXCEPT !.status = "FAILED"])
     \/ (~Exists \/ Faulty("database")) /\ UNCHANGED row
  /\ WorkerGoto(w, "nack")
  /\ UNCHANGED <<store, queue, clock, signatures, passed>>

CrashWorker(w) ==
  /\ Faulty("crash") /\ ~WorkerAt(w, "idle")
  /\ queue' = IF Holds(w) THEN [queue EXCEPT ![worker[w].job].owner = NoWorker] ELSE queue
  /\ WorkerGoto(w, "idle")
  /\ UNCHANGED <<row, store, clock, signatures, passed>>

WorkerStep(w) ==
  \/ \E j \in JobIds : TakeJob(w, j)
  \/ Complete(w) \/ Retry(w)
  \/ FindDocument(w) \/ StartProcessing(w) \/ Extract(w)
  \/ FinishProcessing(w) \/ RecordProcessingFailure(w)

ProcessingNext ==
  \/ \E j \in JobIds : StallCheck(j)
  \/ \E w \in Workers : WorkerStep(w) \/ LoseLock(w) \/ CrashWorker(w)
=============================================================================
