--------------------------- MODULE EvidencePipeline ---------------------------
(***************************************************************************)
(* The whole life of a piece of evidence: API requests, the client's PUTs, *)
(* the cleanup batch and the processing worker interleave on one document. *)
(***************************************************************************)
EXTENDS DocumentUploads, UploadCleanup, DocumentProcessing

vars == <<row, store, queue, clock, signatures, passed, req, cleaner, worker>>

Init == SharedInit /\ UploadsInit /\ CleanupInit /\ ProcessingInit

Environment ==
  (Tick \/ UpdateSignatures) /\ UNCHANGED <<req, cleaner, worker>>

Next ==
  \/ Environment
  \/ UploadsNext /\ UNCHANGED <<cleaner, worker>>
  \/ CleanupNext /\ UNCHANGED <<req, worker>>
  \/ ProcessingNext /\ UNCHANGED <<req, cleaner>>

Spec == Init /\ [][Next]_vars

(* What the platform promises: an awaited call settles, so a handler that  *)
(* has begun goes on until it returns or its process dies; the hourly      *)
(* cleanup and the queue keep being served; time passes.  Nothing obliges  *)
(* a client to begin a request.                                            *)
Fairness ==
  /\ \A r \in Requests : WF_vars(RequestStep(r) /\ UNCHANGED <<cleaner, worker>>)
  /\ \A c \in Cleaners : WF_vars(CleanerStep(c) /\ UNCHANGED <<req, worker>>)
  /\ \A w \in Workers : WF_vars(WorkerStep(w) /\ UNCHANGED <<req, cleaner>>)
  /\ \A j \in JobIds : WF_vars(StallCheck(j) /\ UNCHANGED <<req, cleaner>>)
  /\ WF_vars(Tick /\ UNCHANGED <<req, cleaner, worker>>)

FairSpec == Spec /\ Fairness

TypeOK == SharedTypeOK /\ UploadsTypeOK /\ CleanupTypeOK /\ ProcessingTypeOK

-----------------------------------------------------------------------------
(* Safety.                                                                 *)

Gone == row.status = "DELETED"

HoldsClaim(r) == req[r].op = "complete" /\ req[r].pc \in ClaimedPcs

(* Of all requests that complete one upload, direct or through a provider  *)
(* import, at most one is past the claim of complete() and has not yet     *)
(* released it, whatever fails and however often the claim is retried.     *)
CompletionIsExclusive ==
  \A r, s \in Requests : HoldsClaim(r) /\ HoldsClaim(s) => r = s

(* The verified key only ever holds bytes of the reserved size and type    *)
(* that the scanner let through, even when the client overwrites the       *)
(* staging object at any moment of secure() or a copy is repeated.         *)
VerifiedBytesAreSafe ==
  store["verified"] # NoBytes => store["verified"] \in ValidBytes \cap passed

(* Fail closed: a processing job exists only for a document whose row has  *)
(* been moved to the verified key and carries a fingerprint (or is gone).  *)
OnlySecuredIsQueued ==
  (\E j \in JobIds : queue[j].state # "none")
    => Gone \/ (row.key = "verified" /\ row.sha # NoBytes)

(* What expireAbandonedUploads has expired stays FAILED until it is gone:  *)
(* no release, completion, reprocessing or worker revives it.              *)
ExpiredStaysFailed == row.expiredAt # Never => row.status \in {"FAILED", "DELETED"}

(* Extraction results are only ever recorded on fingerprinted documents.   *)
ExtractedIsFingerprinted ==
  row.status \in Extracted => row.key = "verified" /\ row.sha # NoBytes

(* What a worker reads to extract from has passed the scan, though it      *)
(* looks the key up long before it reads the object.                       *)
ExtractsScannedBytes ==
  \A w \in Workers : WorkerAt(w, "extract")
    => store[worker[w].key] \in {NoBytes} \cup (ValidBytes \cap passed)

(* A promoted document keeps its object: whatever is retried, overtaken or *)
(* expired on the way, only a quarantine or a removal takes it away.       *)
Removing == \E r \in Requests : req[r].op = "remove"
PromotedHasObject ==
  Exists /\ row.key = "verified" /\ row.quarantinedAt = Never /\ ~Removing
    => store["verified"] # NoBytes

(* When every job was completed and nobody is at work any more, the        *)
(* document is not left PROCESSING: neither the late status write of       *)
(* reprocess() nor a worker that lost its lock brings it back.             *)
Quiet ==
  /\ \A r \in Requests : req[r].pc \in {"idle", "done"}
  /\ \A w \in Workers : WorkerAt(w, "idle")

AllCompleted ==
  /\ \A j \in JobIds : queue[j].state \in {"none", "completed"}
  /\ \E j \in JobIds : queue[j].state = "completed"

CompletedLeavesNothingProcessing ==
  Quiet /\ AllCompleted => row.status # "PROCESSING"

-----------------------------------------------------------------------------
(* Why these hold: what each actor's position says about the row.          *)

(* Nothing has begun before the row exists.                                *)
AbsentIsFresh ==
  row.status = "ABSENT" =>
    /\ row.key = "staging" /\ row.expiredAt = Never
    /\ \A r \in Requests : At(r, "idle")

(* A holder's claim shows in the row: nobody else can claim it.            *)
ClaimShows == \A r \in Requests : HoldsClaim(r) => row.status \notin {"ABSENT", "UPLOADED"}

(* A request's snapshot is of the past, the key only moves from staging to *)
(* verified, and its position says how far secure() has come.              *)
RequestOK(r) ==
  /\ req[r].version <= row.version
  /\ req[r].key = "verified" => row.key = "verified"
  /\ req[r].pc \in {"copy", "point", "sweep"} => req[r].key = "staging"
  /\ At(r, "release") => req[r].op = "complete"
  /\ At(r, "scan") => req[r].etag \in ValidBytes
  /\ req[r].pc \in {"copy", "point", "sweep", "hash", "enqueue"}
       => req[r].etag \in ValidBytes \cap passed
  /\ req[r].pc \in {"sweep", "hash", "enqueue", "mark"} => Gone \/ row.key = "verified"
  /\ req[r].pc \in {"enqueue", "mark"}
       => Gone \/ (row.sha # NoBytes /\ req[r].version < row.version)

(* A busy worker has a job, so a secured document, that was not expired.   *)
WorkerOK(w) ==
  /\ ~WorkerAt(w, "idle") => queue[worker[w].job].state # "none"
  /\ worker[w].pc \in {"start", "extract", "finish"}
       => worker[w].key = "verified" /\ (Gone \/ row.expiredAt = Never)

(* A first claim of the cleanup is justified by the row as selected.       *)
CleanerOK(c) ==
  /\ cleaner[c].version <= row.version /\ cleaner[c].now <= clock
  /\ cleaner[c].pc = "claim" =>
       /\ cleaner[c].status \notin {"ABSENT", "DELETED"}
       /\ cleaner[c].expiredAt = Never /\ cleaner[c].version = row.version
            => row.touched + AbandonedAge <= cleaner[c].now

IInv ==
  /\ TypeOK /\ AbsentIsFresh
  /\ CompletionIsExclusive /\ ClaimShows
  /\ VerifiedBytesAreSafe /\ OnlySecuredIsQueued
  /\ ExtractedIsFingerprinted /\ ExpiredStaysFailed
  /\ \A r \in Requests : RequestOK(r)
  /\ \A w \in Workers : WorkerOK(w)
  /\ \A c \in Cleaners : CleanerOK(c)

(* Why a promoted document has its object: it was copied before the row    *)
(* pointed to it, and is only deleted by what shows in the row or in req.  *)
ObjectOK(r) ==
  /\ At(r, "erase") => req[r].op = "remove"
  /\ req[r].op = "remove" => req[r].pc \in {"erase", "drop", "done"}
  /\ At(r, "purge") => Gone \/ row.quarantinedAt # Never
  /\ At(r, "point") /\ row.key = "staging" => store["verified"] # NoBytes

ObjectInv == IInv /\ PromotedHasObject /\ \A r \in Requests : ObjectOK(r)

(* Who owes a document its next status, where the database answers and no  *)
(* process dies: a worker that has one to write, or a job that did not end *)
(* in success.  Until there is a job, the claim of a completion.           *)
Enqueued == \E j \in JobIds : queue[j].state # "none"
Held == \E r \in Requests : HoldsClaim(r)
Open == row.status \in {"UPLOADED", "PROCESSING"}
Busy(w) == worker[w].pc \in {"extract", "finish", "fail"}
Working == \E w \in Workers : Busy(w)
Unsettled(j) == queue[j].state \in {"waiting", "active", "failed"}

ClaimIsHeld == row.status = "PROCESSING" /\ ~Enqueued => Held
JobIsOwed == Open /\ Enqueued => Working \/ \E j \in JobIds : Unsettled(j)

(* A quarantined document, or one whose worker is about to report success, *)
(* is open only while some worker still has its status to write.           *)
QuarantineCloses == Open /\ row.quarantinedAt # Never => Working
ReportIsTrue == \A w \in Workers : WorkerAt(w, "ack") /\ Open => Working

DeliveryInv ==
  /\ IInv /\ ClaimIsHeld /\ JobIsOwed /\ QuarantineCloses /\ ReportIsTrue
  /\ row.status = "ABSENT" => row.quarantinedAt = Never
  /\ \A r \in Requests : At(r, "claim") => req[r].op = "complete"

(* Every document that is PROCESSING is somebody's.                        *)
ProcessingIsOwned ==
  row.status = "PROCESSING" => Held \/ Working \/ \E j \in JobIds : Unsettled(j)

-----------------------------------------------------------------------------
(* What a step may never do.                                               *)

(* The cleanup expires a reservation only if nobody has touched it for     *)
(* AbandonedAge: a completion claimed between its select and its claim     *)
(* keeps the upload alive.                                                 *)
OnlyAbandonedExpire ==
  [][row.expiredAt = Never /\ row'.expiredAt # Never
       => row.touched + AbandonedAge <= clock]_vars

(* The cleanup leaves a promoted document alone, even one that it expired  *)
(* while a slow completion was still promoting it.                         *)
CleanupSparesPromoted ==
  [][CleanupNext /\ row.key = "verified" => row' = row]_vars

-----------------------------------------------------------------------------
(* Liveness.                                                               *)

(* Every job is eventually settled, whatever crashes, stalls or throws.    *)
JobsSettle ==
  \A j \in JobIds : queue[j].state \in {"waiting", "active"}
                      ~> queue[j].state \in {"completed", "failed"}

(* A document does not stay PROCESSING when no process dies and the        *)
(* database answers: its claim is released, quarantined or processed.      *)
ProcessingEnds == row.status = "PROCESSING" ~> row.status # "PROCESSING"

(* A staged reservation that has been idle for AbandonedAge, or that was   *)
(* expired already, is eventually removed, unless a request touches it:    *)
(* failed deletions and dead batches are retried until one succeeds.       *)
Reclaimable == Exists /\ row.key = "staging" /\ (Abandoned \/ row.expiredAt # Never)
AbandonedAreReclaimed == Reclaimable ~> ~Reclaimable

-----------------------------------------------------------------------------
(* What the documentation says and the code does not do.                   *)

(* A promoted object is not replaced by other bytes: "This keeps a still-  *)
(* valid upload URL from replacing the bytes accepted by the scanner."     *)
PromotedIsImmutable ==
  [][row.key = "verified" /\ store["verified"] # NoBytes
       => store'["verified"] \in {store["verified"], NoBytes}]_vars
=============================================================================
