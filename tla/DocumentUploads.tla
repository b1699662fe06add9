--------------------------- MODULE DocumentUploads ---------------------------
(***************************************************************************)
(* The API's side of a document: DocumentUploadsService (create, provider  *)
(* import, complete, reprocess), DocumentUploadSecurityService (the checks,*)
(* the scan and the promotion both of them go through) and                 *)
(* DocumentRecordsService.remove.  Every awaited call is a step of its own,*)
(* so requests interleave at each of them, and a handler reads the row     *)
(* once and then works from its snapshot, as the code does.                *)
(***************************************************************************)
EXTENDS EvidenceDocument

CONSTANT Ops   \* the operations requests perform in this instance

ASSUME OpsAssumption == Ops \subseteq {"create", "import", "complete", "reprocess", "remove"}

VARIABLE req   \* req[r]: what request r does, where it is, and its snapshot

(* The steps of a request that holds the completion claim.                 *)
SecurePcs == {"head", "reject", "block", "purge", "scan", "copy", "point",
              "sweep", "hash"}
ClaimedPcs == SecurePcs \cup {"enqueue", "release"}
Pcs == ClaimedPcs \cup {"idle", "write", "undo", "read", "claim", "mark",
                        "erase", "drop", "done"}

ReqStates == [op : Ops \cup {"none", "complete"}, pc : Pcs, key : Keys, version : Nat,
              etag : Bytes \cup {NoBytes}]

UploadsTypeOK == req \in [Requests -> ReqStates]

UploadsInit ==
  req = [r \in Requests |-> [op |-> "none", pc |-> "idle", key |-> "staging",
                             version |-> 0, etag |-> NoBytes]]

At(r, pc) == req[r].pc = pc
Goto(r, pc) == req' = [req EXCEPT ![r].pc = pc]

(* The handler's findFirst: it keeps the key and updatedAt it has read.    *)
Snapshot(r, op, pc) ==
  req' = [req EXCEPT ![r] = [op |-> op, pc |-> pc, key |-> row.key,
                             version |-> row.version, etag |-> NoBytes]]

(* Mutations: the exception is propagated without releasing the claim; a   *)
(* scan that did not succeed is logged and the upload queued all the same; *)
(* the handler asks for a step nobody has.                                 *)
AbortWithoutRelease(r) == "done"
AbortFailsOpen(r) ==
  IF At(r, "scan") THEN "enqueue" ELSE IF req[r].op = "complete" THEN "release" ELSE "done"
AbortToNowhere(r) == "retry"

(* Where an exception inside secure() or queue.add leads: complete()       *)
(* releases its claim, reprocess() just propagates it.                     *)
Abort(r) == IF req[r].op = "complete" THEN "release" ELSE "done"

(* A document has an id to ask about once it was inserted, even if it is   *)
(* gone by now.                                                            *)
Starts(r, op) ==
  /\ At(r, "idle") /\ op \in Ops
  /\ (row.status = "ABSENT") <=> (op \in {"create", "import"})

-----------------------------------------------------------------------------
(* create: the reservation row and its presigned PUT.                      *)

Reserved(presignedAt) ==
  Touched([row EXCEPT !.status = "UPLOADED", !.presignedAt = presignedAt])

Create(r) ==
  /\ Starts(r, "create")
  /\ row' = Reserved(clock)
  /\ Snapshot(r, "create", "done")
  /\ UNCHANGED <<store, queue, clock, signatures, passed>>

(* The client's PUT to the presigned URL, valid for 900 s: it can repeat   *)
(* it, with other bytes, whatever has become of the row meanwhile.         *)
ClientPut ==
  /\ row.presignedAt = clock
  /\ \E b \in Bytes : store' = [store EXCEPT !["staging"] = b]
  /\ UNCHANGED <<row, queue, clock, signatures, passed, req>>

-----------------------------------------------------------------------------
(* importProviderEvidence: no URL; the API writes the bytes itself.        *)

Import(r) ==
  /\ Starts(r, "import")
  /\ row' = Reserved(Never)
  /\ Snapshot(r, "import", "write")
  /\ UNCHANGED <<store, queue, clock, signatures, passed>>

(* A write that throws may have stored the object; so has one whose audit  *)
(* record failed afterwards.                                               *)
WriteImport(r) ==
  /\ At(r, "write")
  /\ \/ /\ \E b \in ValidBytes : store' = [store EXCEPT !["staging"] = b]
        /\ \/ Goto(r, "read")
           \/ (Faulty("storage") \/ Faulty("database")) /\ Goto(r, "undo")
     \/ Faulty("storage") /\ UNCHANGED store /\ Goto(r, "undo")
  /\ UNCHANGED <<row, queue, clock, signatures, passed>>

(* Promise.allSettled: each of the two deletions may fail on its own.      *)
UndoImport(r) ==
  /\ At(r, "undo")
  /\ store' \in {Removed("staging")} \cup (IF Faulty("storage") THEN {store} ELSE {})
  /\ \/ Exists /\ row' = [row EXCEPT !.status = "DELETED"]
     \/ (~Exists \/ Faulty("database")) /\ UNCHANGED row
  /\ Goto(r, "done")
  /\ UNCHANGED <<queue, clock, signatures, passed>>

-----------------------------------------------------------------------------
(* complete: read, claim by a conditional update, secure, enqueue.         *)

ReadForComplete(r) ==
  /\ Starts(r, "complete") \/ At(r, "read")
  /\ LET open == Exists /\ row.expiredAt = Never /\ row.status = "UPLOADED"
     IN Snapshot(r, "complete", IF open THEN "claim" ELSE "done")
  /\ UNCHANGED sharedVars

(* Mutation: a claim by id alone, without the status it was read with.     *)
ClaimableById == Exists /\ row.expiredAt = Never

Claimable == row.status = "UPLOADED" /\ row.expiredAt = Never

Claim(r) ==
  /\ At(r, "claim")
  /\ IF Claimable
       THEN row' = Touched([row EXCEPT !.status = "PROCESSING"]) /\ Goto(r, "head")
       ELSE UNCHANGED row /\ Goto(r, "done")
  /\ UNCHANGED <<store, queue, clock, signatures, passed>>

(* releaseCompletionClaim: its own failure is logged and swallowed.        *)
Releasable ==
  row.status = "PROCESSING" /\ row.quarantinedAt = Never /\ row.expiredAt = Never

Release(r) ==
  /\ At(r, "release")
  /\ \/ Releasable /\ row' = Touched([row EXCEPT !.status = "UPLOADED"])
     \/ (~Releasable \/ Faulty("database")) /\ UNCHANGED row
  /\ Goto(r, "done")
  /\ UNCHANGED <<store, queue, clock, signatures, passed>>

-----------------------------------------------------------------------------
(* reprocess: no claim; the status is only looked at.                      *)

Reprocessable ==
  /\ Exists /\ row.quarantinedAt = Never /\ row.expiredAt = Never
  /\ row.status \notin {"UPLOADED", "PROCESSING"}

ReadForReprocess(r) ==
  /\ Starts(r, "reprocess")
  /\ Snapshot(r, "reprocess", IF Reprocessable THEN "head" ELSE "done")
  /\ UNCHANGED sharedVars

(* Mutation: the final update is by id alone.                              *)
MarksById(r) == Exists

(* The final updateMany compares updatedAt with the value read at the start.*)
Marks(r) == Exists /\ row.version = req[r].version

Mark(r) ==
  /\ At(r, "mark")
  /\ IF Marks(r)
       THEN row' = Touched([row EXCEPT !.status = "PROCESSING"])
       ELSE UNCHANGED row
  /\ Goto(r, "done")
  /\ UNCHANGED <<store, queue, clock, signatures, passed>>

-----------------------------------------------------------------------------
(* secure(): validate, scan, promote, fingerprint.                         *)

(* assertStoredUploadAllowed: metadata of the object under the snapshot's  *)
(* key, never under the row's current one.                                 *)
HeadObject(r) ==
  /\ At(r, "head")
  /\ LET found == store[req[r].key]
     IN \/ found = NoBytes /\ Goto(r, "reject")
        \/ found \in Bytes \ ValidBytes /\ Goto(r, "block")
        \/ found \in ValidBytes
             /\ req' = [req EXCEPT ![r].pc = "scan", ![r].etag = found]
        \/ Faulty("storage") /\ Goto(r, Abort(r))
  /\ UNCHANGED sharedVars

(* quarantineUpload: an update by id, so a deleted row makes it throw.     *)
Quarantine(r) ==
  /\ At(r, "reject") \/ At(r, "block")
  /\ \/ /\ Exists
        /\ row' = Touched([row EXCEPT !.status = "FAILED", !.quarantinedAt = clock])
        /\ Goto(r, IF At(r, "block") THEN "purge" ELSE Abort(r))
     \/ /\ ~Exists \/ Faulty("database")
        /\ UNCHANGED row /\ Goto(r, Abort(r))
  /\ UNCHANGED <<store, queue, clock, signatures, passed>>

(* deleteUploadObject after a quarantine: best effort, then the throw.     *)
Purge(r) ==
  /\ At(r, "purge")
  /\ store' \in {Removed(req[r].key)} \cup (IF Faulty("storage") THEN {store} ELSE {})
  /\ Goto(r, Abort(r))
  /\ UNCHANGED <<row, queue, clock, signatures, passed>>

(* scanCompletedUpload: the bytes the scanner streams are those of now; it *)
(* lets them through only if their ETag is the validated one.              *)
Scan(r) ==
  /\ At(r, "scan")
  /\ LET bytes == store[req[r].key]
         same == bytes # NoBytes /\ bytes = req[r].etag
     IN \/ bytes \in signatures /\ Goto(r, "block") /\ UNCHANGED passed
        \/ /\ bytes \notin signatures /\ same
           /\ passed' = passed \cup {bytes}
           /\ Goto(r, IF req[r].key = "staging" THEN "copy" ELSE "hash")
        \/ /\ Faulty("scanner") \/ (bytes \notin signatures /\ ~same)
           /\ Goto(r, Abort(r)) /\ UNCHANGED passed
  /\ UNCHANGED <<row, store, queue, clock, signatures>>

(* Mutation: the copy is made without CopySourceIfMatch.                   *)
SourceIsThere(r) == store[req[r].key] # NoBytes

(* copyStoredObject's CopySourceIfMatch: the source still has the ETag the *)
(* scanner saw.                                                            *)
SourceMatches(r) == store[req[r].key] = req[r].etag

(* A copy that throws may have been performed.                             *)
Copy(r) ==
  /\ At(r, "copy")
  /\ LET copied == [store EXCEPT !["verified"] = store[req[r].key]]
     IN \/ SourceMatches(r) /\ store' = copied /\ Goto(r, "point")
        \/ ~SourceMatches(r) /\ UNCHANGED store /\ Goto(r, Abort(r))
        \/ /\ Faulty("storage")
           /\ store' \in {store} \cup (IF SourceMatches(r) THEN {copied} ELSE {})
           /\ Goto(r, Abort(r))
  /\ UNCHANGED <<row, queue, clock, signatures, passed>>

(* promoteCompletedUpload's transaction: an updateMany, so matching no row *)
(* is not an error.                                                        *)
PointToVerified(r) ==
  /\ At(r, "point")
  /\ \/ /\ IF Exists /\ row.key = req[r].key
             THEN row' = Touched([row EXCEPT !.key = "verified"])
             ELSE UNCHANGED row
        /\ Goto(r, "sweep")
     \/ Faulty("database") /\ UNCHANGED row /\ Goto(r, Abort(r))
  /\ UNCHANGED <<store, queue, clock, signatures, passed>>

SweepStaging(r) ==
  /\ At(r, "sweep")
  /\ store' \in {Removed(req[r].key)} \cup (IF Faulty("storage") THEN {store} ELSE {})
  /\ Goto(r, "hash")
  /\ UNCHANGED <<row, queue, clock, signatures, passed>>

(* The SHA-256 was computed from the scanned stream.                       *)
RecordHash(r) ==
  /\ At(r, "hash")
  /\ \/ Exists /\ row' = Touched([row EXCEPT !.sha = req[r].etag]) /\ Goto(r, "enqueue")
     \/ (~Exists \/ Faulty("database")) /\ UNCHANGED row /\ Goto(r, Abort(r))
  /\ UNCHANGED <<store, queue, clock, signatures, passed>>

(* addProcessDocumentJob: complete() names the job after the document,     *)
(* reprocess() lets BullMQ choose a fresh id.  An add that throws may have *)
(* reached Redis.                                                          *)
Enqueue(r) ==
  /\ At(r, "enqueue")
  /\ LET job == IF req[r].op = "complete" THEN DocumentJob ELSE r
     IN \/ /\ queue' = Added(job)
           /\ Goto(r, IF req[r].op = "complete" THEN "done" ELSE "mark")
        \/ Faulty("queue") /\ queue' \in {queue, Added(job)} /\ Goto(r, Abort(r))
  /\ UNCHANGED <<row, store, clock, signatures, passed>>

-----------------------------------------------------------------------------
(* remove: objects first, then the row.                                    *)

ReadForRemove(r) ==
  /\ Starts(r, "remove")
  /\ Snapshot(r, "remove", IF Exists THEN "erase" ELSE "done")
  /\ UNCHANGED sharedVars

EraseObjects(r) ==
  /\ At(r, "erase")
  /\ \/ store' = Removed(req[r].key) /\ Goto(r, "drop")
     \/ Faulty("storage") /\ store' \in {store, Removed(req[r].key)} /\ Goto(r, "done")
  /\ UNCHANGED <<row, queue, clock, signatures, passed>>

DropRow(r) ==
  /\ At(r, "drop")
  /\ \/ Exists /\ row' = [row EXCEPT !.status = "DELETED"]
     \/ (~Exists \/ Faulty("database")) /\ UNCHANGED row
  /\ Goto(r, "done")
  /\ UNCHANGED <<store, queue, clock, signatures, passed>>

-----------------------------------------------------------------------------
(* The process serving the request dies between two of its steps.          *)
CrashRequest(r) ==
  /\ Faulty("crash") /\ req[r].pc \notin {"idle", "done"}
  /\ Goto(r, "done")
  /\ UNCHANGED sharedVars

(* What a request does once it has begun, and how one begins.              *)
RequestStep(r) ==
  \/ WriteImport(r) \/ UndoImport(r)
  \/ At(r, "read") /\ ReadForComplete(r)
  \/ Claim(r) \/ Release(r) \/ Mark(r)
  \/ HeadObject(r) \/ Quarantine(r) \/ Purge(r) \/ Scan(r) \/ Copy(r)
  \/ PointToVerified(r) \/ SweepStaging(r) \/ RecordHash(r) \/ Enqueue(r)
  \/ EraseObjects(r) \/ DropRow(r)

BeginRequest(r) ==
  \/ Create(r) \/ Import(r)
  \/ At(r, "idle") /\ ReadForComplete(r)
  \/ ReadForReprocess(r) \/ ReadForRemove(r)

UploadsNext == ClientPut \/ \E r \in Requests :
                 BeginRequest(r) \/ RequestStep(r) \/ CrashRequest(r)
=============================================================================
