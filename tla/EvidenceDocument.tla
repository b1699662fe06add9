-------------------------- MODULE EvidenceDocument --------------------------
(***************************************************************************)
(* The state that the evidence components share: one Document row in       *)
(* PostgreSQL, the two private storage keys that can hold its bytes, its   *)
(* jobs in the BullMQ queue document-processing, and the clock.  The API   *)
(* (DocumentUploads), the hourly cleanup (UploadCleanup) and the worker    *)
(* (DocumentProcessing) extend this module; EvidencePipeline composes them.*)
(*                                                                         *)
(* Rows of different documents share no key, no job and no statement, so   *)
(* one row is modelled.  A row's bytes are opaque: two objects are equal   *)
(* exactly when their ETags are, so an ETag is represented by the bytes.   *)
(***************************************************************************)
EXTENDS Naturals

CONSTANTS
  Requests,       \* HTTP requests to the API; each runs once
  Workers,        \* worker processes consuming document-processing
  Bytes,          \* the objects a client can upload
  ValidBytes,     \* those whose size and type match the reservation
  ThreatBytes,    \* those some ClamAV signature will ever match
  NoBytes,        \* no object under a storage key; no fingerprint yet
  Never,          \* a timestamp column that is null
  DocumentJob,    \* the job id complete() uses, the document's own id
  NoWorker,       \* a job whose lock nobody renews
  MaxClock,       \* bound: the clock stops here
  Faults          \* the kinds of failure this instance has

FaultKinds == {"storage",    \* an object-storage call throws
               "scanner",    \* ClamAV or the read behind it throws
               "queue",      \* queue.add throws
               "database",   \* a statement or transaction throws
               "crash",      \* a process dies between two steps
               "lock"}       \* a running worker fails to renew its job lock

ASSUME BytesAssumption ==
  /\ ValidBytes \subseteq Bytes /\ ThreatBytes \subseteq Bytes
  /\ NoBytes \notin Bytes

ASSUME IdentityAssumption ==
  /\ DocumentJob \notin Requests
  /\ NoWorker \notin Workers
  /\ Never \notin Nat

ASSUME BoundsAssumption == MaxClock \in Nat /\ Faults \subseteq FaultKinds

VARIABLES
  row,         \* the Document row
  store,       \* the private objects, by kind of key
  queue,       \* the jobs of this document
  clock,       \* coarse time; every delay of the code is a number of ticks
  signatures,  \* the threats ClamAV knows of so far
  passed       \* history: the bytes the scanner has let through

sharedVars == <<row, store, queue, clock, signatures, passed>>

(* createUploadStorageKey and createVerifiedStorageKey: the staging key is *)
(* random per reservation, the verified key is a function of the document. *)
Keys == {"staging", "verified"}

(* ABSENT: not inserted yet.  DELETED: the row is gone for good.           *)
Extracted == {"PROCESSED", "NEEDS_REVIEW"}
Status == {"ABSENT", "UPLOADED", "PROCESSING", "FAILED", "DELETED"} \cup Extracted
Stamp == Nat \cup {Never}

(* updatedAt orders writes and dates them: version tells two writes apart, *)
(* touched is the tick of the last one.  presignedAt dates the PUT URL.    *)
Rows == [status : Status, key : Keys, quarantinedAt : Stamp,
         expiredAt : Stamp, cleanupAt : Stamp, sha : Bytes \cup {NoBytes},
         presignedAt : Stamp, touched : Nat, version : Nat]

JobIds == Requests \cup {DocumentJob}
Jobs == [state : {"none", "waiting", "active", "completed", "failed"},
         attempts : Nat, stalls : Nat, owner : Workers \cup {NoWorker}]

Exists == row.status \notin {"ABSENT", "DELETED"}

Faulty(kind) == kind \in Faults

(* Every Prisma update sets updatedAt.                                     *)
Touched(r) == [r EXCEPT !.version = @ + 1, !.touched = clock]

(* queue.add: a job id that the queue still knows is not added again.      *)
Added(j) ==
  IF queue[j].state = "none" THEN [queue EXCEPT ![j].state = "waiting"] ELSE queue

Removed(k) == [store EXCEPT ![k] = NoBytes]

SharedTypeOK ==
  /\ row \in Rows
  /\ store \in [Keys -> Bytes \cup {NoBytes}]
  /\ queue \in [JobIds -> Jobs]
  /\ clock \in Nat
  /\ signatures \subseteq ThreatBytes
  /\ passed \subseteq Bytes

SharedInit ==
  /\ row = [status |-> "ABSENT", key |-> "staging", quarantinedAt |-> Never,
            expiredAt |-> Never, cleanupAt |-> Never, sha |-> NoBytes,
            presignedAt |-> Never, touched |-> 0, version |-> 0]
  /\ store = [k \in Keys |-> NoBytes]
  /\ queue = [j \in JobIds |-> [state |-> "none", attempts |-> 0,
                                stalls |-> 0, owner |-> NoWorker]]
  /\ clock = 0
  /\ signatures \in SUBSET ThreatBytes
  /\ passed = {}

-----------------------------------------------------------------------------
(* The environment: time passes, and freshclam brings new signatures.      *)

Tick ==
  /\ clock < MaxClock
  /\ clock' = clock + 1
  /\ UNCHANGED <<row, store, queue, signatures, passed>>

UpdateSignatures ==
  /\ \E t \in ThreatBytes \ signatures : signatures' = signatures \cup {t}
  /\ UNCHANGED <<row, store, queue, clock, passed>>
=============================================================================
