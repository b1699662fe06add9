---------------------------- MODULE UploadCleanup ----------------------------
(***************************************************************************)
(* The worker's hourly expireAbandonedUploadBatch: a reservation that      *)
(* nobody touched for AbandonedAge is claimed by a conditional update, its *)
(* staging object deleted, then its row.  A failed deletion keeps the row, *)
(* which a later batch takes up again after RetryDelay.  Two batches may   *)
(* overlap (two worker processes, or a stalled job taken over).            *)
(***************************************************************************)
EXTENDS EvidenceDocument

CONSTANTS
  Cleaners,       \* overlapping runs of the cleanup job
  AbandonedAge,   \* abandonedUploadAgeMs, 24 h
  RetryDelay,     \* uploadCleanupRetryDelayMs, 15 min
  Repaired        \* bound: no cleanup step fails from this tick on

ASSUME CleanupAssumption ==
  AbandonedAge \in Nat \ {0} /\ RetryDelay \in Nat /\ Repaired \in Nat

VARIABLE cleaner  \* cleaner[c]: where the batch is, its `now` and its snapshot

CleanerStates == [pc : {"idle", "claim", "delete", "record", "remove"}, now : Nat,
                  status : Status, version : Nat, cleanupAt : Stamp, expiredAt : Stamp]

CleanupTypeOK == cleaner \in [Cleaners -> CleanerStates]

CleanupInit ==
  cleaner = [c \in Cleaners |-> [pc |-> "idle", now |-> 0, status |-> "ABSENT",
                                 version |-> 0, cleanupAt |-> Never, expiredAt |-> Never]]

CleanerGoto(c, pc) == cleaner' = [cleaner EXCEPT ![c].pc = pc]

CleanupFaulty(kind) == Faulty(kind) /\ clock < Repaired

Abandoned ==
  /\ row.status \in {"UPLOADED", "PROCESSING"} /\ row.expiredAt = Never
  /\ row.touched + AbandonedAge <= clock

(* Mutation: a reservation whose deletion was tried is not selected again. *)
CleanupDueOnce ==
  row.status = "FAILED" /\ row.expiredAt # Never /\ row.cleanupAt = Never

CleanupDue ==
  /\ row.status = "FAILED" /\ row.expiredAt # Never
  /\ row.cleanupAt = Never \/ row.cleanupAt + RetryDelay <= clock

SelectAbandoned(c) ==
  /\ cleaner[c].pc = "idle"
  /\ Exists /\ row.key = "staging" /\ (Abandoned \/ CleanupDue)
  /\ cleaner' = [cleaner EXCEPT ![c] =
       [pc |-> "claim", now |-> clock, status |-> row.status, version |-> row.version,
        cleanupAt |-> row.cleanupAt, expiredAt |-> row.expiredAt]]
  /\ UNCHANGED sharedVars

(* Mutation: the claim compares the status but not updatedAt.              *)
UnchangedStatus(c) ==
  /\ row.key = "staging" /\ row.status = cleaner[c].status
  /\ row.expiredAt = cleaner[c].expiredAt

(* The claim matches only a row that is still as it was selected.          *)
Unchanged(c) ==
  /\ row.key = "staging" /\ row.status = cleaner[c].status
  /\ row.expiredAt = cleaner[c].expiredAt
  /\ IF cleaner[c].expiredAt = Never
       THEN row.version = cleaner[c].version
       ELSE row.cleanupAt = cleaner[c].cleanupAt

(* updateMany touches the row whether or not the claim is a first one.     *)
Expired(c) ==
  Touched([row EXCEPT !.status = "FAILED", !.cleanupAt = cleaner[c].now,
                      !.expiredAt = IF @ = Never THEN cleaner[c].now ELSE @])

ClaimExpired(c) ==
  /\ cleaner[c].pc = "claim"
  /\ IF Unchanged(c)
       THEN /\ row' = Expired(c)
            /\ cleaner' = [cleaner EXCEPT ![c].pc = "delete",
                             ![c].expiredAt = IF @ = Never THEN cleaner[c].now ELSE @]
       ELSE UNCHANGED row /\ CleanerGoto(c, "idle")
  /\ UNCHANGED <<store, queue, clock, signatures, passed>>

(* Mutation: the object deleted is the one the row points to by now.       *)
DeletesCurrent(c) ==
  /\ cleaner[c].pc = "delete"
  /\ store' = Removed(row.key) /\ CleanerGoto(c, "remove")
  /\ UNCHANGED <<row, queue, clock, signatures, passed>>

DeleteStaging(c) ==
  /\ cleaner[c].pc = "delete"
  /\ \/ store' = Removed("staging") /\ CleanerGoto(c, "remove")
     \/ /\ CleanupFaulty("storage")
        /\ store' \in {store, Removed("staging")} /\ CleanerGoto(c, "record")
  /\ UNCHANGED <<row, queue, clock, signatures, passed>>

(* The row this batch claimed, and no other batch has claimed since.       *)
StillMine(c) ==
  /\ row.status = "FAILED" /\ row.key = "staging"
  /\ row.cleanupAt = cleaner[c].now /\ row.expiredAt = cleaner[c].expiredAt

(* recordCleanupFailure rewrites the stamp it has already set.             *)
RecordCleanupFailure(c) ==
  /\ cleaner[c].pc = "record"
  /\ IF StillMine(c) THEN row' = Touched(row) ELSE UNCHANGED row
  /\ CleanerGoto(c, "idle")
  /\ UNCHANGED <<store, queue, clock, signatures, passed>>

RemoveExpired(c) ==
  /\ cleaner[c].pc = "remove"
  /\ IF StillMine(c) THEN row' = [row EXCEPT !.status = "DELETED"] ELSE UNCHANGED row
  /\ CleanerGoto(c, "idle")
  /\ UNCHANGED <<store, queue, clock, signatures, passed>>

(* The worker dies, or a statement throws, which ends the whole batch.     *)
CrashCleaner(c) ==
  /\ CleanupFaulty("crash") \/ CleanupFaulty("database")
  /\ cleaner[c].pc # "idle"
  /\ CleanerGoto(c, "idle")
  /\ UNCHANGED sharedVars

CleanerStep(c) ==
  \/ SelectAbandoned(c) \/ ClaimExpired(c) \/ DeleteStaging(c)
  \/ RecordCleanupFailure(c) \/ RemoveExpired(c)

CleanupNext == \E c \in Cleaners : CleanerStep(c) \/ CrashCleaner(c)
=============================================================================
