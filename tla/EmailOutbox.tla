------------------------------ MODULE EmailOutbox ------------------------------
(***************************************************************************)
(* The lease protocol of the worker's two email outboxes, packet-share     *)
(* invitations and notification emails, on one delivery row.               *)
(* A batch takes its `now` when the job starts, selects the rows that are  *)
(* due, and treats one after the other: claim (a lease), re-read, suppress *)
(* or send, record.  Rows ahead of this one in the batch are time that     *)
(* passes between two steps.  Batches overlap: several worker processes,   *)
(* a triggered job and a scheduled one, a stalled job that is run again.   *)
(***************************************************************************)
EXTENDS Environment, Sequences

CONSTANTS
  Batches,      \* runs of the delivery job that may overlap
  Lease,        \* packetShareEmailLeaseMs / notificationEmailLeaseMs, 10 min
  MaxAttempts,  \* 5
  RetryDelays,  \* 5 min, 15 min, 1 h, 6 h
  MaxTouches    \* bound: other writers leave the row alone from this version on

ASSUME OutboxAssumption ==
  /\ Lease \in Nat \ {0} /\ MaxAttempts \in Nat \ {0}
  /\ RetryDelays \in Seq(Nat \ {0}) /\ Len(RetryDelays) > 0
  /\ MaxTouches \in Nat

VARIABLES
  delivery,  \* the PacketShareEmailDelivery, or a Notification's email columns
  batch,     \* batch[b]: where the job is, its `now` and what it has read
  accepted   \* external: the provider took the message of this delivery

outboxVars == <<delivery, batch, clock, accepted>>

Deliveries ==
  [status : {"ABSENT", "PENDING", "SENDING", "SENT", "FAILED", "SUPPRESSED", "DELETED"},
   version : Nat, attemptCount : Nat, lastAttemptAt : Stamp, nextAttemptAt : Stamp]

BatchStates ==
  [pc : {"idle", "select", "claim", "reread", "suppress", "send", "record", "fail"},
   now : Nat, status : {"PENDING", "SENDING", "FAILED"}, version : Nat, attempt : Nat]

NoBatch == [pc |-> "idle", now |-> 0, status |-> "PENDING", version |-> 0, attempt |-> 0]

OutboxTypeOK ==
  /\ delivery \in Deliveries
  /\ batch \in [Batches -> BatchStates]
  /\ clock \in Nat
  /\ accepted \in BOOLEAN

OutboxInit ==
  /\ delivery = [status |-> "ABSENT", version |-> 0, attemptCount |-> 0,
                 lastAttemptAt |-> Null, nextAttemptAt |-> Null]
  /\ batch = [b \in Batches |-> NoBatch]
  /\ clock = 0 /\ accepted = FALSE

Goto(b, pc) == batch' = [batch EXCEPT ![b].pc = pc]

(* The batch is over, or goes on to other rows.                            *)
Return(b) == batch' = [batch EXCEPT ![b] = NoBatch]

Updated(row) == [row EXCEPT !.version = @ + 1]

(* A write that throws may have been performed all the same.               *)
MaybeWrites(row) == delivery' \in {delivery, row}

-----------------------------------------------------------------------------
(* The row's other writers.                                                *)

Exists == delivery.status \notin {"ABSENT", "DELETED"}

(* The producer's transaction writes the row with the event it announces.  *)
Enqueue ==
  /\ delivery.status = "ABSENT"
  /\ delivery' = Updated([delivery EXCEPT !.status = "PENDING", !.nextAttemptAt = clock])
  /\ UNCHANGED <<batch, clock, accepted>>

(* A notification is marked as read: updatedAt moves, nothing else here.   *)
Touch ==
  /\ Exists /\ delivery.version < MaxTouches
  /\ delivery' = Updated(delivery)
  /\ UNCHANGED <<batch, clock, accepted>>

(* The user, case or share goes, and the row with it.                      *)
Cascade ==
  /\ Exists
  /\ delivery' = [delivery EXCEPT !.status = "DELETED"]
  /\ UNCHANGED <<batch, clock, accepted>>

Tick ==
  /\ ClockTick
  /\ UNCHANGED <<delivery, batch, accepted>>

-----------------------------------------------------------------------------
(* A batch.                                                                *)

Start(b) ==
  /\ batch[b].pc = "idle"
  /\ batch' = [batch EXCEPT ![b].pc = "select", ![b].now = clock]
  /\ UNCHANGED <<delivery, clock, accepted>>

Retryable(now) ==
  /\ delivery.status \in {"PENDING", "FAILED"}
  /\ delivery.nextAttemptAt # Null /\ delivery.nextAttemptAt <= now

LeaseExpired(now) ==
  delivery.status = "SENDING" /\ delivery.lastAttemptAt + Lease <= now

(* Mutation: every row in SENDING is taken for abandoned.                  *)
DueWithoutLease(now) == Retryable(now) \/ delivery.status = "SENDING"

(* Mutation: a row left in SENDING is never looked at again.               *)
DueWithoutRecovery(now) == Retryable(now)

Due(now) == Retryable(now) \/ LeaseExpired(now)

Select(b) ==
  /\ batch[b].pc = "select"
  /\ \/ /\ Due(batch[b].now)
        /\ batch' = [batch EXCEPT ![b].pc = "claim", ![b].status = delivery.status,
                                  ![b].version = delivery.version]
     \/ ~Due(batch[b].now) /\ Return(b)
     \/ Faulty("database") /\ Return(b)
  /\ UNCHANGED <<delivery, clock, accepted>>

(* Mutation: the claim compares the id alone.                              *)
ClaimableById(b) == Exists

Claimable(b) ==
  delivery.status = batch[b].status /\ delivery.version = batch[b].version

Claimed(b) ==
  Updated([delivery EXCEPT !.attemptCount = @ + 1, !.lastAttemptAt = batch[b].now,
                           !.nextAttemptAt = Null, !.status = "SENDING"])

Claim(b) ==
  /\ batch[b].pc = "claim"
  /\ \/ /\ Claimable(b)
        /\ delivery' = Claimed(b)
        /\ Goto(b, "reread") \/ (Faulty("database") /\ Return(b))
     \/ /\ ~Claimable(b) \/ Faulty("database")
        /\ Return(b) /\ UNCHANGED delivery
  /\ UNCHANGED <<clock, accepted>>

(* `suppressed` is what getSuppressionReason makes of the re-read row.     *)
Reread(b, suppressed) ==
  /\ batch[b].pc = "reread"
  /\ \/ /\ Exists
        /\ batch' = [batch EXCEPT ![b].pc = IF suppressed THEN "suppress" ELSE "send",
                                  ![b].attempt = delivery.attemptCount]
     \/ (~Exists \/ Faulty("database")) /\ Return(b)
  /\ UNCHANGED <<delivery, clock, accepted>>

(* Mutation: the result is written whoever made the last attempt.          *)
SettlesAnyAttempt(b) == delivery.status = "SENDING"

(* Mutation: the result is written whatever the row's status.              *)
SettlesAnyStatus(b) == Exists /\ delivery.lastAttemptAt = batch[b].now

(* updateDeliveryState finds the row as this batch claimed it.             *)
Settles(b) ==
  delivery.status = "SENDING" /\ delivery.lastAttemptAt = batch[b].now

Settled(b, status, retryAt) ==
  IF Settles(b)
    THEN Updated([delivery EXCEPT !.status = status, !.nextAttemptAt = retryAt])
    ELSE delivery

Suppress(b) ==
  /\ batch[b].pc = "suppress"
  /\ \/ delivery' = Settled(b, "SUPPRESSED", Null)
     \/ Faulty("database") /\ MaybeWrites(Settled(b, "SUPPRESSED", Null))
  /\ Return(b)
  /\ UNCHANGED <<clock, accepted>>

(* Mutation: an answer without a message id counts as accepted.            *)
SendUnchecked(b) ==
  /\ batch[b].pc = "send"
  /\ accepted' = TRUE \/ (Faulty("provider") /\ UNCHANGED accepted)
  /\ Goto(b, "record")
  /\ UNCHANGED <<delivery, clock>>

(* sender.send: the provider accepts, or rejects, or its answer is lost.   *)
Send(b) ==
  /\ batch[b].pc = "send"
  /\ \/ accepted' = TRUE /\ Goto(b, "record")
     \/ Faulty("provider") /\ accepted' \in {accepted, TRUE} /\ Goto(b, "fail")
  /\ UNCHANGED <<delivery, clock>>

(* Inside the try: when this write throws, the catch block is next.        *)
Record(b) ==
  /\ batch[b].pc = "record"
  /\ \/ delivery' = Settled(b, "SENT", Null) /\ Return(b)
     \/ Faulty("database") /\ MaybeWrites(Settled(b, "SENT", Null)) /\ Goto(b, "fail")
  /\ UNCHANGED <<clock, accepted>>

Exhausted(b) == batch[b].attempt >= MaxAttempts

RetryDelay(attempt) ==
  RetryDelays[IF attempt < Len(RetryDelays) THEN attempt ELSE Len(RetryDelays)]

(* Mutation: the delay counts backwards.                                   *)
RetryAtOverdue(b) ==
  IF Exhausted(b) THEN Null ELSE batch[b].now - RetryDelay(batch[b].attempt)

RetryAt(b) ==
  IF Exhausted(b) THEN Null ELSE batch[b].now + RetryDelay(batch[b].attempt)

RecordFailure(b) ==
  /\ batch[b].pc = "fail"
  /\ \/ delivery' = Settled(b, "FAILED", RetryAt(b))
     \/ Faulty("database") /\ MaybeWrites(Settled(b, "FAILED", RetryAt(b)))
  /\ Return(b)
  /\ UNCHANGED <<clock, accepted>>

(* The process dies, or an earlier row of the batch throws.                *)
Crash(b) ==
  /\ batch[b].pc # "idle" /\ Faulty("crash")
  /\ Return(b)
  /\ UNCHANGED <<delivery, clock, accepted>>

BatchStep(b, suppressed) ==
  \/ Start(b) \/ Select(b) \/ Claim(b) \/ Reread(b, suppressed)
  \/ Suppress(b) \/ Send(b) \/ Record(b) \/ RecordFailure(b)

OutboxNext ==
  \/ Enqueue \/ Touch \/ Cascade \/ Tick
  \/ \E b \in Batches : Crash(b) \/ \E suppressed \in BOOLEAN : BatchStep(b, suppressed)

(* What is suppressed is left open here: each outbox has its own reasons.  *)
OutboxSpec == OutboxInit /\ [][OutboxNext]_outboxVars

(* Schedulers start a batch every minute and an awaited call settles; time *)
(* passes.  Suppression is decided by the row, so either choice will do.   *)
OutboxFairSpec ==
  /\ OutboxSpec
  /\ \A b \in Batches :
       WF_outboxVars(\E suppressed \in BOOLEAN : BatchStep(b, suppressed))
  /\ WF_outboxVars(Tick)

-----------------------------------------------------------------------------
(* Properties.                                                             *)

Holds(b) == batch[b].pc \in {"reread", "suppress", "send", "record", "fail"} /\ Settles(b)

(* However many batches have claimed the row and still run, at most one of *)
(* them can write its result: the attempt's date is a fence, although it   *)
(* is a batch's start and not a unique token.                              *)
FenceIsExclusive == \A b, c \in Batches : Holds(b) /\ Holds(c) => b = c

(* SENT is recorded only when the provider has taken the message, also     *)
(* when several attempts overlap and answers are lost.                     *)
SentWasAccepted == delivery.status = "SENT" => accepted

(* The attempt limit read after the claim is the limit the row obeys: a    *)
(* failure is final exactly when the row has used up its attempts.         *)
RetriesStopAtLimit ==
  delivery.status = "FAILED" =>
    (delivery.nextAttemptAt = Null <=> delivery.attemptCount >= MaxAttempts)

Final ==
  \/ delivery.status \in {"SENT", "SUPPRESSED"}
  \/ delivery.status = "FAILED" /\ delivery.nextAttemptAt = Null

(* A sent, suppressed or exhausted delivery is never attempted again nor   *)
(* given another result, by whatever batch is late.                        *)
FinalStaysFinal ==
  [][Final => delivery'.status \in {delivery.status, "DELETED"}]_outboxVars

(* Attempts are dated in the order they are made, even by a batch that     *)
(* selected the row long before.                                           *)
AttemptsMoveForward ==
  [][delivery.lastAttemptAt # Null /\ delivery.lastAttemptAt # delivery'.lastAttemptAt
       => delivery'.lastAttemptAt > delivery.lastAttemptAt]_outboxVars

(* Once nothing fails any more, every delivery is sent, suppressed or      *)
(* given up: crashes and abandoned leases do not strand it.                *)
DeliverySettles == delivery.status # "ABSENT" ~> Final \/ delivery.status = "DELETED"

-----------------------------------------------------------------------------
(* What the outbox promises, without batches and leases.                   *)

Progress ==
  CASE delivery.status = "ABSENT" -> "none"
    [] delivery.status = "SENDING" -> "underWay"
    [] delivery.status = "SENT" -> "sent"
    [] delivery.status = "SUPPRESSED" -> "suppressed"
    [] delivery.status = "DELETED" -> "gone"
    [] delivery.status = "FAILED" /\ delivery.nextAttemptAt = Null -> "givenUp"
    [] OTHER -> "waiting"

Promise ==
  INSTANCE Delivery WITH
    Never <- Null, Patience <- Lease,
    state <- Progress, since <- delivery.lastAttemptAt,
    attempts <- delivery.attemptCount, taken <- accepted

(* However batches overlap, die and come late, the row goes through the    *)
(* life of one message: attempts in order, none disturbed within its       *)
(* lease, one result, which the last attempt gives.                        *)
KeepsPromise == Promise!Spec

-----------------------------------------------------------------------------
(* The inductive invariant behind the safety properties.                   *)

(* What a status says about the row's dates and about the provider.        *)
RowOK ==
  /\ delivery.status \in {"ABSENT", "PENDING"} => delivery.lastAttemptAt = Null
  /\ delivery.status \in {"SENDING", "FAILED"} => delivery.lastAttemptAt # Null
  /\ delivery.lastAttemptAt # Null => delivery.attemptCount > 0
  /\ delivery.status = "FAILED" /\ delivery.nextAttemptAt # Null
       => delivery.nextAttemptAt > delivery.lastAttemptAt
  /\ RetriesStopAtLimit
  /\ SentWasAccepted

(* A selected row that has not been written since is due, and was last     *)
(* attempted before this batch began.                                      *)
ClaimerOK(b) ==
  batch[b].pc = "claim" =>
    /\ batch[b].version <= delivery.version
    /\ Claimable(b) =>
         /\ delivery.lastAttemptAt # Null => delivery.lastAttemptAt < batch[b].now
         /\ delivery.status = "SENDING" \/ delivery.nextAttemptAt # Null
         /\ delivery.status = "SENDING" => delivery.lastAttemptAt + Lease <= batch[b].now

(* A row only moves to later attempts; the attempt number that was re-read *)
(* is the one of the claim as long as the fence holds.                     *)
HolderOK(b) ==
  /\ batch[b].pc \in {"reread", "suppress", "send", "record", "fail"} =>
       delivery.lastAttemptAt # Null /\ batch[b].now <= delivery.lastAttemptAt
  /\ batch[b].pc \in {"suppress", "send", "record", "fail"} =>
       batch[b].attempt > 0 /\ (Settles(b) => batch[b].attempt = delivery.attemptCount)
  /\ batch[b].pc = "record" => accepted

(* However many leases run out: one batch at most still holds the row, the *)
(* one that claimed it last, and the row's attempt, dates and result fit   *)
(* what that batch has done.                                               *)
OutboxInv ==
  /\ OutboxTypeOK
  /\ RowOK
  /\ \A b \in Batches : ClaimerOK(b) /\ HolderOK(b)
  /\ FenceIsExclusive
=============================================================================
