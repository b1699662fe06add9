--------------------------- MODULE EmailOutboxProofs ---------------------------
(***************************************************************************)
(* The safety properties of EmailOutbox hold for any number of batches,    *)
(* any lease, attempt limit and retry delays, and any faults.              *)
(***************************************************************************)
EXTENDS EmailOutbox, TLAPS

LEMMA DelayType ==
  ASSUME NEW n \in Nat \ {0} PROVE RetryDelay(n) \in Nat \ {0}
BY OutboxAssumption, EnvironmentAssumption DEF RetryDelay

(* What a claim, which only an unchanged due row admits, makes of the row. *)
LEMMA ClaimWrites ==
  ASSUME OutboxInv, NEW b \in Batches, Claim(b), delivery' # delivery
  PROVE  /\ delivery' = Claimed(b) /\ Claimable(b) /\ batch[b].pc = "claim"
         /\ delivery.lastAttemptAt # Null => delivery.lastAttemptAt < batch[b].now
         /\ delivery.status = "SENDING" \/ delivery.nextAttemptAt # Null
         /\ delivery.status = "SENDING" => delivery.lastAttemptAt + Lease <= batch[b].now
BY DEF Claim, OutboxInv, ClaimerOK

LEMMA InvInit == OutboxInit => OutboxInv
<1> SUFFICES ASSUME OutboxInit PROVE OutboxInv OBVIOUS
<1> USE DEF OutboxInit
<1>1. delivery \in Deliveries BY DEF Deliveries, Stamp
<1>2. NoBatch \in BatchStates /\ \A b \in Batches : batch[b] = NoBatch BY DEF NoBatch, BatchStates
<1>3. OutboxTypeOK BY <1>1, <1>2 DEF OutboxTypeOK
<1>4. RowOK BY DEF RowOK, RetriesStopAtLimit, SentWasAccepted
<1>5. \A b \in Batches : batch[b].pc = "idle" BY <1>2 DEF NoBatch
<1>6. \A b \in Batches : ClaimerOK(b) /\ HolderOK(b) BY <1>5 DEF ClaimerOK, HolderOK
<1>7. FenceIsExclusive BY <1>5 DEF FenceIsExclusive, Holds
<1> QED BY <1>3, <1>4, <1>6, <1>7 DEF OutboxInv

LEMMA BatchType ==
  ASSUME OutboxTypeOK, NEW b \in Batches,
         NEW pc \in {"idle", "select", "claim", "reread", "suppress", "send", "record", "fail"},
         Return(b) \/ Goto(b, pc)
  PROVE  batch' \in [Batches -> BatchStates]
<1>1. NoBatch \in BatchStates BY DEF NoBatch, BatchStates
<1>2. [batch[b] EXCEPT !.pc = pc] \in BatchStates BY DEF OutboxTypeOK, BatchStates
<1> QED BY <1>1, <1>2 DEF OutboxTypeOK, Return, Goto

LEMMA UpdatedType == ASSUME NEW r \in Deliveries PROVE Updated(r) \in Deliveries
BY DEF Updated, Deliveries

LEMMA RowType ==
  ASSUME OutboxTypeOK, NEW b \in Batches, NEW retryAt \in Stamp,
         NEW status \in {"SENT", "FAILED", "SUPPRESSED"}
  PROVE  Settled(b, status, retryAt) \in Deliveries /\ Claimed(b) \in Deliveries
<1>2. [delivery EXCEPT !.status = status, !.nextAttemptAt = retryAt] \in Deliveries
  BY DEF OutboxTypeOK, Deliveries
<1>3. batch[b].now \in Stamp /\ Null \in Stamp BY DEF OutboxTypeOK, BatchStates, Stamp
<1>4. [delivery EXCEPT !.attemptCount = @ + 1, !.lastAttemptAt = batch[b].now,
                       !.nextAttemptAt = Null, !.status = "SENDING"] \in Deliveries
  <2>1. delivery \in Deliveries /\ delivery.attemptCount + 1 \in Nat
    BY DEF OutboxTypeOK, Deliveries
  <2> QED BY <1>3, <2>1 DEF Deliveries
<1> QED BY <1>2, <1>4, UpdatedType DEF Settled, Claimed, OutboxTypeOK

LEMMA RetryType ==
  ASSUME OutboxInv, NEW b \in Batches, batch[b].pc = "fail"
  PROVE  RetryAt(b) \in Stamp
<1>1. batch[b].attempt > 0 BY DEF OutboxInv, HolderOK
<1>2. batch[b].attempt \in Nat /\ batch[b].now \in Nat BY DEF OutboxInv, OutboxTypeOK, BatchStates
<1>3. RetryDelay(batch[b].attempt) \in Nat BY <1>1, <1>2, DelayType
<1> QED BY <1>2, <1>3 DEF RetryAt, Stamp

LEMMA TypeNext == OutboxInv /\ [OutboxNext]_outboxVars => OutboxTypeOK'
<1> SUFFICES ASSUME OutboxInv, [OutboxNext]_outboxVars PROVE OutboxTypeOK'
  OBVIOUS
<1> OutboxTypeOK /\ Null \in Stamp BY DEF OutboxInv, Stamp
<1> delivery \in Deliveries /\ clock \in Nat /\ accepted \in BOOLEAN
  BY DEF OutboxTypeOK
<1>1. CASE Enqueue
  <2>1. [delivery EXCEPT !.status = "PENDING", !.nextAttemptAt = clock] \in Deliveries
    BY DEF Deliveries, Stamp
  <2>2. delivery' \in Deliveries BY <1>1, <2>1, UpdatedType DEF Enqueue
  <2> QED BY <1>1, <2>2 DEF Enqueue, OutboxTypeOK
<1>2. CASE Touch \/ Cascade \/ Tick \/ UNCHANGED outboxVars
  BY <1>2 DEF Touch, Cascade, Tick, ClockTick, Updated, outboxVars, OutboxTypeOK, Deliveries
<1>3. ASSUME NEW b \in Batches, Start(b) PROVE OutboxTypeOK'
  <2>1. [batch[b] EXCEPT !.pc = "select", !.now = clock] \in BatchStates
    BY DEF OutboxTypeOK, BatchStates
  <2> QED BY <1>3, <2>1 DEF Start, OutboxTypeOK
<1>4. ASSUME NEW b \in Batches, Select(b) PROVE OutboxTypeOK'
  <2>1. CASE Return(b) BY <1>4, <2>1, BatchType DEF Select, OutboxTypeOK
  <2>2. CASE ~Return(b)
    <3>1. delivery.status \in {"PENDING", "SENDING", "FAILED"}
      BY <1>4, <2>2 DEF Select, Due, Retryable, LeaseExpired
    <3>2. [batch[b] EXCEPT !.pc = "claim", !.status = delivery.status,
                           !.version = delivery.version] \in BatchStates
      BY <3>1 DEF OutboxTypeOK, BatchStates, Deliveries
    <3> QED BY <1>4, <2>2, <3>2 DEF Select, OutboxTypeOK
  <2> QED BY <2>1, <2>2
<1>5. ASSUME NEW b \in Batches, NEW suppressed \in BOOLEAN, Reread(b, suppressed)
      PROVE OutboxTypeOK'
  <2>1. CASE Return(b) BY <1>5, <2>1, BatchType DEF Reread, OutboxTypeOK
  <2>2. CASE ~Return(b)
    <3>1. [batch[b] EXCEPT !.pc = IF suppressed THEN "suppress" ELSE "send",
                           !.attempt = delivery.attemptCount] \in BatchStates
      BY DEF OutboxTypeOK, BatchStates, Deliveries
    <3> QED BY <1>5, <2>2, <3>1 DEF Reread, OutboxTypeOK
  <2> QED BY <2>1, <2>2
<1>6. ASSUME NEW b \in Batches, Claim(b) PROVE OutboxTypeOK'
  <2>1. batch' \in [Batches -> BatchStates] BY <1>6, BatchType DEF Claim
  <2>2. delivery' \in Deliveries BY <1>6, RowType DEF Claim
  <2> QED BY <1>6, <2>1, <2>2 DEF Claim, OutboxTypeOK
<1>7. ASSUME NEW b \in Batches, Crash(b) \/ Send(b) PROVE OutboxTypeOK'
  <2>1. batch' \in [Batches -> BatchStates] BY <1>7, BatchType DEF Crash, Send
  <2> QED BY <1>7, <2>1 DEF Crash, Send, OutboxTypeOK
<1>8. ASSUME NEW b \in Batches, Suppress(b) \/ Record(b) PROVE OutboxTypeOK'
  <2>1. batch' \in [Batches -> BatchStates] BY <1>8, BatchType DEF Suppress, Record
  <2>2. delivery' \in Deliveries BY <1>8, RowType DEF Suppress, Record, MaybeWrites
  <2> QED BY <1>8, <2>1, <2>2 DEF Suppress, Record, OutboxTypeOK
<1>9. ASSUME NEW b \in Batches, RecordFailure(b) PROVE OutboxTypeOK'
  <2>1. batch' \in [Batches -> BatchStates] BY <1>9, BatchType DEF RecordFailure
  <2>2. RetryAt(b) \in Stamp BY <1>9, RetryType DEF RecordFailure
  <2>3. delivery' \in Deliveries BY <1>9, <2>2, RowType DEF RecordFailure, MaybeWrites
  <2> QED BY <1>9, <2>1, <2>3 DEF RecordFailure, OutboxTypeOK
<1> QED BY <1>1, <1>2, <1>3, <1>4, <1>5, <1>6, <1>7, <1>8, <1>9 DEF OutboxNext, BatchStep

(* Everything a step can do to the row.                                    *)
Creates == delivery.status = "ABSENT" /\ delivery'.status = "PENDING"
            /\ delivery'.lastAttemptAt = delivery.lastAttemptAt
            /\ delivery'.attemptCount = delivery.attemptCount
            /\ delivery'.version = delivery.version + 1
Touches == Exists /\ delivery' = Updated(delivery)
Deletes == Exists /\ delivery' = [delivery EXCEPT !.status = "DELETED"]
Claims(b) ==
  /\ batch[b].pc = "claim" /\ Claimable(b)
  /\ delivery.lastAttemptAt # Null => delivery.lastAttemptAt < batch[b].now
  /\ delivery.status = "SENDING" \/ delivery.nextAttemptAt # Null
  /\ delivery.status = "SENDING" => delivery.lastAttemptAt + Lease <= batch[b].now
  /\ delivery'.status = "SENDING" /\ delivery'.lastAttemptAt = batch[b].now
  /\ delivery'.attemptCount = delivery.attemptCount + 1
  /\ delivery'.version = delivery.version + 1
  /\ batch'[b].pc \in {"idle", "reread"} /\ batch'[b].now \in {0, batch[b].now}
Settling(b) ==
  /\ Settles(b) /\ batch[b].pc \in {"suppress", "record", "fail"}
  /\ delivery'.status \in {"SUPPRESSED", "SENT", "FAILED"}
  /\ delivery'.status = "SENT" => batch[b].pc = "record"
  /\ delivery'.status = "FAILED" =>
       batch[b].pc = "fail" /\ delivery'.nextAttemptAt = RetryAt(b)
  /\ delivery'.lastAttemptAt = delivery.lastAttemptAt
  /\ delivery'.attemptCount = delivery.attemptCount
  /\ delivery'.version = delivery.version + 1

LEMMA ClaimStep ==
  ASSUME OutboxInv, NEW b \in Batches, Claim(b), delivery' # delivery
  PROVE  Claims(b)
<1> delivery \in Deliveries /\ batch \in [Batches -> BatchStates]
  BY DEF OutboxInv, OutboxTypeOK
<1>1. /\ delivery' = Claimed(b) /\ Claimable(b) /\ batch[b].pc = "claim"
      /\ delivery.lastAttemptAt # Null => delivery.lastAttemptAt < batch[b].now
      /\ delivery.status = "SENDING" \/ delivery.nextAttemptAt # Null
      /\ delivery.status = "SENDING" => delivery.lastAttemptAt + Lease <= batch[b].now
  BY ClaimWrites
<1>2. Goto(b, "reread") \/ Return(b) BY DEF Claim
<1>3. batch'[b].pc \in {"idle", "reread"} /\ batch'[b].now \in {0, batch[b].now}
  BY <1>2 DEF Goto, Return, NoBatch, BatchStates
<1> QED BY <1>1, <1>3 DEF Claims, Claimed, Updated, Deliveries

LEMMA RowSteps ==
  ASSUME OutboxInv, [OutboxNext]_outboxVars
  PROVE  /\ \/ delivery' = delivery \/ Creates \/ Touches \/ Deletes
            \/ \E b \in Batches : Claims(b) \/ Settling(b)
         /\ accepted => accepted'
<1> delivery \in Deliveries /\ delivery' \in Deliveries
  BY TypeNext DEF OutboxInv, OutboxTypeOK
<1>1. CASE Enqueue BY <1>1 DEF Enqueue, Creates, Updated, Deliveries
<1>2. CASE Touch \/ Cascade \/ Tick \/ UNCHANGED outboxVars
  BY <1>2 DEF Touch, Touches, Cascade, Deletes, Tick, outboxVars
<1>3. ASSUME NEW b \in Batches, NEW suppressed \in BOOLEAN,
             Crash(b) \/ Start(b) \/ Select(b) \/ Reread(b, suppressed) \/ Send(b)
      PROVE  delivery' = delivery /\ (accepted => accepted')
  <2>1. CASE Send(b)
    <3>1. accepted' = TRUE \/ accepted' = accepted BY <2>1 DEF Send
    <3>2. delivery' = delivery BY <2>1 DEF Send
    <3>3. CASE accepted' = TRUE BY <3>2, <3>3, Zenon
    <3>4. CASE accepted' = accepted BY <3>2, <3>4, SMT
    <3> QED BY <3>1, <3>3, <3>4
  <2> QED BY <1>3, <2>1 DEF Crash, Start, Select, Reread
<1>4. ASSUME NEW b \in Batches, Claim(b)
      PROVE  (delivery' = delivery \/ Claims(b)) /\ accepted' = accepted
  BY <1>4, ClaimStep DEF Claim
<1>5. ASSUME NEW b \in Batches, Suppress(b) \/ Record(b) \/ RecordFailure(b)
      PROVE  (delivery' = delivery \/ Settling(b)) /\ accepted' = accepted
  <2>1. CASE Suppress(b)
    BY <2>1 DEF Suppress, MaybeWrites, Settled, Settling, Updated, Deliveries
  <2>2. CASE Record(b)
    BY <2>2 DEF Record, MaybeWrites, Settled, Settling, Updated, Deliveries
  <2>3. CASE RecordFailure(b)
    BY <2>3 DEF RecordFailure, MaybeWrites, Settled, Settling, Updated, Deliveries
  <2> QED BY <1>5, <2>1, <2>2, <2>3 DEF Suppress, Record, RecordFailure
<1> QED BY <1>1, <1>2, <1>3, <1>4, <1>5
        DEF OutboxNext, BatchStep, Enqueue, Touch, Cascade, Tick, outboxVars

LEMMA RowNext == OutboxInv /\ [OutboxNext]_outboxVars => RowOK'
<1> SUFFICES ASSUME OutboxInv, [OutboxNext]_outboxVars PROVE RowOK' OBVIOUS
<1> USE DEF RowOK, RetriesStopAtLimit, SentWasAccepted
<1> RowOK /\ delivery \in Deliveries /\ delivery' \in Deliveries /\ (accepted => accepted')
  BY TypeNext, RowSteps DEF OutboxInv, OutboxTypeOK
<1>1. CASE delivery' = delivery BY <1>1
<1>2. CASE Creates BY <1>2 DEF Creates
<1>3. CASE Touches \/ Deletes BY <1>3 DEF Touches, Deletes, Updated, Exists, Deliveries
<1>4. ASSUME NEW b \in Batches, Claims(b) PROVE RowOK'
  <2>1. batch[b].now # Null BY OutboxAssumption, EnvironmentAssumption DEF OutboxInv, OutboxTypeOK, BatchStates
  <2> QED BY <1>4, <2>1 DEF Claims, Deliveries
<1>5. ASSUME NEW b \in Batches, Settling(b) PROVE RowOK'
  <2>1. CASE delivery'.status # "FAILED"
    BY <1>5, <2>1 DEF Settling, Settles, OutboxInv, HolderOK
  <2>2. CASE delivery'.status = "FAILED"
    <3>1. batch[b].attempt = delivery'.attemptCount /\ batch[b].attempt > 0
      BY <1>5, <2>2 DEF Settling, OutboxInv, HolderOK
    <3>2. batch[b].attempt \in Nat /\ batch[b].now \in Nat
      BY DEF OutboxInv, OutboxTypeOK, BatchStates
    <3>3. RetryDelay(batch[b].attempt) \in Nat \ {0} BY <3>1, <3>2, DelayType
    <3>4. delivery'.lastAttemptAt = batch[b].now BY <1>5 DEF Settling, Settles
    <3>5. delivery'.nextAttemptAt = RetryAt(b) BY <1>5, <2>2 DEF Settling
    <3> QED BY <1>5, <2>2, <3>1, <3>2, <3>3, <3>4, <3>5, OutboxAssumption, EnvironmentAssumption
            DEF Settling, Settles, RetryAt, Exhausted
  <2> QED BY <2>1, <2>2
<1> QED BY <1>1, <1>2, <1>3, <1>4, <1>5, RowSteps

(* Everything a step can do to batch c.                                    *)
Stays(c) == batch'[c] = batch[c]
Rests(c) == batch'[c].pc \in {"idle", "select"}
Selects(c) ==
  /\ batch'[c].pc = "claim" /\ batch'[c].now = batch[c].now
  /\ delivery' = delivery /\ Due(batch[c].now)
  /\ batch'[c].status = delivery.status /\ batch'[c].version = delivery.version
Leases(c) == Claims(c) /\ batch'[c].pc = "reread" /\ batch'[c].now = batch[c].now
Rereads(c) ==
  /\ batch[c].pc = "reread" /\ batch'[c].pc \in {"suppress", "send"}
  /\ batch'[c].now = batch[c].now /\ batch'[c].attempt = delivery.attemptCount
  /\ delivery' = delivery
Proceeds(c) ==
  /\ \/ batch[c].pc = "send" /\ batch'[c].pc = "record" /\ accepted'
     \/ batch[c].pc \in {"send", "record"} /\ batch'[c].pc = "fail"
  /\ batch'[c].now = batch[c].now /\ batch'[c].attempt = batch[c].attempt

LEMMA BatchSteps ==
  ASSUME OutboxInv, [OutboxNext]_outboxVars, NEW c \in Batches
  PROVE  Stays(c) \/ Rests(c) \/ Selects(c) \/ Leases(c) \/ Rereads(c) \/ Proceeds(c)
<1> batch \in [Batches -> BatchStates] /\ delivery \in Deliveries
  BY DEF OutboxInv, OutboxTypeOK
<1> USE DEF Goto, Return, NoBatch, BatchStates
<1>1. CASE Enqueue \/ Touch \/ Cascade \/ Tick \/ UNCHANGED outboxVars
  BY <1>1 DEF Enqueue, Touch, Cascade, Tick, outboxVars, Stays
<1>2. ASSUME NEW b \in Batches, Start(b) \/ Crash(b) PROVE Stays(c) \/ Rests(c)
  BY <1>2 DEF Start, Crash, Stays, Rests
<1>3. ASSUME NEW b \in Batches, Select(b) PROVE Stays(c) \/ Rests(c) \/ Selects(c)
  BY <1>3 DEF Select, Stays, Rests, Selects
<1>4. ASSUME NEW b \in Batches, Claim(b) PROVE Stays(c) \/ Rests(c) \/ Leases(c)
  <2>1. CASE b # c BY <1>4, <2>1 DEF Claim, Stays
  <2>2. CASE Return(c) BY <2>2 DEF Rests
  <2>3. CASE b = c /\ delivery' = Claimed(c) /\ Goto(c, "reread")
    <3>1. delivery'.version = delivery.version + 1 /\ delivery.version \in Nat
      BY <2>3 DEF Claimed, Updated, Deliveries
    <3>2. delivery' # delivery BY <3>1
    <3>3. Claims(c) BY <1>4, <2>3, <3>2, ClaimStep
    <3> QED BY <2>3, <3>3 DEF Goto, Leases
  <2> QED BY <1>4, <2>1, <2>2, <2>3 DEF Claim
<1>5. ASSUME NEW b \in Batches, NEW suppressed \in BOOLEAN, Reread(b, suppressed)
      PROVE  Stays(c) \/ Rests(c) \/ Rereads(c)
  BY <1>5 DEF Reread, Stays, Rests, Rereads
<1>6. ASSUME NEW b \in Batches, Suppress(b) \/ RecordFailure(b)
      PROVE  Stays(c) \/ Rests(c)
  BY <1>6 DEF Suppress, RecordFailure, Stays, Rests
<1>7. ASSUME NEW b \in Batches, Send(b) \/ Record(b)
      PROVE  Stays(c) \/ Rests(c) \/ Proceeds(c)
  <2>1. CASE b # c BY <1>7, <2>1 DEF Send, Record, Stays
  <2>2. CASE b = c /\ Send(c)
    <3>1. CASE accepted' = TRUE /\ Goto(c, "record")
      <4>1. accepted' BY <3>1, Zenon
      <4> QED BY <2>2, <3>1, <4>1 DEF Send, Proceeds
    <3>2. CASE Goto(c, "fail") BY <2>2, <3>2 DEF Send, Proceeds
    <3> QED BY <2>2, <3>1, <3>2 DEF Send
  <2>3. CASE b = c /\ Record(c) BY <2>3 DEF Record, Rests, Proceeds
  <2> QED BY <1>7, <2>1, <2>2, <2>3
<1> QED BY <1>1, <1>2, <1>3, <1>4, <1>5, <1>6, <1>7 DEF OutboxNext, BatchStep

LEMMA OneSteps ==
  ASSUME OutboxInv, [OutboxNext]_outboxVars,
         NEW b \in Batches, NEW c \in Batches, batch'[b] # batch[b], batch'[c] # batch[c]
  PROVE  b = c
<1> batch \in [Batches -> BatchStates] BY DEF OutboxInv, OutboxTypeOK
<1>1. CASE Enqueue \/ Touch \/ Cascade \/ Tick \/ UNCHANGED outboxVars
  BY <1>1 DEF Enqueue, Touch, Cascade, Tick, outboxVars
<1>2. ASSUME NEW d \in Batches, NEW suppressed \in BOOLEAN, Crash(d) \/ BatchStep(d, suppressed)
      PROVE  \A e \in Batches : e # d => batch'[e] = batch[e]
  BY <1>2 DEF Crash, BatchStep, Start, Select, Claim, Reread, Suppress, Send, Record,
     RecordFailure, Goto, Return
<1> QED BY <1>1, <1>2 DEF OutboxNext

LEMMA ClaimerNext ==
  ASSUME OutboxInv, [OutboxNext]_outboxVars, NEW c \in Batches PROVE ClaimerOK(c)'
<1> /\ delivery \in Deliveries /\ delivery' \in Deliveries
    /\ batch[c] \in BatchStates /\ ClaimerOK(c) /\ RowOK
  BY TypeNext DEF OutboxInv, OutboxTypeOK
<1> SUFFICES ASSUME batch'[c].pc = "claim" PROVE ClaimerOK(c)' BY DEF ClaimerOK
<1>1. CASE Stays(c)
  <2>1. CASE delivery' = delivery BY <1>1, <2>1 DEF Stays, ClaimerOK, Claimable
  <2>2. CASE Deletes
    <3>1. delivery'.status = "DELETED" /\ delivery'.version = delivery.version
      BY <2>2 DEF Deletes, Deliveries
    <3> QED BY <1>1, <3>1 DEF Stays, ClaimerOK, Claimable, BatchStates
  <2>3. CASE delivery' # delivery /\ ~Deletes
    <3>1. delivery'.version = delivery.version + 1
      BY <2>3, RowSteps DEF Creates, Touches, Updated, Claims, Settling, Deliveries
    <3> QED BY <1>1, <3>1 DEF Stays, ClaimerOK, Claimable, BatchStates, Deliveries
  <2> QED BY <2>1, <2>2, <2>3
<1>2. CASE Selects(c)
  <2>1. Due(batch[c].now) /\ delivery' = delivery /\ batch'[c].version = delivery.version
          /\ batch'[c].now = batch[c].now
    BY <1>2 DEF Selects
  <2>2. CASE Retryable(batch[c].now)
    BY <2>1, <2>2 DEF ClaimerOK, Retryable, RowOK, Deliveries, BatchStates, Stamp
  <2>3. CASE LeaseExpired(batch[c].now)
    BY <2>1, <2>3, OutboxAssumption, EnvironmentAssumption
       DEF ClaimerOK, LeaseExpired, RowOK, Deliveries, BatchStates, Stamp
  <2> QED BY <2>1, <2>2, <2>3 DEF Due
<1> QED BY <1>1, <1>2, BatchSteps DEF Rests, Leases, Rereads, Proceeds

LEMMA HolderNext ==
  ASSUME OutboxInv, [OutboxNext]_outboxVars, NEW c \in Batches PROVE HolderOK(c)'
<1> /\ delivery \in Deliveries /\ delivery' \in Deliveries /\ batch[c] \in BatchStates
    /\ HolderOK(c) /\ RowOK /\ Null \notin Int /\ (accepted => accepted')
  BY TypeNext, RowSteps, OutboxAssumption, EnvironmentAssumption DEF OutboxInv, OutboxTypeOK
<1> DEFINE Keeps == /\ delivery'.lastAttemptAt = delivery.lastAttemptAt
                    /\ delivery'.attemptCount = delivery.attemptCount
           Moves == /\ delivery'.lastAttemptAt # Null
                    /\ delivery.lastAttemptAt # Null
                         => delivery'.lastAttemptAt > delivery.lastAttemptAt
<1>1. Keeps \/ Moves
  <2>1. ASSUME NEW b \in Batches, Claims(b) PROVE Moves
    <3>1. batch[b].now \in Nat BY DEF OutboxInv, OutboxTypeOK, BatchStates
    <3> QED BY <2>1, <3>1 DEF Claims, Deliveries, Stamp
  <2> QED BY <2>1, RowSteps DEF Creates, Touches, Deletes, Updated, Settling, Deliveries
<1> DEFINE OnTime == batch'[c].pc \in {"reread", "suppress", "send", "record", "fail"} =>
            delivery'.lastAttemptAt # Null /\ batch'[c].now <= delivery'.lastAttemptAt
           Fresh == batch'[c].pc \in {"suppress", "send", "record", "fail"} =>
            batch'[c].attempt > 0
              /\ (Settles(c)' => batch'[c].attempt = delivery'.attemptCount)
           Taken == batch'[c].pc = "record" => accepted'
<1> DEFINE Sending == {"suppress", "send", "record", "fail"}
<1>2. ASSUME batch'[c].now = batch[c].now, batch'[c].attempt = batch[c].attempt,
             batch'[c].pc \in Sending => batch[c].pc \in Sending
      PROVE  Fresh
  <2> SUFFICES ASSUME batch[c].pc \in Sending PROVE Fresh BY <1>2
  <2>1. batch[c].attempt > 0 BY DEF HolderOK
  <2>2. CASE Moves
    <3>1. delivery'.lastAttemptAt # batch[c].now
      BY <2>2 DEF HolderOK, Deliveries, BatchStates, Stamp
    <3> QED BY <1>2, <2>1, <3>1 DEF Settles
  <2>3. CASE Keeps
    <3>1. ~ \E b \in Batches : Claims(b) BY <2>3 DEF Claims, Deliveries
    <3>2. delivery'.status = "SENDING" => delivery.status = "SENDING"
      BY <3>1, RowSteps DEF Creates, Touches, Deletes, Updated, Settling, Deliveries
    <3>3. Settles(c)' => Settles(c) BY <1>2, <2>3, <3>2 DEF Settles
    <3> QED BY <1>2, <2>1, <2>3, <3>3 DEF HolderOK
  <2> QED BY <1>1, <2>2, <2>3
<1>3. CASE Stays(c)
  <2>1. OnTime BY <1>1, <1>3 DEF Stays, HolderOK, Deliveries, BatchStates, Stamp
  <2>2. Fresh BY <1>2, <1>3 DEF Stays
  <2>3. Taken BY <1>3, Zenon DEF Stays, HolderOK
  <2> QED BY <2>1, <2>2, <2>3 DEF HolderOK
<1>4. CASE Leases(c) BY <1>4 DEF Leases, Claims, HolderOK, BatchStates
<1>5. CASE Rereads(c) BY <1>5 DEF Rereads, HolderOK, Settles, RowOK, Deliveries
<1>6. CASE Proceeds(c)
  <2>1. OnTime BY <1>1, <1>6 DEF Proceeds, HolderOK, Deliveries, BatchStates, Stamp
  <2>2. Fresh BY <1>2, <1>6 DEF Proceeds
  <2>3. Taken BY <1>6, Zenon DEF Proceeds
  <2> QED BY <2>1, <2>2, <2>3 DEF HolderOK
<1>7. CASE Rests(c) \/ Selects(c) BY <1>7 DEF Rests, Selects, HolderOK
<1> QED BY <1>3, <1>4, <1>5, <1>6, <1>7, BatchSteps

(* Only a claim makes a batch the holder of the row.                       *)
LEMMA HoldersFrom ==
  ASSUME OutboxInv, [OutboxNext]_outboxVars, NEW c \in Batches, Holds(c)'
  PROVE  batch'[c].now = batch[c].now /\ (Holds(c) \/ Leases(c))
<1> /\ delivery \in Deliveries /\ delivery' \in Deliveries /\ batch[c] \in BatchStates
    /\ HolderOK(c)
  BY TypeNext DEF OutboxInv, OutboxTypeOK
<1>1. delivery'.status = "SENDING" /\ delivery'.lastAttemptAt = batch'[c].now
  BY DEF Holds, Settles
<1>2. SUFFICES ASSUME Stays(c) \/ Rereads(c) \/ Proceeds(c)
               PROVE  batch'[c].now = batch[c].now /\ Holds(c)
  BY BatchSteps DEF Holds, Rests, Selects, Leases
<1>3. /\ batch'[c].now = batch[c].now
      /\ batch[c].pc \in {"reread", "suppress", "send", "record", "fail"}
  BY <1>2 DEF Holds, Stays, Rereads, Proceeds
<1>4. ~ \E b \in Batches : Claims(b)
  <2> SUFFICES ASSUME NEW b \in Batches, Claims(b) PROVE FALSE OBVIOUS
  <2>1. batch[b].now \in Nat BY DEF OutboxInv, OutboxTypeOK, BatchStates
  <2> QED BY <1>1, <1>3, <2>1 DEF Claims, HolderOK, BatchStates, Deliveries, Stamp
<1>5. delivery.status = "SENDING" /\ delivery.lastAttemptAt = delivery'.lastAttemptAt
  BY <1>1, <1>4, RowSteps DEF Creates, Touches, Deletes, Updated, Settling, Deliveries
<1> QED BY <1>1, <1>3, <1>5 DEF Holds, Settles

LEMMA FenceNext == OutboxInv /\ [OutboxNext]_outboxVars => FenceIsExclusive'
<1> SUFFICES ASSUME OutboxInv, [OutboxNext]_outboxVars PROVE FenceIsExclusive' OBVIOUS
<1>1. ASSUME NEW b \in Batches, NEW c \in Batches, Leases(b), Holds(c), Holds(c)', Holds(b)'
      PROVE  FALSE
  <2>1. delivery.lastAttemptAt = batch[c].now BY <1>1 DEF Holds, Settles
  <2>2. batch[c].now \in Nat /\ batch[b].now \in Nat /\ Null \notin Int
    BY OutboxAssumption, EnvironmentAssumption DEF OutboxInv, OutboxTypeOK, BatchStates
  <2>3. delivery'.lastAttemptAt = batch[b].now /\ batch[c].now < batch[b].now
    BY <1>1, <2>1, <2>2 DEF Leases, Claims
  <2>4. delivery'.lastAttemptAt = batch[c].now
    BY <1>1, HoldersFrom DEF Holds, Settles
  <2> QED BY <2>2, <2>3, <2>4
<1>2. ASSUME NEW b \in Batches, NEW c \in Batches, Leases(b), Leases(c) PROVE b = c
  BY <1>2, OneSteps DEF Leases, Claims
<1>3. SUFFICES ASSUME NEW b \in Batches, NEW c \in Batches, Holds(b)', Holds(c)' PROVE b = c
  BY DEF FenceIsExclusive, Holds, Settles
<1>4. CASE Holds(b) /\ Holds(c) BY <1>4 DEF OutboxInv, FenceIsExclusive
<1> QED BY <1>1, <1>2, <1>3, <1>4, HoldersFrom

LEMMA InvNext == OutboxInv /\ [OutboxNext]_outboxVars => OutboxInv'
BY TypeNext, RowNext, ClaimerNext, HolderNext, FenceNext DEF OutboxInv

(* The invariant of the lease protocol: what a row's status says about its *)
(* dates, and what each batch may still rely on at each of its awaits.     *)
THEOREM InvariantCorrect == OutboxSpec => []OutboxInv
BY InvInit, InvNext, PTL DEF OutboxSpec

(* The row, the batches and the history keep their types; in particular a  *)
(* retry is always scheduled at a real date.                               *)
THEOREM TypesCorrect == OutboxSpec => []OutboxTypeOK
<1>1. OutboxInv => OutboxTypeOK BY DEF OutboxInv
<1> QED BY <1>1, InvariantCorrect, PTL

(* However many batches run late, one at most can write a row's result.    *)
THEOREM FenceCorrect == OutboxSpec => []FenceIsExclusive
<1>1. OutboxInv => FenceIsExclusive BY DEF OutboxInv
<1> QED BY <1>1, InvariantCorrect, PTL

(* A delivery recorded as SENT was accepted by the provider.               *)
THEOREM SentCorrect == OutboxSpec => []SentWasAccepted
<1>1. OutboxInv => SentWasAccepted BY DEF OutboxInv, RowOK
<1> QED BY <1>1, InvariantCorrect, PTL

(* A recorded failure has a retry date exactly while attempts are left.    *)
THEOREM RetriesCorrect == OutboxSpec => []RetriesStopAtLimit
<1>1. OutboxInv => RetriesStopAtLimit BY DEF OutboxInv, RowOK
<1> QED BY <1>1, InvariantCorrect, PTL

(* No late batch reopens or overwrites a sent, suppressed or exhausted     *)
(* delivery; only the deletion of the row changes it.                      *)
THEOREM FinalCorrect == OutboxSpec => FinalStaysFinal
<1>1. OutboxInv /\ [OutboxNext]_outboxVars
        => [Final => delivery'.status \in {delivery.status, "DELETED"}]_outboxVars
  <2> SUFFICES ASSUME OutboxInv, [OutboxNext]_outboxVars, Final
               PROVE  delivery'.status \in {delivery.status, "DELETED"}
    OBVIOUS
  <2>1. delivery \in Deliveries BY DEF OutboxInv, OutboxTypeOK
  <2>2. ASSUME NEW b \in Batches PROVE ~Claims(b) /\ ~Settling(b)
    <3>1. ~Settling(b) BY DEF Final, Settling, Settles
    <3>2. delivery.nextAttemptAt = Null => ~Claims(b) BY DEF Final, Claims
    <3>3. delivery.status \in {"SENT", "SUPPRESSED"} => ~Claims(b)
      BY DEF Claims, Claimable, OutboxInv, OutboxTypeOK, BatchStates
    <3> QED BY <3>1, <3>2, <3>3 DEF Final
  <2> QED BY <2>1, <2>2, RowSteps DEF Final, Creates, Touches, Deletes, Updated, Deliveries
<1> QED BY <1>1, InvariantCorrect, PTL DEF OutboxSpec, FinalStaysFinal

(* A row's attempts are dated in the order in which they are claimed.      *)
THEOREM AttemptsCorrect == OutboxSpec => AttemptsMoveForward
<1>1. OutboxInv /\ [OutboxNext]_outboxVars
        => [delivery.lastAttemptAt # Null /\ delivery.lastAttemptAt # delivery'.lastAttemptAt
              => delivery'.lastAttemptAt > delivery.lastAttemptAt]_outboxVars
  <2> SUFFICES ASSUME OutboxInv, [OutboxNext]_outboxVars, delivery.lastAttemptAt # Null,
                      delivery.lastAttemptAt # delivery'.lastAttemptAt
               PROVE  delivery'.lastAttemptAt > delivery.lastAttemptAt
    OBVIOUS
  <2>1. delivery \in Deliveries BY DEF OutboxInv, OutboxTypeOK
  <2>2. PICK b \in Batches : Claims(b)
    BY <2>1, RowSteps DEF Creates, Touches, Deletes, Updated, Settling, Deliveries
  <2>3. batch[b].now \in Nat BY DEF OutboxInv, OutboxTypeOK, BatchStates
  <2> QED BY <2>1, <2>2, <2>3 DEF Claims, Deliveries, Stamp
<1> QED BY <1>1, InvariantCorrect, PTL DEF OutboxSpec, AttemptsMoveForward
-----------------------------------------------------------------------------
(* Only a send under way changes what the provider has, and nothing else.  *)
LEMMA AcceptSteps ==
  ASSUME OutboxInv, [OutboxNext]_outboxVars, accepted' # accepted
  PROVE  delivery' = delivery /\ accepted' = TRUE /\ delivery.attemptCount > 0
<1>1. PICK b \in Batches : Send(b)
  BY DEF OutboxNext, BatchStep, Enqueue, Touch, Cascade, Tick, Crash, Start, Select, Claim,
     Reread, Suppress, Record, RecordFailure, outboxVars
<1>2. delivery' = delivery /\ batch[b].pc = "send" BY <1>1 DEF Send
<1>3. delivery.attemptCount > 0 BY <1>2 DEF OutboxInv, HolderOK, RowOK
<1>4. accepted' = TRUE
  <2>1. accepted' \in {accepted, TRUE} BY <1>1 DEF Send
  <2> QED BY <2>1
<1> QED BY <1>2, <1>3, <1>4

(* However many batches overlap and come late, and whatever fails, the     *)
(* outbox goes through the life of one message that Delivery describes:    *)
(* attempts in order, none disturbed within its lease, and one result.     *)
THEOREM PromiseKept == OutboxSpec => KeepsPromise
<1>1. OutboxInit => Promise!Init
  BY DEF OutboxInit, Promise!Init, Progress
<1>2. OutboxInv /\ [OutboxNext]_outboxVars => [Promise!Next]_(Promise!deliveryVars)
  <2> SUFFICES ASSUME OutboxInv, [OutboxNext]_outboxVars
               PROVE  Promise!Next \/ UNCHANGED Promise!deliveryVars
    OBVIOUS
  <2> USE DEF Promise!Next, Promise!deliveryVars
  <2>1. delivery \in Deliveries /\ delivery' \in Deliveries
    BY TypeNext DEF OutboxInv, OutboxTypeOK
  <2>2. CASE accepted' # accepted
    BY <2>2, AcceptSteps DEF Promise!Take, Progress
  <2>3. CASE accepted' = accepted /\ delivery' = delivery BY <2>3 DEF Progress
  <2>4. CASE accepted' = accepted /\ Creates
    <3>1. Progress = "none" /\ Progress' = "waiting" BY <2>4 DEF Creates, Progress
    <3> QED BY <2>4, <3>1 DEF Creates, Promise!Announce
  <2>5. CASE accepted' = accepted /\ Touches
    BY <2>1, <2>5 DEF Touches, Updated, Deliveries, Progress
  <2>6. CASE accepted' = accepted /\ Deletes
    <3>1. /\ delivery'.status = "DELETED"
          /\ delivery'.lastAttemptAt = delivery.lastAttemptAt
          /\ delivery'.attemptCount = delivery.attemptCount
      BY <2>1, <2>6 DEF Deletes, Deliveries
    <3>2. Progress \notin {"none", "gone"} /\ Progress' = "gone"
      BY <2>1, <2>6, <3>1 DEF Deletes, Exists, Deliveries, Progress
    <3> QED BY <2>6, <3>1, <3>2 DEF Promise!Vanish
  <2>7. ASSUME NEW b \in Batches, Claims(b), accepted' = accepted PROVE Promise!Attempt
    <3>1. batch[b].now \in Nat /\ batch[b].status \in {"PENDING", "SENDING", "FAILED"}
      BY DEF OutboxInv, OutboxTypeOK, BatchStates
    <3>2. Progress \in {"waiting", "underWay"} /\ Progress' = "underWay"
      BY <2>7, <3>1 DEF Claims, Claimable, Progress
    <3>3. Progress = "underWay" => delivery.status = "SENDING" BY DEF Progress
    <3> QED BY <2>7, <3>1, <3>2, <3>3 DEF Claims, Promise!Attempt
  <2>8. ASSUME NEW b \in Batches, Settling(b), accepted' = accepted PROVE Promise!Settle
    <3>1. Progress = "underWay" BY <2>8 DEF Settling, Settles, Progress
    <3>2. CASE delivery'.status = "SENT"
      BY <2>8, <3>1, <3>2 DEF Settling, OutboxInv, HolderOK, Promise!Settle, Progress
    <3>3. CASE delivery'.status = "SUPPRESSED"
      BY <2>8, <3>1, <3>3 DEF Settling, Promise!Settle, Progress
    <3>4. CASE delivery'.status = "FAILED"
      <4>1. RowOK' BY RowNext
      <4>2. delivery'.nextAttemptAt = Null <=> ~(delivery.attemptCount < MaxAttempts)
        BY <2>1, <2>8, <3>4, <4>1, OutboxAssumption
           DEF Settling, RowOK, RetriesStopAtLimit, Deliveries
      <4> QED BY <2>8, <3>1, <3>4, <4>2 DEF Settling, Promise!Settle, Progress
    <3> QED BY <2>8, <3>2, <3>3, <3>4 DEF Settling
  <2> QED BY <2>2, <2>3, <2>4, <2>5, <2>6, <2>7, <2>8, RowSteps
<1> QED BY <1>1, <1>2, InvariantCorrect, PTL DEF OutboxSpec, KeepsPromise, Promise!Spec
=============================================================================
