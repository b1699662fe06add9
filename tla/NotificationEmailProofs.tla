------------------------- MODULE NotificationEmailProofs -------------------------
(***************************************************************************)
(* Notification emails implement the outbox whatever their owner sets,     *)
(* archives, reads or deletes, and an opted-out email is not sent.         *)
(***************************************************************************)
EXTENDS NotificationEmails, EmailOutboxProofs

(* Each step of the owner or of a batch is one of the outbox or leaves the *)
(* row, the batches and the clock alone.                                   *)
LEMMA NotificationStep ==
  TypeOK /\ [Next]_vars => [OutboxNext]_outboxVars
<1> SUFFICES ASSUME TypeOK, [Next]_vars PROVE OutboxNext \/ UNCHANGED outboxVars
  BY DEF outboxVars
<1>1. CASE Produce \/ Delete \/ (Tick /\ UNCHANGED ownerVars)
  BY <1>1 DEF Produce, Delete, OutboxNext
<1>2. CASE UpdateSettings \/ Archive BY <1>2 DEF UpdateSettings, Archive
<1>3. ASSUME NEW r \in Readers, FindForRead(r) \/ WriteRead(r)
      PROVE  OutboxNext \/ UNCHANGED outboxVars
  BY <1>3 DEF FindForRead, WriteRead, OutboxNext
<1>4. ASSUME NEW b \in Batches, Deliver(b) PROVE OutboxNext
  <2>1. Suppressed \in BOOLEAN BY DEF Suppressed
  <2> QED BY <1>4, <2>1 DEF Deliver, OutboxNext
<1>5. CASE UNCHANGED vars BY <1>5 DEF vars, outboxVars
<1> QED BY <1>1, <1>2, <1>3, <1>4, <1>5 DEF Next

NotificationInv == OutboxInv /\ TypeOK

LEMMA NotificationInvNext == NotificationInv /\ [Next]_vars => NotificationInv'
<1> SUFFICES ASSUME NotificationInv, [Next]_vars PROVE NotificationInv' OBVIOUS
<1> TypeOK /\ OutboxInv' /\ OutboxTypeOK'
  BY NotificationStep, InvNext, TypeNext DEF NotificationInv
<1>1. wanted' \in Wanted
  <2>1. ASSUME NEW email \in BOOLEAN, NEW category \in BOOLEAN
        PROVE  [wanted EXCEPT !.email = email, !.category = category] \in Wanted
    BY DEF TypeOK, Wanted
  <2>2. [wanted EXCEPT !.archived = TRUE] \in Wanted BY DEF TypeOK, Wanted
  <2> QED BY <2>1, <2>2 DEF TypeOK, Next, Produce, UpdateSettings, Archive, Delete,
             FindForRead, WriteRead, Deliver, ownerVars, vars
<1>2. reader' \in [Readers -> {"idle", "write", "done"}]
  BY DEF TypeOK, Next, Produce, UpdateSettings, Archive, Delete, FindForRead, WriteRead,
     Deliver, ownerVars, vars
<1> QED BY <1>1, <1>2 DEF NotificationInv, TypeOK

LEMMA NotificationInvInit == Init => NotificationInv
BY InvInit DEF Init, NotificationInv, TypeOK, Wanted, OutboxInv

(* A notification's email implements the lease protocol.                   *)
THEOREM NotificationImplementsOutbox == Spec => OutboxSpec
<1>1. NotificationInv => TypeOK BY DEF NotificationInv
<1>2. Init => OutboxInit BY DEF Init
<1> QED BY <1>1, <1>2, NotificationStep, NotificationInvInit, NotificationInvNext, PTL
        DEF Spec, OutboxSpec

(* An email that was not yet with the provider when its owner opted out or *)
(* archived the case is not sent while that lasts.                         *)
THEOREM OptOutCorrect == Spec => OptOutIsHonoured
<1>1. NotificationInv /\ [Next]_vars => [OptedOutUnsent => ~accepted' /\ ~Underway']_vars
  <2> SUFFICES ASSUME NotificationInv, Next, OptedOutUnsent PROVE ~accepted' /\ ~Underway'
    OBVIOUS
  <2> batch \in [Batches -> BatchStates]
    BY DEF NotificationInv, TypeOK, OutboxTypeOK
  <2>1. Suppressed BY DEF Suppressed, OptedOutUnsent
  <2>2. \A c \in Batches : ~Send(c) /\ ~Record(c)
    BY DEF Send, Record, OptedOutUnsent, Underway
  <2>3. ASSUME NEW b \in Batches PROVE batch'[b].pc \notin {"send", "record"}
    <3>1. batch[b].pc \notin {"send", "record"} BY DEF OptedOutUnsent, Underway
    <3>2. CASE \E c \in Batches : Deliver(c)
      BY <2>1, <2>2, <3>1, <3>2
         DEF Deliver, BatchStep, Crash, Start, Select, Claim, Reread, Suppress,
             RecordFailure, Goto, Return, NoBatch, BatchStates
    <3> QED BY <3>1, <3>2 DEF Next, Produce, Enqueue, UpdateSettings, Archive, Delete,
            Cascade, Tick, FindForRead, WriteRead, Touch, outboxVars
  <2>4. accepted' = accepted
    BY <2>2 DEF Next, Produce, Enqueue, UpdateSettings, Archive, Delete, Cascade, Tick,
       FindForRead, WriteRead, Touch, outboxVars, Deliver, BatchStep, Crash, Start,
       Select, Claim, Reread, Suppress, RecordFailure
  <2> QED BY <2>3, <2>4 DEF OptedOutUnsent, Underway
<1> QED BY <1>1, NotificationInvInit, NotificationInvNext, PTL DEF Spec, OptOutIsHonoured
=============================================================================
