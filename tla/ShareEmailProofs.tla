---------------------------- MODULE ShareEmailProofs ----------------------------
(***************************************************************************)
(* Packet-share invitations implement the outbox, whatever their owner     *)
(* does in between, so all that is proved of the outbox holds of them.     *)
(***************************************************************************)
EXTENDS PacketShareEmails, EmailOutboxProofs

LEMMA SuppressedType == ASSUME NEW b \in Batches PROVE Suppressed(b) \in BOOLEAN
BY DEF Suppressed

(* Each step of a share, of its owner or of a batch is one of the outbox   *)
(* or leaves the row, the batches and the clock alone.                     *)
LEMMA ShareStep == [Next]_vars => [OutboxNext]_outboxVars
<1> SUFFICES ASSUME [Next]_vars PROVE OutboxNext \/ UNCHANGED outboxVars
  BY DEF outboxVars
<1>1. CASE Create \/ Delete \/ (Tick /\ UNCHANGED shareVars)
  BY <1>1 DEF Create, Delete, OutboxNext
<1>2. ASSUME NEW o \in Revokers, FindForRevoke(o) \/ WriteRevoke(o) PROVE UNCHANGED outboxVars
  BY <1>2 DEF FindForRevoke, WriteRevoke
<1>3. ASSUME NEW b \in Batches, Deliver(b) PROVE OutboxNext
  BY <1>3, SuppressedType DEF Deliver, OutboxNext
<1>4. CASE UNCHANGED vars BY <1>4 DEF vars, outboxVars
<1> QED BY <1>1, <1>2, <1>3, <1>4 DEF Next

(* An invitation's delivery implements the lease protocol.                 *)
THEOREM ShareImplementsOutbox == Spec => OutboxSpec
<1>1. Init => OutboxInit BY DEF Init
<1> QED BY <1>1, ShareStep, PTL DEF Spec, OutboxSpec

(* Between two batches that claim, cancel, time out or crash, one at most  *)
(* can write the result of an invitation.                                  *)
THEOREM ShareFence == Spec => []FenceIsExclusive
BY ShareImplementsOutbox, FenceCorrect, PTL

(* A share that has no delivery yet does not exist, so none is revoked.    *)
ShareInv ==
  /\ OutboxInv /\ TypeOK
  /\ delivery.status = "ABSENT" => ~share.exists /\ share.revokedAt = Null

(* What a step can do to the share.                                        *)
ShareCreated ==
  /\ delivery'.status = "PENDING" /\ delivery.status = "ABSENT"
  /\ \E expiresAt \in Stamp :
       share' = [exists |-> TRUE, expiresAt |-> expiresAt, revokedAt |-> Null]
ShareRevoked == share.exists /\ share' = [share EXCEPT !.revokedAt = clock]
ShareDeleted == share' = [share EXCEPT !.exists = FALSE]

LEMMA ShareWrites ==
  ASSUME ShareInv, [Next]_vars
  PROVE  share' = share \/ ShareCreated \/ ShareRevoked \/ ShareDeleted
<1>1. CASE Create
  <2>1. 1 .. MaxClock \cup {Null} \subseteq Stamp BY OutboxAssumption, EnvironmentAssumption DEF Stamp
  <2>2. delivery'.status = "PENDING"
    BY <1>1 DEF Create, Enqueue, Updated, ShareInv, TypeOK, OutboxTypeOK, Deliveries
  <2> QED BY <1>1, <2>1, <2>2 DEF Create, Enqueue, ShareCreated
<1>2. CASE Delete BY <1>2 DEF Delete, ShareDeleted
<1>3. ASSUME NEW o \in Revokers, FindForRevoke(o) \/ WriteRevoke(o)
      PROVE  share' = share \/ ShareRevoked
  BY <1>3 DEF FindForRevoke, WriteRevoke, ShareRevoked
<1> QED BY <1>1, <1>2, <1>3 DEF Next, Deliver, shareVars, vars

LEMMA ShareInvNext == ShareInv /\ [Next]_vars => ShareInv'
<1> SUFFICES ASSUME ShareInv, [Next]_vars PROVE ShareInv' OBVIOUS
<1> /\ OutboxInv /\ OutboxTypeOK /\ OutboxInv' /\ OutboxTypeOK'
    /\ share \in Shares /\ revoker \in [Revokers -> {"idle", "write", "done"}]
  BY ShareStep, InvNext, TypeNext DEF ShareInv, TypeOK
<1>1. share' \in Shares
  <2>1. CASE ShareCreated BY <2>1 DEF ShareCreated, Shares, Stamp
  <2>2. CASE ShareRevoked BY <2>2 DEF ShareRevoked, Shares, Stamp, OutboxTypeOK
  <2>3. CASE ShareDeleted BY <2>3 DEF ShareDeleted, Shares
  <2> QED BY <2>1, <2>2, <2>3, ShareWrites
<1>2. revoker' \in [Revokers -> {"idle", "write", "done"}]
  BY DEF Next, Create, Delete, FindForRevoke, WriteRevoke, Deliver, shareVars, vars
<1>3. delivery'.status = "ABSENT" => delivery.status = "ABSENT" /\ delivery' = delivery
  BY ShareStep, RowSteps
     DEF Creates, Touches, Deletes, Claims, Settling, Updated, Exists, OutboxTypeOK, Deliveries
<1>4. delivery'.status = "ABSENT" => ~share'.exists /\ share'.revokedAt = Null
  <2> SUFFICES ASSUME delivery'.status = "ABSENT"
               PROVE  ~share'.exists /\ share'.revokedAt = Null
    OBVIOUS
  <2>1. ~share.exists /\ share.revokedAt = Null BY <1>3 DEF ShareInv
  <2>2. share' = share \/ share' = [share EXCEPT !.exists = FALSE]
    BY <2>1, ShareWrites DEF ShareCreated, ShareRevoked, ShareDeleted
  <2> QED BY <2>1, <2>2 DEF Shares
<1> QED BY <1>1, <1>2, <1>4 DEF ShareInv, TypeOK

LEMMA ShareInvInit == Init => ShareInv
BY InvInit DEF Init, ShareInv, TypeOK, Shares, Stamp, OutboxInv

(* Shares, revocations and deliveries keep their types.                    *)
THEOREM ShareTypes == Spec => []TypeOK
<1>1. ShareInv => TypeOK BY DEF ShareInv
<1> QED BY <1>1, ShareInvInit, ShareInvNext, PTL DEF Spec

(* Once revoked with no send under way, an invitation is never mailed, by  *)
(* any of the batches or their retries.                                    *)
THEOREM RevocationCorrect == Spec => RevocationIsHonoured
<1>1. ShareInv /\ [Next]_vars => [RevokedUnsent => RevokedUnsent']_vars
  <2> SUFFICES ASSUME ShareInv, Next, RevokedUnsent PROVE RevokedUnsent'
    BY DEF vars, RevokedUnsent, Underway
  <2> /\ OutboxInv /\ clock \in Nat /\ Null \notin Int /\ share \in Shares
      /\ delivery \in Deliveries /\ batch \in [Batches -> BatchStates]
    BY OutboxAssumption, EnvironmentAssumption DEF ShareInv, TypeOK, OutboxTypeOK
  <2>1. share'.revokedAt # Null
    BY ShareWrites DEF ShareInv, ShareCreated, ShareRevoked, ShareDeleted, Shares, RevokedUnsent
  <2>2. ASSUME NEW b \in Batches PROVE batch'[b].pc \notin {"send", "record"}
    <3>1. batch[b].pc \notin {"send", "record"} BY DEF RevokedUnsent, Underway
    <3>2. CASE Create \/ Delete \/ Tick
      BY <3>1, <3>2 DEF Create, Enqueue, Delete, Cascade, Tick
    <3>3. ASSUME NEW o \in Revokers, FindForRevoke(o) \/ WriteRevoke(o) PROVE batch' = batch
      BY <3>3 DEF FindForRevoke, WriteRevoke, outboxVars
    <3>4. ASSUME NEW c \in Batches, Deliver(c) PROVE batch'[b].pc \notin {"send", "record"}
      <4>1. ~Send(c) /\ ~Record(c) BY DEF Send, Record, RevokedUnsent, Underway
      <4>2. Suppressed(c) BY DEF Suppressed, RevokedUnsent
      <4> QED BY <3>1, <3>4, <4>1, <4>2
              DEF Deliver, BatchStep, Crash, Start, Select, Claim, Reread, Suppress,
                  RecordFailure, Goto, Return, NoBatch, BatchStates
    <3> QED BY <3>1, <3>2, <3>3, <3>4 DEF Next
  <2>3. accepted' = accepted
    <3>1. ASSUME NEW c \in Batches PROVE ~Send(c) BY DEF Send, RevokedUnsent, Underway
    <3> QED BY <3>1 DEF Next, Create, Enqueue, Delete, Cascade, Tick, FindForRevoke,
         WriteRevoke, outboxVars, Deliver, BatchStep, Crash, Start, Select, Claim, Reread,
         Suppress, Record, RecordFailure
  <2> QED BY <2>1, <2>2, <2>3 DEF RevokedUnsent, Underway
<1> QED BY <1>1, ShareInvInit, ShareInvNext, PTL DEF Spec, RevocationIsHonoured
=============================================================================
