--------------------------- MODULE PacketShareEmails ---------------------------
(***************************************************************************)
(* A packet share, its owner's create and revoke requests, and the email   *)
(* that invites one recipient, delivered through EmailOutbox.              *)
(***************************************************************************)
EXTENDS EmailOutbox

CONSTANT Revokers  \* concurrent revoke requests of the owner

VARIABLES
  share,    \* the PacketShare: does it exist, when it expires, when it was revoked
  revoker   \* revoker[o]: next step of revoke request o

shareVars == <<share, revoker>>
vars == <<delivery, batch, clock, accepted, share, revoker>>

Shares == [exists : BOOLEAN, expiresAt : Stamp, revokedAt : Stamp]

TypeOK ==
  /\ OutboxTypeOK
  /\ share \in Shares
  /\ revoker \in [Revokers -> {"idle", "write", "done"}]

Init ==
  /\ OutboxInit
  /\ share = [exists |-> FALSE, expiresAt |-> Null, revokedAt |-> Null]
  /\ revoker = [o \in Revokers |-> "idle"]

(* create(): one transaction for the share, its recipient and the delivery.*)
(* The expiry was validated before awaited calls, so it may be any date.   *)
Create ==
  /\ Enqueue
  /\ \E expiresAt \in 1 .. MaxClock \cup {Null} :
       share' = [exists |-> TRUE, expiresAt |-> expiresAt, revokedAt |-> Null]
  /\ UNCHANGED revoker

FindForRevoke(o) ==
  /\ revoker[o] = "idle"
  /\ share.exists /\ share.revokedAt = Null
  /\ revoker' = [revoker EXCEPT ![o] = "write"]
  /\ UNCHANGED <<share, outboxVars>>

(* The update is by id: a second request moves revokedAt; an update of a   *)
(* share that is gone, like any failed one, throws.                        *)
WriteRevoke(o) ==
  /\ revoker[o] = "write"
  /\ revoker' = [revoker EXCEPT ![o] = "done"]
  /\ \/ share.exists /\ share' = [share EXCEPT !.revokedAt = clock]
     \/ (~share.exists \/ Faulty("database")) /\ UNCHANGED share
  /\ UNCHANGED outboxVars

(* The case or its owner is deleted: the cascade takes share and delivery. *)
Delete ==
  /\ Cascade
  /\ share' = [share EXCEPT !.exists = FALSE]
  /\ UNCHANGED revoker

(* Mutation: expiry alone suppresses.                                      *)
SuppressedIfExpired(b) == share.expiresAt # Null /\ share.expiresAt <= batch[b].now

(* getSuppressionReason, with the batch's `now`.                           *)
Suppressed(b) ==
  \/ share.revokedAt # Null
  \/ share.expiresAt # Null /\ share.expiresAt <= batch[b].now

Deliver(b) == (Crash(b) \/ BatchStep(b, Suppressed(b))) /\ UNCHANGED shareVars

Next ==
  \/ Create \/ Delete
  \/ Tick /\ UNCHANGED shareVars
  \/ \E o \in Revokers : FindForRevoke(o) \/ WriteRevoke(o)
  \/ \E b \in Batches : Deliver(b)

Spec == Init /\ [][Next]_vars

FairSpec ==
  /\ Spec
  /\ \A b \in Batches : WF_vars(BatchStep(b, Suppressed(b)) /\ UNCHANGED shareVars)
  /\ WF_vars(Tick /\ UNCHANGED shareVars)

-----------------------------------------------------------------------------
(* Properties.                                                             *)

Underway == \E b \in Batches : batch[b].pc \in {"send", "record"}

RevokedUnsent == share.revokedAt # Null /\ ~accepted /\ ~Underway

(* A revocation that meets no send under way is the end of it: the link is *)
(* never mailed any more, whatever was selected or leased before, and by   *)
(* whatever retry.                                                         *)
RevocationIsHonoured == [][RevokedUnsent => RevokedUnsent']_vars

(* Every delivery ends, sent, suppressed, given up or deleted; and one     *)
(* whose share was revoked, and that is not with the provider already, is  *)
(* never sent: it ends suppressed or deleted, or had failed for good.      *)
InvitationSettles ==
  /\ DeliverySettles
  /\ RevokedUnsent ~> delivery.status \in {"SUPPRESSED", "DELETED"} \/ (Final /\ ~accepted)
=============================================================================
