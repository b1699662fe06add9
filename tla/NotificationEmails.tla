--------------------------- MODULE NotificationEmails --------------------------
(***************************************************************************)
(* The email of one notification, delivered through EmailOutbox while its  *)
(* owner changes preferences, archives the case or marks it as read.       *)
(***************************************************************************)
EXTENDS EmailOutbox

CONSTANT Readers  \* concurrent requests that set the read state

VARIABLES
  wanted,    \* what getSuppressionReason looks at: settings and the case
  reader     \* reader[r]: next step of mark-read request r

ownerVars == <<wanted, reader>>
vars == <<delivery, batch, clock, accepted, wanted, reader>>

Wanted == [demo : BOOLEAN, archived : BOOLEAN, email : BOOLEAN, category : BOOLEAN]

TypeOK ==
  /\ OutboxTypeOK
  /\ wanted \in Wanted
  /\ reader \in [Readers -> {"idle", "write", "done"}]

Init ==
  /\ OutboxInit
  /\ wanted \in [demo : BOOLEAN, archived : {FALSE}, email : {TRUE}, category : {TRUE}]
  /\ reader = [r \in Readers |-> "idle"]

(* buildNotificationDelivery in a producer's transaction: a row with a     *)
(* pending email exists only where the preferences asked for one.          *)
Produce ==
  /\ wanted.email /\ wanted.category
  /\ Enqueue
  /\ UNCHANGED ownerVars

UpdateSettings ==
  /\ \E email, category \in BOOLEAN :
       wanted' = [wanted EXCEPT !.email = email, !.category = category]
  /\ UNCHANGED <<reader, outboxVars>>

Archive ==
  /\ wanted' = [wanted EXCEPT !.archived = TRUE]
  /\ UNCHANGED <<reader, outboxVars>>

FindForRead(r) ==
  /\ reader[r] = "idle" /\ Exists
  /\ reader' = [reader EXCEPT ![r] = "write"]
  /\ UNCHANGED <<wanted, outboxVars>>

(* The update is by id and moves updatedAt, which a claim compares.        *)
WriteRead(r) ==
  /\ reader[r] = "write"
  /\ reader' = [reader EXCEPT ![r] = "done"]
  /\ \/ Touch
     \/ (~Exists \/ Faulty("database")) /\ UNCHANGED outboxVars
  /\ UNCHANGED wanted

Delete == Cascade /\ UNCHANGED ownerVars

(* Mutation: the case's archive state is not rechecked.                    *)
SuppressedByPreference == wanted.demo \/ ~wanted.email \/ ~wanted.category

(* getSuppressionReason, on the settings and the case as re-read.          *)
Suppressed ==
  wanted.demo \/ wanted.archived \/ ~wanted.email \/ ~wanted.category

Deliver(b) == (Crash(b) \/ BatchStep(b, Suppressed)) /\ UNCHANGED ownerVars

Next ==
  \/ Produce \/ UpdateSettings \/ Archive \/ Delete
  \/ Tick /\ UNCHANGED ownerVars
  \/ \E r \in Readers : FindForRead(r) \/ WriteRead(r)
  \/ \E b \in Batches : Deliver(b)

Spec == Init /\ [][Next]_vars

-----------------------------------------------------------------------------
(* Properties.                                                             *)

Underway == \E b \in Batches : batch[b].pc \in {"send", "record"}

OptedOutUnsent ==
  /\ wanted.demo \/ wanted.archived \/ ~(wanted.email /\ wanted.category)
  /\ ~accepted /\ ~Underway

(* While the owner does not want it, the email is not sent: neither by a   *)
(* batch that leased it when it was wanted and has not yet rechecked, nor  *)
(* by a retry.                                                             *)
OptOutIsHonoured == [][OptedOutUnsent => ~accepted' /\ ~Underway']_vars
=============================================================================
