---------------------------- MODULE ReminderDelivery ---------------------------
(***************************************************************************)
(* deliverDueReminderBatch on one reminder, while members of the case      *)
(* reschedule, complete or delete it and its owner archives the case or    *)
(* changes preferences.  Passes overlap as in EmailOutbox.                 *)
(***************************************************************************)
EXTENDS Environment, FiniteSets, Sequences

CONSTANTS
  Passes,     \* runs of deliver_due_reminders that may overlap
  Editors     \* concurrent PATCH and DELETE requests for the reminder

VARIABLES
  reminder,   \* the Reminder row, with history: round, the schedule in force
  archived,   \* Case.archivedAt is set
  wanted,     \* the owner's preferences ask for an alert in some channel
  pass,       \* pass[b]: next step, `now`, and the preference it has read
  editor,     \* editor[e]: next step of request e and what it asks for
  handled     \* history: the claims made, in order

ownerState == <<archived, wanted>>
reminderVars == <<reminder, archived, wanted, pass, editor, clock, handled>>

Claimings == [round : Nat, alerted : BOOLEAN, due : BOOLEAN]

(* PATCH with a new date, a completion flag or both; or DELETE.            *)
Edits == [remindAt : Stamp, completed : {"yes", "no", "same"}, remove : BOOLEAN]
NoEdit == [remindAt |-> Null, completed |-> "same", remove |-> FALSE]

Reminders == [exists : BOOLEAN, remindAt : Nat, sentAt : Stamp, completedAt : Stamp,
              round : Nat]
PassStates == [pc : {"idle", "select", "claim"}, now : Nat, wanted : BOOLEAN]
EditorStates == [pc : {"idle", "write", "done"}, edit : Edits]

ReminderTypeOK ==
  /\ reminder \in Reminders
  /\ archived \in BOOLEAN /\ wanted \in BOOLEAN
  /\ pass \in [Passes -> PassStates]
  /\ editor \in [Editors -> EditorStates]
  /\ clock \in Nat
  /\ handled \in Seq(Claimings)

NoPass == [pc |-> "idle", now |-> 0, wanted |-> FALSE]

ReminderInit ==
  /\ reminder = [exists |-> TRUE, remindAt |-> 1, sentAt |-> Null,
                 completedAt |-> Null, round |-> 0]
  /\ archived \in BOOLEAN /\ wanted \in BOOLEAN
  /\ pass = [b \in Passes |-> NoPass]
  /\ editor = [e \in Editors |-> [pc |-> "idle", edit |-> NoEdit]]
  /\ clock = 0
  /\ handled = <<>>

ReminderTick ==
  /\ ClockTick
  /\ UNCHANGED <<reminder, ownerState, pass, editor, handled>>

-----------------------------------------------------------------------------
(* The members of the case.                                                *)

ChangePreferences ==
  /\ wanted' \in BOOLEAN
  /\ UNCHANGED <<reminder, archived, pass, editor, clock, handled>>

ArchiveOwnersCase ==
  /\ archived' = TRUE
  /\ UNCHANGED <<reminder, wanted, pass, editor, clock, handled>>

(* The new date was validated to be in the future; the case is read now.   *)
FindReminder(e) ==
  /\ editor[e].pc = "idle"
  /\ reminder.exists /\ ~archived
  /\ \E remindAt \in {Null} \cup clock + 1 .. MaxClock, completed \in {"yes", "no", "same"},
        remove \in BOOLEAN :
       editor' = [editor EXCEPT ![e] =
         [pc |-> "write", edit |-> IF remove THEN [NoEdit EXCEPT !.remove = TRUE]
            ELSE [remindAt |-> remindAt, completed |-> completed, remove |-> FALSE]]]
  /\ UNCHANGED <<reminder, ownerState, pass, clock, handled>>

Completion(edit) ==
  CASE edit.completed = "yes" -> clock
    [] edit.completed = "no" -> Null
    [] OTHER -> IF edit.remindAt = Null THEN reminder.completedAt ELSE Null

(* Mutation: a new date does not make the reminder unsent.                 *)
RescheduledSent(edit) ==
  IF edit.remindAt = Null
    THEN reminder
    ELSE [reminder EXCEPT !.remindAt = edit.remindAt, !.round = @ + 1]

Rescheduled(edit) ==
  IF edit.remindAt = Null
    THEN reminder
    ELSE [reminder EXCEPT !.remindAt = edit.remindAt, !.sentAt = Null, !.round = @ + 1]

Edited(edit) ==
  IF edit.remove THEN [reminder EXCEPT !.exists = FALSE]
  ELSE [Rescheduled(edit) EXCEPT !.completedAt = Completion(edit)]

(* One transaction, by id: it throws when the reminder is gone.            *)
WriteReminder(e) ==
  /\ editor[e].pc = "write"
  /\ editor' = [editor EXCEPT ![e].pc = "done"]
  /\ \/ reminder.exists /\ reminder' = Edited(editor[e].edit)
     \/ (~reminder.exists \/ Faulty("database")) /\ UNCHANGED reminder
  /\ UNCHANGED <<ownerState, pass, clock, handled>>

-----------------------------------------------------------------------------
(* A pass.                                                                *)

ReminderOpen == reminder.exists /\ reminder.completedAt = Null /\ reminder.sentAt = Null

ReminderDue(now) == ReminderOpen /\ reminder.remindAt <= now /\ ~archived

StartPass(b) ==
  /\ pass[b].pc = "idle"
  /\ pass' = [pass EXCEPT ![b].pc = "select", ![b].now = clock]
  /\ UNCHANGED <<reminder, ownerState, editor, clock, handled>>

(* The owner's preferences are read here, with the reminder.               *)
SelectReminder(b) ==
  /\ pass[b].pc = "select"
  /\ \/ /\ ReminderDue(pass[b].now)
        /\ pass' = [pass EXCEPT ![b].pc = "claim", ![b].wanted = wanted]
     \/ (~ReminderDue(pass[b].now) \/ Faulty("database")) /\ pass' = [pass EXCEPT ![b] = NoPass]
  /\ UNCHANGED <<reminder, ownerState, editor, clock, handled>>

(* Mutation: the claim does not compare sentAt.                            *)
ReminderClaimableTwice == reminder.exists /\ reminder.completedAt = Null

ReminderClaimable == ReminderOpen

(* One transaction: the conditional update of sentAt, the notification if  *)
(* the preferences want one, the audit entry; it is rolled back as a whole.*)
ClaimReminder(b) ==
  /\ pass[b].pc = "claim"
  /\ \/ /\ ReminderClaimable
        /\ reminder' = [reminder EXCEPT !.sentAt = pass[b].now]
        /\ handled' = Append(handled, [round |-> reminder.round, alerted |-> pass[b].wanted,
             due |-> reminder.remindAt <= clock])
     \/ (~ReminderClaimable \/ Faulty("database")) /\ UNCHANGED <<reminder, handled>>
  /\ pass' = [pass EXCEPT ![b] = NoPass]
  /\ UNCHANGED <<ownerState, editor, clock>>

CrashPass(b) ==
  /\ pass[b].pc # "idle" /\ Faulty("crash")
  /\ pass' = [pass EXCEPT ![b] = NoPass]
  /\ UNCHANGED <<reminder, ownerState, editor, clock, handled>>

PassStep(b) == StartPass(b) \/ SelectReminder(b) \/ ClaimReminder(b)

ReminderNext ==
  \/ ReminderTick \/ ChangePreferences \/ ArchiveOwnersCase
  \/ \E e \in Editors : FindReminder(e) \/ WriteReminder(e)
  \/ \E b \in Passes : PassStep(b) \/ CrashPass(b)

ReminderSpec == ReminderInit /\ [][ReminderNext]_reminderVars

(* The scheduler starts a pass every minute, an awaited call settles,     *)
(* time passes.                                                            *)
ReminderFairSpec ==
  ReminderSpec /\ WF_reminderVars(ReminderTick) /\ \A b \in Passes : WF_reminderVars(PassStep(b))

-----------------------------------------------------------------------------
(* Properties.                                                             *)

(* docs/architecture.md:66: the claim "prevents duplicate alerts across    *)
(* worker instances": whatever batches overlap and edits intervene, one    *)
(* schedule of the reminder is claimed at most once.                       *)
OncePerSchedule ==
  \A i, j \in DOMAIN handled : handled[i].round = handled[j].round => i = j

Handled(n) == \E i \in DOMAIN handled : handled[i].round = n

(* Every schedule, the first one and each new date, is claimed in the end, *)
(* unless a newer date replaces it or the reminder is completed, removed   *)
(* or archived; failures and overlapping batches only delay it.            *)
EveryScheduleIsHandled ==
  \A n \in 0 .. Cardinality(Editors) :
    reminder.round = n ~>
      \/ Handled(n) \/ reminder.round > n
      \/ reminder.completedAt # Null \/ ~reminder.exists \/ archived

(* docs/architecture.md:66: "Reminder runs claim due, incomplete           *)
(* reminders": no schedule is used up before its date.                     *)
ClaimsAreDue == \A i \in DOMAIN handled : handled[i].due
=============================================================================
