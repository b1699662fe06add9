----------------------------- MODULE WorkerProofs ------------------------------
(***************************************************************************)
(* What the worker and the requests it overlaps with make of reminders, of *)
(* packets and of demo workspaces, for any number of each.                 *)
(***************************************************************************)
EXTENDS ReminderDelivery, PacketGeneration, DemoWorkspaces, FiniteSetTheorems, TLAPS

-----------------------------------------------------------------------------
(* Reminders: one claim per schedule, whatever batches and edits overlap.   *)

LEMMA RescheduledType ==
  ASSUME ReminderTypeOK, NEW edit \in Edits
  PROVE  Rescheduled(edit) \in Reminders
<1> reminder \in Reminders BY DEF ReminderTypeOK
<1>1. CASE edit.remindAt = Null BY <1>1 DEF Rescheduled
<1>2. CASE edit.remindAt # Null
  <2>1. edit.remindAt \in Nat /\ reminder.round + 1 \in Nat /\ Null \in Stamp
    BY <1>2 DEF Edits, Stamp, Reminders
  <2> QED BY <1>2, <2>1 DEF Rescheduled, Reminders
<1> QED BY <1>1, <1>2

LEMMA EditedType ==
  ASSUME ReminderTypeOK, NEW edit \in Edits
  PROVE  Edited(edit) \in Reminders
<1> reminder \in Reminders /\ clock \in Nat BY DEF ReminderTypeOK
<1>1. Completion(edit) \in Stamp BY DEF Completion, Edits, Stamp, Reminders
<1>2. Rescheduled(edit) \in Reminders BY RescheduledType
<1>3. [Rescheduled(edit) EXCEPT !.completedAt = Completion(edit)] \in Reminders
  BY <1>1, <1>2 DEF Reminders
<1>4. [reminder EXCEPT !.exists = FALSE] \in Reminders BY DEF Reminders
<1> QED BY <1>3, <1>4 DEF Edited

(* An edit keeps the schedule and whether it was claimed, or begins a new  *)
(* schedule, unclaimed.                                                    *)
LEMMA EditedRound ==
  ASSUME ReminderTypeOK, NEW edit \in Edits
  PROVE  \/ Edited(edit).round = reminder.round /\ Edited(edit).sentAt = reminder.sentAt
         \/ Edited(edit).round = reminder.round + 1
<1> reminder \in Reminders BY DEF ReminderTypeOK, Reminders
<1>1. Rescheduled(edit) \in Reminders BY RescheduledType
<1>2. \/ Rescheduled(edit) = reminder
      \/ Rescheduled(edit).round = reminder.round + 1
  BY DEF Rescheduled, Reminders
<1>3. CASE edit.remove BY <1>3 DEF Edited, Reminders
<1>4. CASE ~edit.remove
  <2>1. /\ Edited(edit).round = Rescheduled(edit).round
        /\ Edited(edit).sentAt = Rescheduled(edit).sentAt
    BY <1>1, <1>4 DEF Edited, Reminders
  <2> QED BY <1>2, <2>1
<1> QED BY <1>3, <1>4

(* Schedules are claimed in order, and the one in force is marked as sent  *)
(* from its claim on, until a new date replaces it.                        *)
ClaimedInOrder ==
  \A i \in DOMAIN handled :
    /\ handled[i].round <= reminder.round
    /\ handled[i].round = reminder.round => reminder.sentAt # Null

ReminderInv == ReminderTypeOK /\ ClaimedInOrder /\ OncePerSchedule

LEMMA ReminderInvInit == ReminderInit => ReminderInv
<1> SUFFICES ASSUME ReminderInit PROVE ReminderInv OBVIOUS
<1> USE DEF ReminderInit
<1>1. reminder \in Reminders BY DEF Reminders, Stamp
<1>2. NoEdit \in Edits /\ NoPass \in PassStates BY DEF NoEdit, Edits, Stamp, NoPass, PassStates
<1>3. editor \in [Editors -> EditorStates] BY <1>2 DEF EditorStates
<1>4. handled = <<>> /\ handled \in Seq(Claimings) OBVIOUS
<1>5. archived \in BOOLEAN /\ wanted \in BOOLEAN OBVIOUS
<1>6. ReminderTypeOK BY <1>1, <1>2, <1>3, <1>4, <1>5 DEF ReminderTypeOK
<1>7. ClaimedInOrder /\ OncePerSchedule BY DEF ClaimedInOrder, OncePerSchedule
<1> QED BY <1>6, <1>7 DEF ReminderInv

LEMMA ReminderTypeNext == ReminderTypeOK /\ [ReminderNext]_reminderVars => ReminderTypeOK'
<1> SUFFICES ASSUME ReminderTypeOK, [ReminderNext]_reminderVars PROVE ReminderTypeOK' OBVIOUS
<1> USE DEF ReminderTypeOK, ownerState
<1>1. CASE ReminderTick \/ ChangePreferences \/ ArchiveOwnersCase \/ UNCHANGED reminderVars
  <2>1. CASE ReminderTick BY <2>1 DEF ReminderTick, ClockTick
  <2>2. CASE ChangePreferences BY <2>2 DEF ChangePreferences
  <2>3. CASE ArchiveOwnersCase
    <3>1. archived' \in BOOLEAN BY <2>3 DEF ArchiveOwnersCase
    <3> QED BY <2>3, <3>1 DEF ArchiveOwnersCase
  <2>4. CASE UNCHANGED reminderVars BY <2>4 DEF reminderVars
  <2> QED BY <1>1, <2>1, <2>2, <2>3, <2>4
<1>2. ASSUME NEW e \in Editors, FindReminder(e) PROVE ReminderTypeOK'
  <2>1. \A n \in {Null} \cup clock + 1 .. MaxClock : n \in Stamp
    BY EnvironmentAssumption DEF Stamp
  <2>2. NoEdit \in Edits /\ [NoEdit EXCEPT !.remove = TRUE] \in Edits
    BY DEF NoEdit, Edits, Stamp
  <2>3. ASSUME NEW n \in Stamp, NEW completed \in {"yes", "no", "same"}
        PROVE  [remindAt |-> n, completed |-> completed, remove |-> FALSE] \in Edits
    BY DEF Edits
  <2>4. PICK edit \in Edits : editor' = [editor EXCEPT ![e] = [pc |-> "write", edit |-> edit]]
    BY <1>2, <2>1, <2>2, <2>3 DEF FindReminder
  <2>5. [pc |-> "write", edit |-> edit] \in EditorStates BY DEF EditorStates
  <2> QED BY <1>2, <2>4, <2>5 DEF FindReminder
<1>3. ASSUME NEW e \in Editors, WriteReminder(e) PROVE ReminderTypeOK'
  <2>1. editor[e].edit \in Edits BY DEF EditorStates
  <2>2. reminder' \in Reminders BY <1>3, <2>1, EditedType DEF WriteReminder
  <2>3. [editor[e] EXCEPT !.pc = "done"] \in EditorStates BY DEF EditorStates
  <2> QED BY <1>3, <2>2, <2>3 DEF WriteReminder
<1>4. ASSUME NEW b \in Passes, StartPass(b) \/ SelectReminder(b) \/ CrashPass(b) PROVE ReminderTypeOK'
  <2>1. /\ NoPass \in PassStates
        /\ [pass[b] EXCEPT !.pc = "select", !.now = clock] \in PassStates
        /\ [pass[b] EXCEPT !.pc = "claim", !.wanted = wanted] \in PassStates
    BY DEF NoPass, PassStates
  <2>2. pass' \in [Passes -> PassStates] BY <1>4, <2>1 DEF StartPass, SelectReminder, CrashPass
  <2> QED BY <1>4, <2>2 DEF StartPass, SelectReminder, CrashPass
<1>5. ASSUME NEW b \in Passes, ClaimReminder(b) PROVE ReminderTypeOK'
  <2>1. NoPass \in PassStates BY DEF NoPass, PassStates
  <2>2. [reminder EXCEPT !.sentAt = pass[b].now] \in Reminders
    BY DEF Reminders, Stamp, PassStates
  <2> DEFINE c == [round |-> reminder.round, alerted |-> pass[b].wanted,
                   due |-> reminder.remindAt <= clock]
  <2>3. c \in Claimings BY DEF Claimings, Reminders, PassStates
  <2>4. handled' = handled \/ handled' = Append(handled, c) BY <1>5 DEF ClaimReminder
  <2> HIDE DEF c
  <2>5. handled' \in Seq(Claimings) BY <2>3, <2>4
  <2>6. reminder' \in Reminders BY <1>5, <2>2 DEF ClaimReminder
  <2>7. pass' \in [Passes -> PassStates] BY <1>5, <2>1 DEF ClaimReminder
  <2> QED BY <1>5, <2>6, <2>7, <2>5 DEF ClaimReminder
<1> QED BY <1>1, <1>2, <1>3, <1>4, <1>5 DEF ReminderNext, PassStep

LEMMA ReminderInvNext == ReminderInv /\ [ReminderNext]_reminderVars => ReminderInv'
<1> SUFFICES ASSUME ReminderInv, [ReminderNext]_reminderVars PROVE ReminderInv' OBVIOUS
<1> /\ ReminderTypeOK /\ ReminderTypeOK' /\ reminder \in Reminders /\ reminder' \in Reminders
    /\ handled \in Seq(Claimings)
  BY ReminderTypeNext DEF ReminderInv, ReminderTypeOK
<1>1. CASE reminder' = reminder /\ handled' = handled
  BY <1>1 DEF ReminderInv, ClaimedInOrder, OncePerSchedule
<1>2. ASSUME NEW e \in Editors, WriteReminder(e) PROVE ReminderInv'
  <2> SUFFICES ASSUME reminder' = Edited(editor[e].edit) PROVE ReminderInv'
    BY <1>1, <1>2 DEF WriteReminder
  <2>1. editor[e].edit \in Edits BY DEF ReminderTypeOK, EditorStates
  <2>2. \/ reminder'.round = reminder.round /\ reminder'.sentAt = reminder.sentAt
        \/ reminder'.round = reminder.round + 1
    BY <2>1, EditedRound
  <2>3. handled' = handled BY <1>2 DEF WriteReminder
  <2>4. \A i \in DOMAIN handled : handled[i].round \in Nat
    <3>1. \A i \in DOMAIN handled : handled[i] \in Claimings OBVIOUS
    <3> QED BY <3>1 DEF Claimings
  <2>5. ClaimedInOrder'
    BY <2>2, <2>3, <2>4 DEF ReminderInv, ClaimedInOrder, Reminders
  <2> QED BY <2>3, <2>5 DEF ReminderInv, OncePerSchedule
<1>3. ASSUME NEW b \in Passes, ClaimReminder(b) PROVE ReminderInv'
  <2> SUFFICES ASSUME reminder' # reminder \/ handled' # handled PROVE ReminderInv' BY <1>1
  <2> DEFINE c == [round |-> reminder.round, alerted |-> pass[b].wanted,
                   due |-> reminder.remindAt <= clock]
  <2>1. /\ ReminderClaimable /\ reminder' = [reminder EXCEPT !.sentAt = pass[b].now]
        /\ handled' = Append(handled, c)
    BY <1>3 DEF ClaimReminder
  <2>2. c \in Claimings /\ c.round = reminder.round BY DEF Claimings, ReminderTypeOK, Reminders, PassStates
  <2> HIDE DEF c
  <2>3. /\ DOMAIN handled' = 1 .. Len(handled) + 1
        /\ \A i \in DOMAIN handled : handled'[i] = handled[i]
        /\ handled'[Len(handled) + 1] = c
    BY <2>1, <2>2
  <2>4. \A i \in DOMAIN handled' : i \in DOMAIN handled \/ i = Len(handled) + 1 BY <2>3
  <2>5. \A i \in DOMAIN handled : handled[i].round # reminder.round
    BY <2>1 DEF ReminderInv, ClaimedInOrder, ReminderClaimable, ReminderOpen
  <2>6. reminder'.round = reminder.round /\ reminder'.sentAt # Null
    BY <2>1, EnvironmentAssumption DEF Reminders, ReminderTypeOK, PassStates
  <2>7. ClaimedInOrder'
    BY <2>2, <2>3, <2>4, <2>6 DEF ReminderInv, ClaimedInOrder, Reminders
  <2>8. OncePerSchedule'
    BY <2>2, <2>3, <2>4, <2>5 DEF ReminderInv, OncePerSchedule
  <2> QED BY <2>7, <2>8 DEF ReminderInv
<1> QED BY <1>1, <1>2, <1>3
        DEF ReminderNext, PassStep, ReminderTick, ChangePreferences, ArchiveOwnersCase, FindReminder,
            StartPass, SelectReminder,
            CrashPass, reminderVars

(* The reminder, its requests and batches keep their types.                *)
THEOREM ReminderTypes == ReminderSpec => []ReminderTypeOK
BY ReminderInvInit, ReminderTypeNext, PTL DEF ReminderSpec, ReminderInv

(* No schedule of a reminder is alerted twice, whatever batches overlap    *)
(* and whenever it is edited.                                              *)
THEOREM OncePerScheduleCorrect == ReminderSpec => []OncePerSchedule
<1>1. ReminderInv => OncePerSchedule BY DEF ReminderInv
<1> QED BY <1>1, ReminderInvInit, ReminderInvNext, PTL DEF ReminderSpec

-----------------------------------------------------------------------------
(* Packets.                                                                 *)

LEMMA PacketInvInit == PacketInit => PacketInv
<1> SUFFICES ASSUME PacketInit PROVE PacketInv OBVIOUS
<1> USE DEF PacketInit
<1>1. PacketTypeOK
  BY DEF PacketTypeOK, PacketRows, CallStates, RendererStates, NoCall, NoRun
<1>2. ReadyHasExport BY DEF ReadyHasExport
<1>3. ASSUME NEW c \in Calls PROVE CallOK(c) BY DEF CallOK, NoCall
<1>4. ASSUME NEW w \in Renderers PROVE RunOK(w) BY DEF RunOK, NoRun
<1>5. ASSUME NEW k \in Packets PROVE JobOK(k) BY PacketAssumption DEF JobOK
<1> QED BY <1>1, <1>2, <1>3, <1>4, <1>5 DEF PacketInv

(* How the lock of a job passes with one step of a run: it stays where it  *)
(* is, is given up with the job, or is taken with it.                      *)
LockMoves(k, job, made, w, r) ==
  \/ /\ job = packet[k].job /\ made = packet[k].made
     /\ \/ r.held = renderer[w].held /\ r.packet = renderer[w].packet /\ r.made = renderer[w].made
        \/ ~r.held /\ ~renderer[w].held
  \/ renderer[w].held /\ renderer[w].packet = k /\ ~r.held /\ job # "active"
  \/ /\ packet[k].job = "waiting" /\ job = "active" /\ ~renderer[w].held
     /\ r.held /\ r.packet = k /\ made = packet[k].made /\ r.made = made

(* One step of a run, on the packet it has or takes.                       *)
LEMMA RunnerStep ==
  ASSUME PacketInv, NEW w \in Renderers, NEW r \in RendererStates, NEW k \in Packets,
         NEW x \in PacketRows,
         renderer' = [renderer EXCEPT ![w] = r], packet' = [packet EXCEPT ![k] = x],
         UNCHANGED call, shelved' \in BOOLEAN, disturbed' \in BOOLEAN,
         x.status = "READY" => x.exports > 0, x.exports >= packet[k].exports,
         x.status # "ABSENT", packet[k].status # "ABSENT",
         x.job # "none", packet[k].job # "none",
         x.job # "ended" => x.made < Attempts, x.made <= Attempts,
         LockMoves(k, x.job, x.made, w, r),
         r.pc = "idle" => ~r.held, r.pc # "idle" => r.packet = k,
         r.pc = "return" => x.exports > 0
  PROVE  PacketInv'
<1> USE DEF PacketInv
<1>1. /\ packet \in [Packets -> PacketRows] /\ renderer \in [Renderers -> RendererStates]
      /\ call \in [Calls -> CallStates]
  BY DEF PacketTypeOK
<1>2. PacketTypeOK' BY <1>1 DEF PacketTypeOK
<1>3. ASSUME NEW j \in Packets
      PROVE  (j = k => packet'[j] = x) /\ (j # k => packet'[j] = packet[j])
  BY <1>1
<1>4. ASSUME NEW v \in Renderers
      PROVE  (v = w => renderer'[v] = r) /\ (v # w => renderer'[v] = renderer[v])
  BY <1>1
<1>5. ReadyHasExport' BY <1>3 DEF ReadyHasExport
<1>6. ASSUME NEW c \in Calls PROVE CallOK(c)' BY <1>1, <1>3 DEF CallOK, CallStates
<1>7. ASSUME NEW v \in Renderers, v # w, renderer[v].held, renderer[v].packet = k
      PROVE  packet[k].job = "active" /\ x.job = "active" /\ x.made = packet[k].made
  <2>1. packet[k].job = "active" BY <1>7 DEF RunOK
  <2>2. ~(renderer[w].held /\ renderer[w].packet = k) BY <2>1, <1>7 DEF JobOK
  <2> QED BY <2>1, <2>2 DEF LockMoves
<1>8. ASSUME NEW v \in Renderers PROVE RunOK(v)'
  <2>1. CASE v = w
    <3>1. r.held => x.job = "active" /\ x.made = r.made
      BY DEF LockMoves, RunOK
    <3> QED BY <2>1, <3>1, <1>3, <1>4 DEF RunOK
  <2>2. CASE v # w
    <3>1. RunOK(v) /\ renderer'[v] = renderer[v] BY <2>2, <1>4
    <3>2. x.exports \in Nat /\ packet[k].exports \in Nat BY <1>1 DEF PacketRows
    <3> QED BY <2>2, <3>1, <3>2, <1>3, <1>7 DEF RunOK
  <2> QED BY <2>1, <2>2
<1>9. ASSUME NEW j \in Packets PROVE JobOK(j)'
  <2>1. ASSUME packet'[j].job = "active"
        PROVE  \E u \in Renderers :
                 /\ renderer'[u].held /\ renderer'[u].packet = j
                 /\ \A v \in Renderers : renderer'[v].held /\ renderer'[v].packet = j => v = u
    <3>1. CASE r.held /\ r.packet = j
      <4>1. ASSUME NEW v \in Renderers, renderer'[v].held, renderer'[v].packet = j PROVE v = w
        <5>1. SUFFICES ASSUME v # w PROVE FALSE OBVIOUS
        <5>2. renderer[v].held /\ renderer[v].packet = j /\ packet[j].job = "active"
          BY <4>1, <5>1, <1>4 DEF RunOK
        <5>3. ~(renderer[w].held /\ renderer[w].packet = j) BY <5>1, <5>2 DEF JobOK
        <5> QED BY <3>1, <5>2, <5>3 DEF LockMoves
      <4> QED BY <3>1, <4>1, <1>4
    <3>2. CASE ~(r.held /\ r.packet = j)
      <4>1. packet[j].job = "active" /\ ~(renderer[w].held /\ renderer[w].packet = j)
        BY <2>1, <3>2, <1>3 DEF LockMoves
      <4>2. PICK u \in Renderers :
              /\ renderer[u].held /\ renderer[u].packet = j
              /\ \A v \in Renderers : renderer[v].held /\ renderer[v].packet = j => v = u
        BY <4>1 DEF JobOK
      <4>3. u # w /\ renderer'[u] = renderer[u] BY <4>1, <4>2, <1>4
      <4> QED BY <3>2, <4>2, <4>3, <1>4
    <3> QED BY <3>1, <3>2
  <2>2. /\ packet'[j].status = "ABSENT" => packet'[j].job = "none"
        /\ packet'[j].job # "ended" => packet'[j].made < Attempts
        /\ packet'[j].made <= Attempts
    BY <1>3 DEF JobOK
  <2> QED BY <2>1, <2>2 DEF JobOK
<1> QED BY <1>2, <1>5, <1>6, <1>8, <1>9

(* A step of a run that writes no packet and keeps its lock.               *)
LEMMA QuietRun ==
  ASSUME PacketInv, NEW w \in Renderers, renderer[w].pc # "idle",
         NEW pc \in {"find", "begin", "render", "record", "fail", "return", "throw"},
         To(w, pc), UNCHANGED <<packet, call>>, shelved' \in BOOLEAN, disturbed' \in BOOLEAN,
         pc = "return" => packet[renderer[w].packet].exports > 0
  PROVE  PacketInv'
<1>1. /\ renderer[w] \in RendererStates /\ RunOK(w) /\ packet \in [Packets -> PacketRows]
      /\ renderer \in [Renderers -> RendererStates]
  BY DEF PacketInv, PacketTypeOK
<1>2. PICK k \in Packets : k = renderer[w].packet BY <1>1 DEF RunOK
<1>3. PICK x \in PacketRows : x = packet[k] BY <1>1
<1>4. PICK r \in RendererStates : r = [renderer[w] EXCEPT !.pc = pc] BY <1>1 DEF RendererStates
<1>5. r.pc = pc /\ r.packet = k /\ r.held = renderer[w].held /\ r.made = renderer[w].made
  BY <1>1, <1>2, <1>4 DEF RendererStates
<1>6. packet' = [packet EXCEPT ![k] = x] BY <1>1, <1>3
<1>7. renderer' = [renderer EXCEPT ![w] = r] BY <1>4 DEF To
<1>8. LockMoves(k, x.job, x.made, w, r) BY <1>2, <1>3, <1>5 DEF LockMoves
<1>9. JobOK(k) BY DEF PacketInv
<1>10. /\ x.status = "READY" => x.exports > 0
       /\ x.exports >= packet[k].exports
  BY <1>3 DEF PacketInv, ReadyHasExport, PacketRows
<1>11. /\ x.status # "ABSENT" /\ packet[k].status # "ABSENT"
       /\ x.job # "none" /\ packet[k].job # "none"
  BY <1>1, <1>2, <1>3 DEF RunOK
<1>12. (x.job # "ended" => x.made < Attempts) /\ x.made <= Attempts BY <1>3, <1>9 DEF JobOK
<1>13. r.pc # "idle" /\ (r.pc = "return" => x.exports > 0) BY <1>2, <1>3, <1>5
<1> QED BY <1>5, <1>6, <1>7, <1>8, <1>10, <1>11, <1>12, <1>13, RunnerStep

(* A run that is not ended writes its packet, and not its job.             *)
LEMMA WritingRun ==
  ASSUME PacketInv, NEW w \in Renderers, renderer[w].pc # "idle",
         NEW pc \in {"render", "fail", "return", "throw"}, To(w, pc),
         NEW status \in {"GENERATING", "READY", "FAILED"}, NEW exports \in Nat,
         exports >= packet[renderer[w].packet].exports,
         status = "READY" => exports > 0, pc = "return" => exports > 0,
         packet' = [packet EXCEPT ![renderer[w].packet].status = status,
                                  ![renderer[w].packet].exports = exports],
         UNCHANGED call, shelved' \in BOOLEAN, disturbed' \in BOOLEAN
  PROVE  PacketInv'
<1>1. /\ renderer[w] \in RendererStates /\ RunOK(w) /\ packet \in [Packets -> PacketRows]
      /\ renderer \in [Renderers -> RendererStates]
  BY DEF PacketInv, PacketTypeOK
<1>2. PICK k \in Packets : k = renderer[w].packet BY <1>1 DEF RunOK
<1>3. PICK x \in PacketRows : x = [packet[k] EXCEPT !.status = status, !.exports = exports]
  BY <1>1 DEF PacketRows
<1>4. PICK r \in RendererStates : r = [renderer[w] EXCEPT !.pc = pc] BY <1>1 DEF RendererStates
<1>5. r.pc = pc /\ r.packet = k /\ r.held = renderer[w].held /\ r.made = renderer[w].made
  BY <1>1, <1>2, <1>4 DEF RendererStates
<1>6. packet' = [packet EXCEPT ![k] = x] BY <1>1, <1>2, <1>3
<1>7. renderer' = [renderer EXCEPT ![w] = r] BY <1>4 DEF To
<1>8. packet[k] \in PacketRows BY <1>1
<1>9. /\ x.status = status /\ x.exports = exports /\ x.job = packet[k].job
      /\ x.made = packet[k].made
  BY <1>3, <1>8 DEF PacketRows
<1>10. LockMoves(k, x.job, x.made, w, r) BY <1>2, <1>5, <1>9 DEF LockMoves
<1>11. JobOK(k) BY DEF PacketInv
<1>12. packet[k].status # "ABSENT" /\ packet[k].job # "none" BY <1>1, <1>2 DEF RunOK
<1>13. (x.job # "ended" => x.made < Attempts) /\ x.made <= Attempts BY <1>9, <1>11 DEF JobOK
<1> QED BY <1>2, <1>5, <1>6, <1>7, <1>9, <1>10, <1>12, <1>13, RunnerStep

(* The packets after run w has given up job k, if it holds its lock.       *)
GivenUp(w, k, job, made) ==
  IF renderer[w].held THEN [packet EXCEPT ![k].job = job, ![k].made = made] ELSE packet

(* A run goes: it gives its job up if it holds the lock, or leaves it.     *)
LEMMA LeavingRun ==
  ASSUME PacketInv, NEW w \in Renderers, renderer[w].pc # "idle", NEW r \in RendererStates,
         renderer' = [renderer EXCEPT ![w] = r], ~r.held,
         NEW k \in Packets, k = renderer[w].packet,
         r.pc # "idle" => r.packet = k /\ r.pc = renderer[w].pc,
         NEW job \in {"waiting", "stalled", "ended"}, NEW made \in Nat,
         job # "ended" => made < Attempts, made <= Attempts,
         packet' = GivenUp(w, k, job, made),
         UNCHANGED call, shelved' \in BOOLEAN, disturbed' \in BOOLEAN
  PROVE  PacketInv'
<1>1. renderer[w] \in RendererStates /\ RunOK(w) /\ packet \in [Packets -> PacketRows]
  BY DEF PacketInv, PacketTypeOK
<1>2. k = renderer[w].packet OBVIOUS
<1>3. packet[k] \in PacketRows /\ JobOK(k) BY <1>1 DEF PacketInv
<1>4. PICK x \in PacketRows :
        x = IF renderer[w].held THEN [packet[k] EXCEPT !.job = job, !.made = made] ELSE packet[k]
  BY <1>3 DEF PacketRows
<1>5. packet' = [packet EXCEPT ![k] = x] BY <1>1, <1>2, <1>4 DEF GivenUp
<1>6. /\ x.status = packet[k].status /\ x.exports = packet[k].exports
      /\ x.job = IF renderer[w].held THEN job ELSE packet[k].job
      /\ x.made = IF renderer[w].held THEN made ELSE packet[k].made
  BY <1>3, <1>4 DEF PacketRows
<1>7. LockMoves(k, x.job, x.made, w, r) BY <1>2, <1>6 DEF LockMoves
<1>8. packet[k].status # "ABSENT" /\ packet[k].job # "none" BY <1>1, <1>2 DEF RunOK
<1>9. x.job # "none" BY <1>6, <1>8
<1>10. (x.job # "ended" => x.made < Attempts) /\ x.made <= Attempts BY <1>3, <1>6 DEF JobOK
<1>11. (x.status = "READY" => x.exports > 0) /\ x.exports >= packet[k].exports
  BY <1>3, <1>6 DEF PacketInv, ReadyHasExport, PacketRows
<1>12. r.pc = "return" => x.exports > 0 BY <1>1, <1>2, <1>6 DEF RunOK
<1>13. x.status # "ABSENT" BY <1>6, <1>8
<1>14. r.pc # "idle" => r.packet = k BY <1>2
<1> QED BY <1>5, <1>7, <1>8, <1>9, <1>10, <1>11, <1>12, <1>13, <1>14, RunnerStep

(* One step of a request, on the packet it has or creates.                 *)
LEMMA CallerStep ==
  ASSUME PacketInv, NEW c \in Calls, NEW r \in CallStates, NEW k \in Packets,
         NEW x \in PacketRows,
         call' = [call EXCEPT ![c] = r], packet' = [packet EXCEPT ![k] = x],
         UNCHANGED <<shelved, renderer>>, disturbed' \in BOOLEAN,
         r.packet = k, call[c].packet = k \/ packet[k].status = "ABSENT",
         x.status # "ABSENT", x.status = "READY" => packet[k].status = "READY",
         x.exports = packet[k].exports, x.made = packet[k].made,
         \/ x.job = packet[k].job /\ (r.pc = "enqueue" => packet[k].job = "none")
         \/ packet[k].job = "none" /\ x.job = "waiting" /\ r.pc # "enqueue"
  PROVE  PacketInv'
<1> USE DEF PacketInv
<1>1. /\ packet \in [Packets -> PacketRows] /\ call \in [Calls -> CallStates]
      /\ Null \notin Packets
  BY PacketAssumption DEF PacketTypeOK
<1>2. PacketTypeOK' BY <1>1 DEF PacketTypeOK
<1>3. ASSUME NEW j \in Packets
      PROVE  (j = k => packet'[j] = x) /\ (j # k => packet'[j] = packet[j])
  BY <1>1
<1>4. ASSUME NEW b \in Calls
      PROVE  (b = c => call'[b] = r) /\ (b # c => call'[b] = call[b])
  BY <1>1
<1>5. ReadyHasExport' BY <1>3 DEF ReadyHasExport
<1>6. ASSUME NEW b \in Calls, b # c PROVE call[b].packet # k
  BY <1>1, <1>6 DEF CallOK
<1>7. ASSUME NEW b \in Calls PROVE CallOK(b)'
  <2>1. CASE b = c BY <2>1, <1>1, <1>3, <1>4, <1>6 DEF CallOK
  <2>2. CASE b # c
    <3>1. CallOK(b) /\ call'[b] = call[b] /\ call[b].packet \in Packets \cup {Null}
      BY <2>2, <1>1, <1>4 DEF CallStates
    <3>2. ASSUME NEW a \in Calls \ {b}, call[b].packet # Null PROVE call'[a].packet # call[b].packet
      BY <3>1, <3>2, <2>2, <1>4, <1>6 DEF CallOK
    <3>3. call[b].packet # Null =>
            packet'[call[b].packet] = packet[call[b].packet]
      BY <3>1, <2>2, <1>3, <1>6
    <3> QED BY <3>1, <3>2, <3>3 DEF CallOK
  <2> QED BY <2>1, <2>2
<1>8. ASSUME NEW v \in Renderers PROVE RunOK(v)' BY <1>3 DEF RunOK
<1>9. ASSUME NEW j \in Packets PROVE JobOK(j)'
  <2>1. JobOK(j) /\ (packet'[j].job = "active" => packet[j].job = "active") BY <1>3
  <2>2. /\ packet'[j].status = "ABSENT" => packet'[j].job = "none"
        /\ packet'[j].job # "ended" => packet'[j].made < Attempts
        /\ packet'[j].made <= Attempts
    BY <2>1, <1>3 DEF JobOK
  <2> QED BY <2>1, <2>2 DEF JobOK
<1> QED BY <1>2, <1>5, <1>7, <1>8, <1>9

(* Time, the archive, and a request that begins or ends without a write.   *)
LEMMA NoPacketStep ==
  ASSUME PacketInv, UNCHANGED <<packet, renderer>>,
         shelved' \in BOOLEAN, disturbed' \in BOOLEAN,
         \/ UNCHANGED call
         \/ \E c \in Calls : call' = [call EXCEPT ![c].pc = "done"]
         \/ \E c \in Calls : call[c].pc = "idle" /\ call' = [call EXCEPT ![c].pc = "create"]
  PROVE  PacketInv'
<1> USE DEF PacketInv
<1>1. call \in [Calls -> CallStates] BY DEF PacketTypeOK
<1>2. call' \in [Calls -> CallStates] BY <1>1 DEF CallStates
<1>3. ASSUME NEW b \in Calls
      PROVE  /\ call'[b].packet = call[b].packet
             /\ call'[b].pc \in {call[b].pc, "done", "create"}
  BY <1>1 DEF CallStates
<1>4. PacketTypeOK' BY <1>2 DEF PacketTypeOK
<1>5. ReadyHasExport' BY DEF ReadyHasExport
<1>6. ASSUME NEW b \in Calls PROVE CallOK(b)'
  BY <1>3 DEF CallOK
<1>7. (\A w \in Renderers : RunOK(w)') /\ \A k \in Packets : JobOK(k)' BY DEF RunOK, JobOK
<1> QED BY <1>4, <1>5, <1>6, <1>7

LEMMA CallSteps ==
  ASSUME PacketInv, NEW c \in Calls, Generate(c) \/ CallStep(c) \/ DropCall(c)
  PROVE  PacketInv'
<1>1. /\ packet \in [Packets -> PacketRows] /\ call \in [Calls -> CallStates] /\ CallOK(c)
      /\ shelved \in BOOLEAN /\ disturbed \in BOOLEAN
  BY DEF PacketInv, PacketTypeOK
<1>2. CASE Generate(c) \/ DropCall(c)
  BY <1>1, <1>2, NoPacketStep DEF Generate, DropCall
<1>3. ASSUME CreatePacket(c) PROVE PacketInv'
  <2>1. CASE call' = [call EXCEPT ![c].pc = "done"] /\ UNCHANGED packet
    BY <1>1, <1>3, <2>1, NoPacketStep DEF CreatePacket
  <2>2. CASE ~(call' = [call EXCEPT ![c].pc = "done"] /\ UNCHANGED packet)
    <3>1. PICK k \in Packets :
            /\ packet[k].status = "ABSENT"
            /\ packet' = [packet EXCEPT ![k].status = "GENERATING"]
            /\ call' = [call EXCEPT ![c].pc = "enqueue", ![c].packet = k]
      BY <1>3, <2>2 DEF CreatePacket
    <3>2. packet[k] \in PacketRows /\ call[c] \in CallStates BY <1>1
    <3>3. PICK x \in PacketRows : x = [packet[k] EXCEPT !.status = "GENERATING"]
      BY <3>2 DEF PacketRows
    <3>4. PICK r \in CallStates : r = [call[c] EXCEPT !.pc = "enqueue", !.packet = k]
      BY <3>2 DEF CallStates
    <3>5. packet' = [packet EXCEPT ![k] = x] BY <3>1, <3>3
    <3>6. call' = [call EXCEPT ![c] = r] BY <1>1, <3>1, <3>4
    <3>7. /\ x.status = "GENERATING" /\ x.exports = packet[k].exports
          /\ x.made = packet[k].made /\ x.job = packet[k].job /\ r.pc = "enqueue" /\ r.packet = k
      BY <3>2, <3>3, <3>4 DEF PacketRows, CallStates
    <3>8. packet[k].job = "none" BY <3>1 DEF PacketInv, JobOK
    <3>9. UNCHANGED <<shelved, renderer>> /\ disturbed' \in BOOLEAN
      BY <1>1, <1>3 DEF CreatePacket
    <3>10. /\ x.status # "ABSENT" /\ (x.status = "READY" => packet[k].status = "READY")
           /\ x.job = packet[k].job /\ (r.pc = "enqueue" => packet[k].job = "none")
      BY <3>7, <3>8
    <3>11. x.exports = packet[k].exports /\ x.made = packet[k].made /\ r.packet = k BY <3>7
    <3>12. packet[k].status = "ABSENT" BY <3>1
    <3> QED BY <3>5, <3>6, <3>9, <3>10, <3>11, <3>12, CallerStep
  <2> QED BY <2>1, <2>2
<1>4. ASSUME EnqueuePacket(c) PROVE PacketInv'
  <2>1. PICK k \in Packets : k = call[c].packet
    BY <1>1, <1>4, PacketAssumption DEF EnqueuePacket, CallOK, CallStates
  <2>2. packet[k] \in PacketRows /\ call[c] \in CallStates BY <1>1
  <2>3. packet[k].status # "ABSENT" /\ packet[k].job = "none"
    BY <1>1, <1>4, <2>1, PacketAssumption DEF EnqueuePacket, CallOK
  <2>4. PICK pc \in {"done", "fail"} : call' = [call EXCEPT ![c].pc = pc]
    BY <1>4 DEF EnqueuePacket
  <2>5. PICK r \in CallStates : r = [call[c] EXCEPT !.pc = pc] BY <2>2 DEF CallStates
  <2>6. PICK x \in PacketRows :
          x \in {packet[k], [packet[k] EXCEPT !.job = "waiting"]}
            /\ packet' = [packet EXCEPT ![k] = x]
    <3>1. [packet[k] EXCEPT !.job = "waiting"] \in PacketRows BY <2>2 DEF PacketRows
    <3>2. CASE packet' = packet BY <3>2, <2>2, <1>1
    <3>3. CASE packet' = [packet EXCEPT ![k].job = "waiting"] BY <3>1, <3>3
    <3> QED BY <1>4, <2>1, <3>2, <3>3 DEF EnqueuePacket
  <2>7. call' = [call EXCEPT ![c] = r] BY <1>1, <2>4, <2>5
  <2>8. /\ x.status = packet[k].status /\ x.exports = packet[k].exports
        /\ x.made = packet[k].made /\ x.job \in {packet[k].job, "waiting"}
        /\ r.pc # "enqueue" /\ r.packet = k
    BY <2>1, <2>2, <2>5, <2>6 DEF PacketRows, CallStates
  <2>9. UNCHANGED <<shelved, renderer>> /\ disturbed' \in BOOLEAN
    BY <1>1, <1>4 DEF EnqueuePacket
  <2>10. /\ x.status # "ABSENT" /\ (x.status = "READY" => packet[k].status = "READY")
         /\ \/ x.job = packet[k].job /\ (r.pc = "enqueue" => packet[k].job = "none")
            \/ packet[k].job = "none" /\ x.job = "waiting" /\ r.pc # "enqueue"
    BY <2>3, <2>8
  <2>11. x.exports = packet[k].exports /\ x.made = packet[k].made /\ r.packet = k BY <2>8
  <2>12. packet' = [packet EXCEPT ![k] = x] BY <2>6
  <2>13. call[c].packet = k BY <2>1
  <2> QED BY <2>7, <2>9, <2>10, <2>11, <2>12, <2>13, CallerStep
<1>5. ASSUME RecordEnqueueFailure(c) PROVE PacketInv'
  <2>1. CASE UNCHANGED packet
    BY <1>1, <1>5, <2>1, NoPacketStep DEF RecordEnqueueFailure
  <2>2. CASE ~UNCHANGED packet
    <3>1. PICK k \in Packets : k = call[c].packet
      BY <1>1, <1>5, PacketAssumption DEF RecordEnqueueFailure, CallOK, CallStates
    <3>2. packet[k] \in PacketRows /\ call[c] \in CallStates BY <1>1
    <3>3. PICK x \in PacketRows : x = [packet[k] EXCEPT !.status = "FAILED"]
      BY <3>2 DEF PacketRows
    <3>4. PICK r \in CallStates : r = [call[c] EXCEPT !.pc = "done"] BY <3>2 DEF CallStates
    <3>5. packet' = [packet EXCEPT ![k] = x] BY <1>5, <2>2, <3>1, <3>3 DEF RecordEnqueueFailure
    <3>6. call' = [call EXCEPT ![c] = r] BY <1>5, <3>4 DEF RecordEnqueueFailure
    <3>7. /\ x.status = "FAILED" /\ x.exports = packet[k].exports
          /\ x.made = packet[k].made /\ x.job = packet[k].job /\ r.pc = "done" /\ r.packet = k
      BY <3>1, <3>2, <3>3, <3>4 DEF PacketRows, CallStates
    <3>8. packet[k].status # "ABSENT" /\ UNCHANGED <<shelved, renderer>> /\ disturbed' \in BOOLEAN
      BY <1>1, <1>5, <2>2, <3>1, PacketAssumption DEF RecordEnqueueFailure, CallOK
    <3> QED BY <3>1, <3>5, <3>6, <3>7, <3>8, CallerStep
  <2> QED BY <2>1, <2>2
<1> QED BY <1>2, <1>3, <1>4, <1>5 DEF CallStep

LEMMA TakePacketStep ==
  ASSUME PacketInv, NEW w \in Renderers, TakePacket(w)
  PROVE  PacketInv'
<1>1. /\ packet \in [Packets -> PacketRows] /\ renderer \in [Renderers -> RendererStates]
      /\ renderer[w].pc = "idle" /\ RunOK(w) /\ shelved \in BOOLEAN /\ disturbed \in BOOLEAN
  BY DEF PacketInv, PacketTypeOK, TakePacket
<1>2. PICK k \in Packets :
        /\ packet[k].job = "waiting"
        /\ packet' = [packet EXCEPT ![k].job = "active"]
        /\ renderer' = [renderer EXCEPT ![w] =
             [pc |-> "find", packet |-> k, made |-> packet[k].made, held |-> TRUE]]
  BY DEF TakePacket
<1>3. packet[k] \in PacketRows /\ JobOK(k) BY <1>1 DEF PacketInv
<1>4. PICK x \in PacketRows : x = [packet[k] EXCEPT !.job = "active"] BY <1>3 DEF PacketRows
<1>5. PICK r \in RendererStates :
        r = [pc |-> "find", packet |-> k, made |-> packet[k].made, held |-> TRUE]
  BY <1>3 DEF RendererStates, PacketRows
<1>6. packet' = [packet EXCEPT ![k] = x] /\ renderer' = [renderer EXCEPT ![w] = r]
  BY <1>2, <1>4, <1>5
<1>7. /\ x.status = packet[k].status /\ x.exports = packet[k].exports /\ x.job = "active"
      /\ x.made = packet[k].made
  BY <1>3, <1>4 DEF PacketRows
<1>8. r.pc = "find" /\ r.packet = k /\ r.held /\ r.made = packet[k].made BY <1>5
<1>9. LockMoves(k, x.job, x.made, w, r) BY <1>1, <1>2, <1>7, <1>8 DEF LockMoves, RunOK
<1>10. /\ x.status = "READY" => x.exports > 0
       /\ x.exports >= packet[k].exports
  BY <1>3, <1>7 DEF PacketInv, ReadyHasExport, PacketRows
<1>11. x.status # "ABSENT" /\ packet[k].status # "ABSENT" /\ x.job # "none"
         /\ packet[k].job # "none"
  BY <1>2, <1>3, <1>7 DEF JobOK
<1>12. (x.job # "ended" => x.made < Attempts) /\ x.made <= Attempts
  BY <1>2, <1>3, <1>7 DEF JobOK
<1>13. r.pc # "idle" /\ r.pc # "return" BY <1>8
<1>14. UNCHANGED call /\ shelved' \in BOOLEAN /\ disturbed' \in BOOLEAN BY <1>1 DEF TakePacket
<1> QED BY <1>6, <1>8, <1>9, <1>10, <1>11, <1>12, <1>13, <1>14, RunnerStep

(* A run ends its job, gives it back to be retried, or loses it.           *)
LEMMA LeavingSteps ==
  ASSUME PacketInv, NEW w \in Renderers,
         EndJob(w) \/ RetryJob(w) \/ LosePacketLock(w) \/ CrashRenderer(w)
  PROVE  PacketInv'
<1>1. /\ packet \in [Packets -> PacketRows] /\ renderer \in [Renderers -> RendererStates]
      /\ RunOK(w) /\ shelved \in BOOLEAN /\ disturbed \in BOOLEAN
      /\ renderer[w] \in RendererStates
  BY DEF PacketInv, PacketTypeOK
<1>2. renderer[w].pc # "idle" BY <1>1 DEF EndJob, RetryJob, LosePacketLock, CrashRenderer, RunOK
<1>3. PICK k \in Packets : k = renderer[w].packet BY <1>1, <1>2 DEF RunOK
<1>4. packet[k] \in PacketRows /\ JobOK(k) BY <1>1 DEF PacketInv
<1>5. NoRun \in RendererStates /\ ~NoRun.held /\ NoRun.pc = "idle"
  BY DEF NoRun, RendererStates
<1>6. packet[k].made \in Nat /\ packet[k].made <= Attempts /\ Attempts \in Nat
  BY <1>4, PacketAssumption DEF PacketRows, JobOK
<1>7. renderer[w].held => packet[k].made < Attempts BY <1>1, <1>3, <1>4 DEF RunOK, JobOK
<1>8. ASSUME EndJob(w) \/ CrashRenderer(w) PROVE PacketInv'
  <2>1. PICK job \in {"ended", "stalled"} :
          packet' = IF renderer[w].held THEN [packet EXCEPT ![k].job = job] ELSE packet
    BY <1>3, <1>8 DEF EndJob, CrashRenderer
  <2> DEFINE made == IF renderer[w].held \/ job = "ended" THEN packet[k].made ELSE 0
  <2>2. packet' = GivenUp(w, k, job, made)
    BY <1>1, <1>4, <2>1 DEF PacketRows, GivenUp
  <2>3. made \in Nat /\ made <= Attempts /\ (job # "ended" => made < Attempts)
    BY <1>6, <1>7, PacketAssumption
  <2>4. renderer' = [renderer EXCEPT ![w] = NoRun] BY <1>8 DEF EndJob, CrashRenderer, LeavePacket
  <2>5. UNCHANGED call /\ shelved' \in BOOLEAN /\ disturbed' \in BOOLEAN
    BY <1>1, <1>8 DEF EndJob, CrashRenderer
  <2> HIDE DEF made
  <2> QED BY <1>2, <1>3, <1>5, <2>2, <2>3, <2>4, <2>5, LeavingRun
<1>9. ASSUME RetryJob(w) PROVE PacketInv'
  <2> DEFINE made == IF renderer[w].held THEN packet[k].made + 1 ELSE 0
             job == IF made < Attempts THEN "waiting" ELSE "ended"
  <2>1. packet' = GivenUp(w, k, job, made)
    BY <1>1, <1>3, <1>4, <1>9 DEF RetryJob, PacketRows, GivenUp
  <2>2. /\ made \in Nat /\ made <= Attempts /\ (job # "ended" => made < Attempts)
        /\ job \in {"waiting", "stalled", "ended"}
    BY <1>6, <1>7
  <2>3. renderer' = [renderer EXCEPT ![w] = NoRun] BY <1>9 DEF RetryJob, LeavePacket
  <2>4. UNCHANGED call /\ shelved' \in BOOLEAN /\ disturbed' \in BOOLEAN
    BY <1>1, <1>9 DEF RetryJob
  <2> HIDE DEF made, job
  <2> QED BY <1>2, <1>3, <1>5, <2>1, <2>2, <2>3, <2>4, LeavingRun
<1>10. ASSUME LosePacketLock(w) PROVE PacketInv'
  <2>1. PICK r \in RendererStates : r = [renderer[w] EXCEPT !.held = FALSE]
    BY <1>1 DEF RendererStates
  <2>2. ~r.held /\ r.packet = renderer[w].packet /\ r.pc = renderer[w].pc
    BY <1>1, <2>1 DEF RendererStates
  <2>3. renderer' = [renderer EXCEPT ![w] = r] /\ renderer[w].held
    BY <1>10, <2>1 DEF LosePacketLock
  <2>4. PICK made \in Nat : made = packet[k].made BY <1>6
  <2>5. packet' = GivenUp(w, k, "stalled", made)
    BY <1>1, <1>3, <1>4, <1>10, <2>3, <2>4 DEF LosePacketLock, PacketRows, GivenUp
  <2>6. made < Attempts /\ made <= Attempts BY <1>6, <1>7, <2>3, <2>4
  <2>7. UNCHANGED call /\ shelved' \in BOOLEAN /\ disturbed' \in BOOLEAN
    BY <1>1, <1>10 DEF LosePacketLock
  <2> QED BY <1>2, <1>3, <2>2, <2>3, <2>5, <2>6, <2>7, LeavingRun
<1> QED BY <1>8, <1>9, <1>10

(* generateCasePacket.                                                     *)
LEMMA GeneratingSteps ==
  ASSUME PacketInv, NEW w \in Renderers,
         \/ FindPacket(w) \/ BeginPacket(w) \/ RenderPacket(w) \/ RecordPacket(w)
         \/ RecordPacketFailure(w)
  PROVE  PacketInv'
<1>1. /\ packet \in [Packets -> PacketRows] /\ renderer \in [Renderers -> RendererStates]
      /\ RunOK(w) /\ shelved \in BOOLEAN /\ disturbed \in BOOLEAN
      /\ renderer[w] \in RendererStates /\ renderer[w].pc # "idle"
      /\ shelved' \in BOOLEAN /\ disturbed' \in BOOLEAN /\ UNCHANGED call
  BY DEF PacketInv, PacketTypeOK, FindPacket, BeginPacket, RenderPacket, RecordPacket,
         RecordPacketFailure
<1>2. PICK k \in Packets : k = renderer[w].packet BY <1>1 DEF RunOK
<1>3. packet[k] \in PacketRows /\ packet[k].exports \in Nat BY <1>1 DEF PacketRows
<1>4. ASSUME NEW pc \in {"begin", "render", "record", "fail", "return", "throw"}, To(w, pc),
             UNCHANGED packet, pc = "return" => packet[k].exports > 0
      PROVE  PacketInv'
  BY <1>1, <1>2, <1>4, QuietRun
<1>5. ASSUME NEW pc \in {"render", "fail", "return", "throw"}, To(w, pc),
             NEW status \in {"GENERATING", "FAILED"}, pc # "return",
             packet' = [packet EXCEPT ![k].status = status]
      PROVE  PacketInv'
  <2>1. PICK exports \in Nat : exports = packet[k].exports BY <1>3
  <2>2. packet' = [packet EXCEPT ![k].status = status, ![k].exports = exports]
    BY <1>1, <1>3, <1>5, <2>1 DEF PacketRows
  <2>3. exports >= packet[k].exports BY <2>1
  <2> QED BY <1>1, <1>2, <1>5, <2>2, <2>3, WritingRun
<1>6. ASSUME NEW pc \in {"render", "fail", "return", "throw"}, To(w, pc), packet' = Recorded(k)
      PROVE  PacketInv'
  <2>1. PICK exports \in Nat : exports = packet[k].exports + 1 BY <1>3
  <2>2. packet' = [packet EXCEPT ![k].status = "READY", ![k].exports = exports]
    BY <1>1, <1>3, <1>6, <2>1 DEF PacketRows, Recorded
  <2>3. exports >= packet[k].exports /\ exports > 0 BY <1>3, <2>1
  <2> QED BY <1>1, <1>2, <1>6, <2>2, <2>3, WritingRun
<1>7. CASE FindPacket(w) \/ RenderPacket(w) BY <1>2, <1>4, <1>7 DEF FindPacket, RenderPacket
<1>8. CASE BeginPacket(w) BY <1>2, <1>4, <1>5, <1>8 DEF BeginPacket
<1>9. CASE RecordPacket(w) BY <1>2, <1>4, <1>6, <1>9 DEF RecordPacket
<1>10. CASE RecordPacketFailure(w) BY <1>2, <1>4, <1>5, <1>10 DEF RecordPacketFailure
<1> QED BY <1>7, <1>8, <1>9, <1>10

LEMMA RecoverStalledStep ==
  ASSUME PacketInv, NEW k \in Packets, RecoverStalled(k)
  PROVE  PacketInv'
<1> USE DEF PacketInv
<1>1. packet \in [Packets -> PacketRows] /\ packet[k].job = "stalled"
  BY DEF PacketTypeOK, RecoverStalled
<1>2. packet' \in [Packets -> PacketRows] BY <1>1 DEF RecoverStalled, PacketRows
<1>3. ASSUME NEW j \in Packets
      PROVE  /\ packet'[j].status = packet[j].status /\ packet'[j].exports = packet[j].exports
             /\ packet'[j].made = packet[j].made
             /\ IF j = k THEN packet'[j].job \in {"waiting", "ended"}
                ELSE packet'[j].job = packet[j].job
  BY <1>1 DEF RecoverStalled, PacketRows
<1>4. UNCHANGED <<shelved, call, renderer, disturbed>> BY DEF RecoverStalled
<1>5. PacketTypeOK' BY <1>2, <1>4 DEF PacketTypeOK
<1>6. ReadyHasExport' BY <1>3 DEF ReadyHasExport
<1>7. ASSUME NEW c \in Calls PROVE CallOK(c)'
  <2>1. CallOK(c) /\ call[c].packet \in Packets \cup {Null} BY DEF PacketTypeOK, CallStates
  <2> QED BY <1>1, <1>3, <1>4, <2>1 DEF CallOK
<1>8. ASSUME NEW w \in Renderers PROVE RunOK(w)'
  <2>1. RunOK(w) OBVIOUS
  <2> QED BY <1>1, <1>3, <1>4, <2>1 DEF RunOK
<1>9. ASSUME NEW j \in Packets PROVE JobOK(j)'
  <2>1. JobOK(j) OBVIOUS
  <2> QED BY <1>1, <1>3, <1>4, <2>1 DEF JobOK
<1> QED BY <1>5, <1>6, <1>7, <1>8, <1>9

LEMMA PacketInvNext == PacketInv /\ [PacketNext]_packetVars => PacketInv'
<1> SUFFICES ASSUME PacketInv, [PacketNext]_packetVars PROVE PacketInv' OBVIOUS
<1>1. shelved \in BOOLEAN /\ disturbed \in BOOLEAN BY DEF PacketInv, PacketTypeOK
<1>2. CASE PacketTick \/ ShelveCase BY <1>1, <1>2, NoPacketStep DEF PacketTick, ShelveCase
<1>3. ASSUME NEW c \in Calls, Generate(c) \/ CallStep(c) \/ DropCall(c) PROVE PacketInv'
  BY <1>3, CallSteps
<1>4. ASSUME NEW k \in Packets, RecoverStalled(k) PROVE PacketInv' BY <1>4, RecoverStalledStep
<1>5. ASSUME NEW w \in Renderers, RendererStep(w) \/ LosePacketLock(w) \/ CrashRenderer(w)
      PROVE  PacketInv'
  BY <1>5, TakePacketStep, LeavingSteps, GeneratingSteps DEF RendererStep
<1>6. CASE UNCHANGED packetVars BY <1>1, <1>6, NoPacketStep DEF packetVars
<1> QED BY <1>2, <1>3, <1>4, <1>5, <1>6 DEF PacketNext

(* Whatever runs overlap, stall, crash or lose their lock: a READY packet  *)
(* has a file, at most one run holds a job, and no job is given back more  *)
(* than Attempts times.                                                    *)
THEOREM PacketCorrect == PacketSpec => []PacketInv
<1> QED BY PacketInvInit, PacketInvNext, PTL DEF PacketSpec

-----------------------------------------------------------------------------
(* Demo workspaces.                                                         *)

LEMMA DemoInvInit == DemoInit => DemoInv
<1> SUFFICES ASSUME DemoInit PROVE DemoInv OBVIOUS
<1> USE DEF DemoInit
<1>1. DemoTypeOK
  BY DEF DemoTypeOK, WorkspaceRows, StartStates, CleanupStates, NoStart, NoCleanup, Stamp
<1>2. ~\E w \in Workspaces : ActiveAt(w, clock) BY DEF ActiveAt
<1>3. CapacityHolds
  <2>1. {w \in Workspaces : ActiveAt(w, clock)} = {} BY <1>2
  <2> QED BY <2>1, FS_EmptySet, DemoAssumption DEF CapacityHolds
<1>4. OneWorkspacePerVisitor /\ NothingIsLeftBehind
  BY <1>2 DEF OneWorkspacePerVisitor, NothingIsLeftBehind
<1>5. OwnWorkspace /\ \A q \in Starts : StartOK(q) BY DEF OwnWorkspace, StartOK, NoStart
<1>6. \A w \in Workspaces : WorkspaceOK(w) BY <1>2 DEF WorkspaceOK
<1>7. \A b \in Cleanups : CleanupOK(b) BY DEF CleanupOK, NoCleanup
<1> QED BY <1>1, <1>3, <1>4, <1>5, <1>6, <1>7 DEF DemoInv

(* Fewer workspaces are active than there were.                            *)
LEMMA FewerActive ==
  ASSUME NEW A \in SUBSET Workspaces, NEW B \in SUBSET A
  PROVE  Cardinality(A) \in Nat /\ Cardinality(B) \in Nat /\ Cardinality(B) <= Cardinality(A)
<1>1. IsFiniteSet(A) BY FS_Subset, DemoAssumption
<1> QED BY <1>1, FS_Subset, FS_CardinalityType

(* What a step does to the rows when it creates none: they keep their      *)
(* owners, no other becomes active, and an active one keeps its hash.      *)
RowsOnlyEnd ==
  \A w \in Workspaces :
    /\ workspace'[w].owner = workspace[w].owner
    /\ workspace'[w].status = "ABSENT" <=> workspace[w].status = "ABSENT"
    /\ workspace'[w].visitor \in {workspace[w].visitor, Null}
    /\ workspace'[w].status = "LIVE" => workspace'[w].expiresAt # Null
    /\ ActiveAt(w, clock)' => ActiveAt(w, clock) /\ workspace'[w].visitor = workspace[w].visitor

LEMMA RowsEnd ==
  ASSUME DemoInv, RowsOnlyEnd, created' = created, clock' \in Nat, clock' >= clock
  PROVE  /\ CapacityHolds' /\ OneWorkspacePerVisitor'
         /\ \A w \in Workspaces : WorkspaceOK(w)'
         /\ ActiveNow' \subseteq ActiveNow
         /\ Cardinality(ActiveNow') \in Nat /\ Cardinality(ActiveNow) \in Nat
         /\ Cardinality(ActiveNow') <= Cardinality(ActiveNow)
         /\ \A w \in Workspaces, v \in Visitors : IsOf(w, v)' <=> IsOf(w, v)
<1> USE DEF DemoInv
<1>1. ActiveNow' \subseteq ActiveNow BY DEF ActiveNow, RowsOnlyEnd
<1>2. /\ Cardinality(ActiveNow') \in Nat /\ Cardinality(ActiveNow) \in Nat
      /\ Cardinality(ActiveNow') <= Cardinality(ActiveNow)
  <2>1. ActiveNow \in SUBSET Workspaces BY DEF ActiveNow
  <2> QED BY <1>1, <2>1, FewerActive
<1>3. CapacityHolds' BY <1>2, DemoAssumption DEF CapacityHolds, ActiveNow
<1>4. OneWorkspacePerVisitor' BY DEF OneWorkspacePerVisitor, RowsOnlyEnd
<1>5. ASSUME NEW w \in Workspaces PROVE WorkspaceOK(w)' BY DEF WorkspaceOK, RowsOnlyEnd
<1>6. ASSUME NEW w \in Workspaces, NEW v \in Visitors PROVE IsOf(w, v)' <=> IsOf(w, v)
  BY DEF IsOf, RowsOnlyEnd
<1> QED BY <1>1, <1>2, <1>3, <1>4, <1>5, <1>6

LEMMA RestingStart ==
  ASSUME DemoInv, RowsOnlyEnd, created' = created, clock' \in Nat, clock' >= clock,
         NEW q \in Starts, start'[q] = start[q]
  PROVE  StartOK(q)'
<1> USE DEF DemoInv
<1>1. start[q] \in StartStates /\ StartOK(q) BY DEF DemoTypeOK
<1>2. /\ ActiveNow' \subseteq ActiveNow /\ Cardinality(ActiveNow') <= Cardinality(ActiveNow)
      /\ Cardinality(ActiveNow') \in Nat /\ Cardinality(ActiveNow) \in Nat
  BY RowsEnd
<1>3. ASSUME NEW w \in Workspaces, IsOf(w, start[q].visitor) PROVE IsOf(w, start[q].visitor)'
  BY <1>3 DEF IsOf, RowsOnlyEnd
<1>4. start[q].pc = "commit" => SnapshotHolds(q)'
  <2>1. SUFFICES ASSUME start[q].pc = "commit", start[q].created = created PROVE SnapshotHolds(q)'
    BY DEF SnapshotHolds
  <2>2. /\ Cardinality(ActiveNow) <= start[q].active
        /\ start[q].mine = Null => \A w \in ActiveNow : workspace[w].owner # start[q].visitor
    BY <1>1, <2>1 DEF StartOK, SnapshotHolds
  <2>3. Cardinality(ActiveNow') <= start[q].active BY <1>1, <1>2, <2>2 DEF StartStates
  <2>4. start[q].mine = Null => \A w \in ActiveNow' : workspace'[w].owner # start[q].visitor
    BY <1>2, <2>2 DEF ActiveNow, RowsOnlyEnd
  <2> QED BY <2>3, <2>4 DEF SnapshotHolds
<1>5. start[q].now <= clock' BY <1>1 DEF StartOK, StartStates
<1> QED BY <1>1, <1>3, <1>4, <1>5 DEF StartOK, StartStates

(* Nothing is stored in a workspace that ended as if it were active.       *)
NothingNamed ==
  \A w \in Workspaces :
    ~ActiveAt(w, clock) => workspace'[w].objects \cap {"named"} \subseteq workspace[w].objects

LEMMA RestingCleanup ==
  ASSUME DemoInv, RowsOnlyEnd, NothingNamed, NEW b \in Cleanups, cleanup'[b] = cleanup[b]
  PROVE  CleanupOK(b)'
<1>1. cleanup[b] \in CleanupStates /\ CleanupOK(b) BY DEF DemoInv, DemoTypeOK
<1>2. CASE cleanup[b].pc = "idle" BY <1>2 DEF CleanupOK
<1>3. CASE cleanup[b].pc # "idle"
  <2>1. PICK w \in Workspaces : w = cleanup[b].workspace BY <1>1, <1>3 DEF CleanupOK
  <2>2. ~ActiveAt(w, clock) /\ workspace[w].status # "ABSENT" BY <1>1, <1>3, <2>1 DEF CleanupOK
  <2>3. ~ActiveAt(w, clock)' /\ workspace'[w].status # "ABSENT" BY <2>2 DEF RowsOnlyEnd
  <2>4. workspace'[w].objects \cap {"named"} \subseteq workspace[w].objects
    BY <2>2 DEF NothingNamed
  <2> QED BY <1>1, <2>1, <2>3, <2>4 DEF CleanupOK
<1> QED BY <1>2, <1>3

(* One step that creates no workspace.                                     *)
LEMMA DemoStep ==
  ASSUME DemoInv, RowsOnlyEnd, created' = created, clock' \in Nat, clock' >= clock,
         workspace' \in [Workspaces -> WorkspaceRows], start' \in [Starts -> StartStates],
         cleanup' \in [Cleanups -> CleanupStates],
         \A q \in Starts : start'[q] = start[q] \/ StartOK(q)',
         \A b \in Cleanups : CleanupOK(b)',
         NothingIsLeftBehind'
  PROVE  DemoInv'
<1>1. DemoTypeOK' BY DEF DemoInv, DemoTypeOK
<1>2. CapacityHolds' /\ OneWorkspacePerVisitor' /\ \A w \in Workspaces : WorkspaceOK(w)' BY RowsEnd
<1>3. \A q \in Starts : StartOK(q)' BY RestingStart
<1>4. OwnWorkspace' BY <1>3 DEF OwnWorkspace, StartOK, IsOf
<1> QED BY <1>1, <1>2, <1>3, <1>4 DEF DemoInv

LEMMA SameRowsEnd ==
  ASSUME DemoInv, UNCHANGED workspace, clock' \in Nat, clock' >= clock
  PROVE  RowsOnlyEnd /\ NothingNamed /\ NothingIsLeftBehind'
<1>1. ASSUME NEW w \in Workspaces, ActiveAt(w, clock)' PROVE ActiveAt(w, clock)
  <2>1. workspace[w].status = "LIVE" /\ workspace[w].expiresAt > clock' BY <1>1 DEF ActiveAt
  <2>2. workspace[w].expiresAt \in Stamp BY DEF DemoInv, DemoTypeOK, WorkspaceRows
  <2>3. CASE workspace[w].expiresAt \in Nat BY <2>1, <2>3 DEF ActiveAt, DemoInv
  <2>4. CASE workspace[w].expiresAt = Null
    BY <2>1, <2>4 DEF DemoInv, WorkspaceOK
  <2> QED BY <2>2, <2>3, <2>4 DEF Stamp
<1> QED BY <1>1 DEF WorkspaceOK, RowsOnlyEnd, NothingNamed, NothingIsLeftBehind, DemoInv

(* A step of one request that writes no row, or only ends some.            *)
LEMMA StartStep ==
  ASSUME DemoInv, RowsOnlyEnd, NothingNamed, NothingIsLeftBehind',
         workspace' \in [Workspaces -> WorkspaceRows],
         UNCHANGED <<created, cleanup, clock>>,
         NEW q \in Starts, NEW r \in StartStates, start' = [start EXCEPT ![q] = r],
         StartOK(q)'
  PROVE  DemoInv'
<1>1. /\ start' \in [Starts -> StartStates] /\ cleanup' \in [Cleanups -> CleanupStates]
      /\ clock' \in Nat /\ clock' >= clock
      /\ \A p \in Starts : start'[p] = start[p] \/ StartOK(p)'
  BY DEF DemoInv, DemoTypeOK
<1>2. \A b \in Cleanups : CleanupOK(b)' BY RestingCleanup
<1> QED BY <1>1, <1>2, DemoStep

LEMMA QuietStart ==
  ASSUME DemoInv, UNCHANGED <<workspace, created, cleanup, clock>>,
         NEW q \in Starts, NEW r \in StartStates, start' = [start EXCEPT ![q] = r],
         StartOK(q)'
  PROVE  DemoInv'
<1>1. workspace \in [Workspaces -> WorkspaceRows] /\ clock \in Nat BY DEF DemoInv, DemoTypeOK
<1>2. clock' \in Nat /\ clock' >= clock BY <1>1
<1>3. RowsOnlyEnd /\ NothingNamed /\ NothingIsLeftBehind' BY <1>2, SameRowsEnd
<1>4. workspace' \in [Workspaces -> WorkspaceRows] BY <1>1
<1> QED BY <1>3, <1>4, StartStep

LEMMA BeginStep ==
  ASSUME DemoInv, NEW q \in Starts, StartWorkspace(q) \/ Restart(q)
  PROVE  DemoInv'
<1>1. /\ start \in [Starts -> StartStates] /\ workspace \in [Workspaces -> WorkspaceRows]
      /\ start[q] \in StartStates /\ start[q].pc = "idle" /\ StartOK(q) /\ clock \in Nat
  BY DEF DemoInv, DemoTypeOK, StartWorkspace, Restart, Startable
<1>2. PICK v \in Visitors :
        /\ start' = [start EXCEPT ![q].pc = "find", ![q].visitor = v, ![q].now = clock]
        /\ workspace' \in {workspace, Released(v)}
  BY DEF StartWorkspace, Restart
<1>3. PICK r \in StartStates : r = [start[q] EXCEPT !.pc = "find", !.visitor = v, !.now = clock]
  BY <1>1 DEF StartStates
<1>4. r.pc = "find" /\ r.visitor = v /\ r.now = clock /\ r.result = Null
  BY <1>1, <1>3 DEF StartStates, StartOK
<1>5. start' = [start EXCEPT ![q] = r] BY <1>1, <1>2, <1>3
<1>6. UNCHANGED <<created, cleanup, clock>> BY DEF StartWorkspace, Restart
<1>7. StartOK(q)' BY <1>1, <1>4, <1>5, <1>6 DEF StartOK
<1>8. CASE UNCHANGED workspace
  BY <1>5, <1>6, <1>7, <1>8, QuietStart
<1>9. CASE workspace' = Released(v)
  <2>1. ASSUME NEW w \in Workspaces
        PROVE  /\ workspace'[w] \in WorkspaceRows
               /\ \/ workspace'[w] = workspace[w]
                  \/ /\ workspace'[w].visitor = Null /\ workspace'[w].expiresAt = clock
                     /\ workspace'[w].status = workspace[w].status
                     /\ workspace'[w].objects = workspace[w].objects
                     /\ workspace'[w].owner = workspace[w].owner
    BY <1>1, <1>9 DEF Released, WorkspaceRows, Stamp
  <2>2. workspace' \in [Workspaces -> WorkspaceRows] BY <1>9, <2>1 DEF Released
  <2>3. RowsOnlyEnd
    <3>1. \A w \in Workspaces : WorkspaceOK(w) BY DEF DemoInv
    <3> QED BY <1>1, <1>6, <2>1, <3>1, EnvironmentAssumption DEF RowsOnlyEnd, WorkspaceOK, ActiveAt
  <2>4. NothingNamed BY <2>1 DEF NothingNamed
  <2>5. NothingIsLeftBehind' BY <2>1 DEF NothingIsLeftBehind, DemoInv
  <2> QED BY <1>5, <1>6, <1>7, <2>2, <2>3, <2>4, <2>5, StartStep
<1> QED BY <1>2, <1>8, <1>9

(* A request that ends without a row of its own.                           *)
LEMMA FinishStep ==
  ASSUME DemoInv, NEW q \in Starts, start[q].pc # "idle",
         NEW w \in Workspaces \cup {Null}, Finish(q, w),
         w # Null => IsOf(w, start[q].visitor),
         UNCHANGED <<workspace, created, cleanup, clock>>
  PROVE  DemoInv'
<1>1. /\ start \in [Starts -> StartStates] /\ workspace \in [Workspaces -> WorkspaceRows]
      /\ start[q] \in StartStates /\ StartOK(q) /\ clock \in Nat
  BY DEF DemoInv, DemoTypeOK
<1>2. PICK r \in StartStates : r = [start[q] EXCEPT !.pc = "done", !.result = w]
  BY <1>1 DEF StartStates
<1>3. r.pc = "done" /\ r.result = w /\ r.visitor = start[q].visitor /\ r.now = start[q].now
  BY <1>1, <1>2 DEF StartStates
<1>4. start' = [start EXCEPT ![q] = r] BY <1>2 DEF Finish
<1>5. StartOK(q)' BY <1>1, <1>3, <1>4 DEF StartOK, IsOf
<1> QED BY <1>4, <1>5, QuietStart

(* Who has an active workspace's hash is its owner.                        *)
LEMMA MineIsOwn ==
  ASSUME DemoInv, NEW v \in Visitors, NEW now \in Nat, NEW w \in Mine(v, now)
  PROVE  w \in Workspaces /\ IsOf(w, v)
BY DemoAssumption DEF Mine, IsOf, ActiveAt, DemoInv, WorkspaceOK

LEMMA FindSteps ==
  ASSUME DemoInv, NEW q \in Starts, FindWorkspace(q) \/ FindConcurrent(q)
  PROVE  DemoInv'
<1>1. /\ start \in [Starts -> StartStates] /\ workspace \in [Workspaces -> WorkspaceRows]
      /\ start[q] \in StartStates /\ StartOK(q) /\ clock \in Nat /\ start[q].pc # "idle"
      /\ UNCHANGED <<workspace, created, cleanup, clock>>
  BY DEF DemoInv, DemoTypeOK, FindWorkspace, FindConcurrent
<1>2. start[q].visitor \in Visitors /\ start[q].now \in Nat BY <1>1 DEF StartOK, StartStates
<1>3. ASSUME NEW w \in Mine(start[q].visitor, start[q].now) \cup Mine(start[q].visitor, clock),
             Finish(q, w)
      PROVE  DemoInv'
  <2>1. w \in Workspaces /\ IsOf(w, start[q].visitor) BY <1>1, <1>2, <1>3, MineIsOwn
  <2> QED BY <1>1, <1>3, <2>1, FinishStep
<1>4. ASSUME Finish(q, Null) PROVE DemoInv' BY <1>1, <1>4, FinishStep
<1>5. ASSUME start[q].pc = "find", start' = [start EXCEPT ![q].pc = "read"] PROVE DemoInv'
  <2>1. PICK r \in StartStates : r = [start[q] EXCEPT !.pc = "read"] BY <1>1 DEF StartStates
  <2>2. r.pc = "read" /\ r.visitor = start[q].visitor /\ r.now = start[q].now /\ r.result = Null
    BY <1>1, <1>5, <2>1 DEF StartStates, StartOK
  <2>3. start' = [start EXCEPT ![q] = r] BY <1>5, <2>1
  <2>4. StartOK(q)' BY <1>1, <2>2, <2>3 DEF StartOK
  <2> QED BY <1>1, <2>3, <2>4, QuietStart
<1> QED BY <1>3, <1>4, <1>5 DEF FindWorkspace, FindConcurrent

LEMMA ReadSnapshotStep ==
  ASSUME DemoInv, NEW q \in Starts, ReadSnapshot(q)
  PROVE  DemoInv'
<1>1. /\ start \in [Starts -> StartStates] /\ workspace \in [Workspaces -> WorkspaceRows]
      /\ start[q] \in StartStates /\ StartOK(q) /\ clock \in Nat /\ start[q].pc = "read"
      /\ created \in Nat /\ UNCHANGED <<workspace, created, cleanup, clock>>
  BY DEF DemoInv, DemoTypeOK, ReadSnapshot
<1> DEFINE v == start[q].visitor
           now == start[q].now
           A == {x \in Workspaces : ActiveAt(x, now)}
<1>2. v \in Visitors /\ now \in Nat /\ now <= clock BY <1>1 DEF StartOK, StartStates
<1>3. PICK w \in Workspaces \cup {Null} :
        /\ w = Null => Mine(v, now) = {}
        /\ w # Null => w \in Mine(v, now)
        /\ start' = [start EXCEPT ![q].pc = "commit", ![q].created = created, ![q].mine = w,
                       ![q].active = Cardinality(A)]
  <2>1. PICK w \in (IF Mine(v, now) = {} THEN {Null} ELSE Mine(v, now)) :
          start' = [start EXCEPT ![q].pc = "commit", ![q].created = created, ![q].mine = w,
                      ![q].active = Cardinality(A)]
    BY DEF ReadSnapshot
  <2>2. Mine(v, now) \subseteq Workspaces /\ Null \notin Workspaces BY DemoAssumption DEF Mine
  <2> QED BY <2>1, <2>2
<1>4. ActiveNow \subseteq A
  <2>1. ASSUME NEW x \in Workspaces, ActiveAt(x, clock) PROVE ActiveAt(x, now)
    <3>1. workspace[x].status = "LIVE" /\ workspace[x].expiresAt \in Nat
      BY <1>1, <2>1 DEF ActiveAt, WorkspaceRows, Stamp, DemoInv, WorkspaceOK
    <3> QED BY <1>1, <1>2, <2>1, <3>1 DEF ActiveAt
  <2> QED BY <2>1 DEF ActiveNow
<1>5. Cardinality(A) \in Nat /\ Cardinality(ActiveNow) <= Cardinality(A)
  BY <1>4, FewerActive
<1>6. ASSUME w = Null, NEW x \in ActiveNow PROVE workspace[x].owner # v
  <2>1. x \in A /\ workspace[x].visitor = workspace[x].owner
    BY <1>4, <1>6 DEF ActiveNow, DemoInv, WorkspaceOK
  <2>2. workspace[x].visitor # v BY <1>3, <1>6, <2>1 DEF Mine
  <2> QED BY <2>1, <2>2
<1>7. w # Null => IsOf(w, v) BY <1>1, <1>2, <1>3, MineIsOwn
<1> DEFINE n == Cardinality(A)
<1>8. n \in Nat /\ Cardinality(ActiveNow) <= n BY <1>5
<1>9. start' = [start EXCEPT ![q].pc = "commit", ![q].created = created, ![q].mine = w,
                  ![q].active = n]
  BY <1>3
<1> HIDE DEF n, A
<1>10. PICK r \in StartStates :
         r = [start[q] EXCEPT !.pc = "commit", !.created = created, !.mine = w, !.active = n]
  BY <1>1, <1>8 DEF StartStates
<1>11. /\ r.pc = "commit" /\ r.created = created /\ r.mine = w /\ r.active = n
       /\ r.visitor = v /\ r.now = now /\ r.result = Null
  BY <1>1, <1>10 DEF StartStates, StartOK
<1>12. start' = [start EXCEPT ![q] = r] BY <1>1, <1>9, <1>10
<1>13. start'[q] = r BY <1>1, <1>12
<1>14. ActiveNow' = ActiveNow BY <1>1 DEF ActiveNow, ActiveAt
<1>15. SnapshotHolds(q)' BY <1>1, <1>6, <1>8, <1>11, <1>13, <1>14 DEF SnapshotHolds
<1>16. StartOK(q)' BY <1>1, <1>2, <1>7, <1>11, <1>13, <1>15 DEF StartOK, IsOf
<1> QED BY <1>1, <1>12, <1>16, QuietStart

(* A commit creates the visitor's only active workspace, in a free place:  *)
(* nobody else has committed since its snapshot.                           *)
LEMMA CreateStep ==
  ASSUME DemoInv, NEW q \in Starts, start[q].pc = "commit", start[q].mine = Null,
         start[q].active < Capacity, start[q].created = created,
         NEW w \in Workspaces, workspace[w].status = "ABSENT",
         workspace' = WithNew(q, w), Finish(q, w), created' = created + 1,
         UNCHANGED <<cleanup, clock>>
  PROVE  DemoInv'
<1> USE DEF DemoInv
<1> DEFINE v == start[q].visitor
<1>1. /\ start \in [Starts -> StartStates] /\ workspace \in [Workspaces -> WorkspaceRows]
      /\ cleanup \in [Cleanups -> CleanupStates] /\ created \in Nat
      /\ start[q] \in StartStates /\ StartOK(q) /\ v \in Visitors /\ Null \notin Workspaces
  BY DemoAssumption DEF DemoTypeOK, StartOK
<1>2. start[q].now \in Nat /\ start[q].now <= clock /\ start[q].active \in Nat
  BY <1>1 DEF StartOK, StartStates
<1>3. /\ workspace'[w].status = "LIVE" /\ workspace'[w].visitor = v /\ workspace'[w].owner = v
      /\ workspace'[w].expiresAt \in Nat /\ workspace'[w].objects = {}
      /\ workspace'[w] \in WorkspaceRows
  BY <1>1, <1>2, DemoAssumption DEF WithNew, WorkspaceRows, Stamp
<1>4. ASSUME NEW x \in Workspaces, x # w
      PROVE  /\ workspace'[x] \in WorkspaceRows
             /\ workspace'[x].status = workspace[x].status
             /\ workspace'[x].owner = workspace[x].owner
             /\ workspace'[x].expiresAt = workspace[x].expiresAt
             /\ workspace'[x].objects = workspace[x].objects
             /\ \/ workspace'[x].visitor = workspace[x].visitor
                \/ workspace'[x].visitor = Null /\ ~ActiveAt(x, clock)
  <2>1. CASE workspace'[x] = workspace[x] BY <1>1, <2>1
  <2>2. CASE workspace'[x] # workspace[x]
    <3>1. /\ workspace'[x] = [workspace[x] EXCEPT !.visitor = Null]
          /\ workspace[x].status = "LIVE" /\ workspace[x].expiresAt <= start[q].now
      BY <1>1, <1>4, <2>2 DEF WithNew
    <3>2. workspace[x].expiresAt \in Nat BY <1>1, <3>1 DEF WorkspaceOK, WorkspaceRows, Stamp
    <3>3. ~ActiveAt(x, clock) BY <1>2, <3>1, <3>2 DEF ActiveAt
    <3> QED BY <1>1, <3>1, <3>3 DEF WorkspaceRows
  <2> QED BY <2>1, <2>2
<1>5. PICK r \in StartStates : r = [start[q] EXCEPT !.pc = "done", !.result = w]
  BY <1>1 DEF StartStates
<1>6. start' = [start EXCEPT ![q] = r] BY <1>5 DEF Finish
<1>7. r.pc = "done" /\ r.result = w /\ r.visitor = v /\ r.now = start[q].now
  BY <1>1, <1>5 DEF StartStates
<1>8. DemoTypeOK'
  <2>1. workspace' \in [Workspaces -> WorkspaceRows] BY <1>3, <1>4 DEF WithNew
  <2> QED BY <1>1, <1>6, <2>1 DEF DemoTypeOK
<1>9. ASSUME NEW x \in Workspaces, x # w
      PROVE  /\ ActiveAt(x, clock)' <=> ActiveAt(x, clock)
             /\ \A u \in Visitors : IsOf(x, u)' <=> IsOf(x, u)
  BY <1>4, <1>9 DEF ActiveAt, IsOf
<1>10. SnapshotHolds(q) BY <1>1 DEF StartOK
<1>11. CapacityHolds'
  <2>1. ActiveNow' \in SUBSET (ActiveNow \cup {w}) BY <1>9 DEF ActiveNow
  <2>2. ActiveNow \subseteq Workspaces /\ ActiveNow \cup {w} \subseteq Workspaces
    BY DEF ActiveNow
  <2>3. IsFiniteSet(ActiveNow) BY <2>2, FS_Subset, DemoAssumption
  <2>4. Cardinality(ActiveNow \cup {w}) <= Cardinality(ActiveNow) + 1
    <3>1. w \notin ActiveNow BY DEF ActiveNow, ActiveAt
    <3>2. Cardinality(ActiveNow \cup {w}) = Cardinality(ActiveNow) + 1
      BY <2>3, <3>1, FS_AddElement
    <3> QED BY <2>3, <3>2, FS_CardinalityType
  <2>5. /\ Cardinality(ActiveNow \cup {w}) \in Nat /\ Cardinality(ActiveNow') \in Nat
        /\ Cardinality(ActiveNow') <= Cardinality(ActiveNow \cup {w})
    BY <2>1, <2>2, FewerActive
  <2>6. Cardinality(ActiveNow) \in Nat BY <2>3, FS_CardinalityType
  <2>7. Cardinality(ActiveNow) <= start[q].active BY <1>10 DEF SnapshotHolds
  <2> QED BY <2>4, <2>5, <2>6, <2>7, <1>2, DemoAssumption DEF CapacityHolds, ActiveNow
<1>12. OneWorkspacePerVisitor'
  <2>1. ASSUME NEW x \in Workspaces, NEW y \in Workspaces, ActiveAt(x, clock)', ActiveAt(y, clock)',
               workspace'[x].owner = workspace'[y].owner
        PROVE  x = y
    <3>1. ASSUME NEW z \in Workspaces, z # w, ActiveAt(z, clock)' PROVE workspace'[z].owner # v
      <4>1. z \in ActiveNow BY <1>9, <3>1 DEF ActiveNow
      <4>2. workspace[z].owner # v BY <4>1, <1>10 DEF SnapshotHolds
      <4> QED BY <4>2, <1>4, <3>1
    <3>2. CASE x # w /\ y # w BY <3>2, <2>1, <1>4, <1>9 DEF OneWorkspacePerVisitor
    <3>3. CASE x = w /\ y # w BY <3>1, <3>3, <2>1, <1>3
    <3>4. CASE x # w /\ y = w BY <3>1, <3>4, <2>1, <1>3
    <3> QED BY <3>2, <3>3, <3>4
  <2> QED BY <2>1 DEF OneWorkspacePerVisitor
<1>13. ASSUME NEW x \in Workspaces PROVE WorkspaceOK(x)'
  <2>1. CASE x = w
    <3>1. v # Null /\ workspace'[w].expiresAt # Null
      BY <1>1, <1>3, EnvironmentAssumption, DemoAssumption
    <3> QED BY <2>1, <1>3, <3>1 DEF WorkspaceOK
  <2>2. CASE x # w BY <1>4, <1>9, <2>2 DEF WorkspaceOK
  <2> QED BY <2>1, <2>2
<1>14. ASSUME NEW p \in Starts PROVE StartOK(p)'
  <2>1. CASE p = q
    <3>1. start'[p] = r BY <2>1, <1>1, <1>6
    <3> QED BY <3>1, <1>1, <1>2, <1>3, <1>7 DEF StartOK, IsOf
  <2>2. CASE p # q
    <3>1. start'[p] = start[p] /\ start[p] \in StartStates /\ StartOK(p) BY <2>2, <1>1, <1>6
    <3>2. ASSUME NEW x \in Workspaces, IsOf(x, start[p].visitor)
          PROVE  IsOf(x, start[p].visitor)'
      BY <3>1, <3>2, <1>4 DEF IsOf
    <3>3. start[p].pc = "commit" => start[p].created # created'
      BY <3>1, <1>1 DEF StartOK, StartStates
    <3> QED BY <3>1, <3>2, <3>3, <1>1 DEF StartOK, SnapshotHolds, StartStates
  <2> QED BY <2>1, <2>2
<1>15. ASSUME NEW b \in Cleanups PROVE CleanupOK(b)'
  <2>1. CleanupOK(b) OBVIOUS
  <2> QED BY <2>1, <1>4, <1>9 DEF CleanupOK
<1>16. OwnWorkspace' BY <1>8, <1>14 DEF OwnWorkspace, StartOK, IsOf
<1>17. NothingIsLeftBehind' BY <1>3, <1>4 DEF NothingIsLeftBehind
<1> QED BY <1>8, <1>11, <1>12, <1>13, <1>14, <1>15, <1>16, <1>17

LEMMA CommitWorkspaceStep ==
  ASSUME DemoInv, NEW q \in Starts, CommitWorkspace(q)
  PROVE  DemoInv'
<1>1. /\ start \in [Starts -> StartStates] /\ start[q] \in StartStates /\ StartOK(q)
      /\ start[q].pc = "commit" /\ clock \in Nat
  BY DEF DemoInv, DemoTypeOK, CommitWorkspace
<1>2. CASE ~UNCHANGED workspace
  BY <1>1, <1>2, CreateStep DEF CommitWorkspace, Serializable
<1>3. CASE UNCHANGED <<workspace, created>>
  <2>0. UNCHANGED <<workspace, created, cleanup, clock>> BY <1>3 DEF CommitWorkspace
  <2>1. ASSUME NEW w \in {start[q].mine, Null}, Finish(q, w) PROVE DemoInv'
    <3>1. w \in Workspaces \cup {Null} /\ (w # Null => IsOf(w, start[q].visitor))
      BY <1>1, <2>1 DEF StartOK, StartStates
    <3> QED BY <1>1, <2>0, <2>1, <3>1, FinishStep
  <2>2. ASSUME NEW pc \in {"again", "read"}, NEW attempt \in 0 .. 1,
               start' = [start EXCEPT ![q].pc = pc, ![q].attempt = attempt]
        PROVE  DemoInv'
    <3>1. PICK r \in StartStates : r = [start[q] EXCEPT !.pc = pc, !.attempt = attempt]
      BY <1>1 DEF StartStates
    <3>2. r.pc = pc /\ r.visitor = start[q].visitor /\ r.now = start[q].now /\ r.result = Null
      BY <1>1, <3>1 DEF StartStates, StartOK
    <3>3. start' = [start EXCEPT ![q] = r] BY <2>2, <3>1
    <3>4. StartOK(q)' BY <1>1, <2>0, <3>2, <3>3 DEF StartOK
    <3> QED BY <2>0, <3>3, <3>4, QuietStart
  <2>3. ASSUME start' = [start EXCEPT ![q].pc = "again"] PROVE DemoInv'
    <3>1. PICK attempt \in 0 .. 1 : attempt = start[q].attempt BY <1>1 DEF StartStates
    <3>2. start' = [start EXCEPT ![q].pc = "again", ![q].attempt = attempt]
      BY <1>1, <2>3, <3>1 DEF StartStates
    <3> QED BY <2>2, <3>2
  <2>4. \/ Finish(q, start[q].mine) \/ Finish(q, Null)
        \/ start' = [start EXCEPT ![q].pc = "again"]
        \/ start' = [start EXCEPT ![q].pc = "read", ![q].attempt = 1]
    BY <1>1, <1>3, DemoAssumption DEF CommitWorkspace, DemoInv, DemoTypeOK
  <2> QED BY <2>1, <2>2, <2>3, <2>4
<1>4. UNCHANGED <<workspace, created>> \/ ~UNCHANGED workspace
  <2>1. CASE created' = created + 1 /\ \E w \in Workspaces : workspace[w].status = "ABSENT"
                                           /\ workspace' = WithNew(q, w)
    <3>1. PICK w \in Workspaces : workspace[w].status = "ABSENT" /\ workspace' = WithNew(q, w)
      BY <2>1
    <3>2. workspace'[w].status = "LIVE" BY <3>1 DEF WithNew
    <3> QED BY <3>1, <3>2
  <2> QED BY <2>1 DEF CommitWorkspace
<1> QED BY <1>2, <1>3, <1>4

(* A step that changes one row's objects, or that ends the row.            *)
LEMMA RowChange ==
  ASSUME DemoInv, NEW w \in Workspaces, NEW x \in WorkspaceRows,
         workspace' = [workspace EXCEPT ![w] = x],
         x.owner = workspace[w].owner, x.expiresAt = workspace[w].expiresAt,
         \/ x.status = workspace[w].status /\ x.visitor = workspace[w].visitor
         \/ x.status = "DELETED" /\ x.visitor = Null /\ workspace[w].status # "ABSENT",
         ~ActiveAt(w, clock) => x.objects \cap {"named"} \subseteq workspace[w].objects,
         x.status = "DELETED" => "named" \notin x.objects,
         UNCHANGED <<created, start, clock>>, cleanup' \in [Cleanups -> CleanupStates],
         \A b \in Cleanups : cleanup'[b] = cleanup[b] \/ CleanupOK(b)'
  PROVE  DemoInv'
<1>1. /\ workspace \in [Workspaces -> WorkspaceRows] /\ clock \in Nat
      /\ start \in [Starts -> StartStates]
  BY DEF DemoInv, DemoTypeOK
<1>2. workspace' \in [Workspaces -> WorkspaceRows] BY <1>1
<1>3. ASSUME NEW y \in Workspaces
      PROVE  (y = w => workspace'[y] = x) /\ (y # w => workspace'[y] = workspace[y])
  BY <1>1
<1>4. RowsOnlyEnd
  <2>1. ASSUME NEW y \in Workspaces PROVE WorkspaceOK(y) BY DEF DemoInv
  <2> QED BY <1>3, <2>1 DEF RowsOnlyEnd, ActiveAt, WorkspaceOK
<1>5. NothingNamed BY <1>3 DEF NothingNamed
<1>6. NothingIsLeftBehind' BY <1>3 DEF NothingIsLeftBehind, DemoInv
<1>7. \A b \in Cleanups : CleanupOK(b)' BY <1>4, <1>5, RestingCleanup
<1>8. clock' \in Nat /\ clock' >= clock /\ start' \in [Starts -> StartStates] BY <1>1
<1> QED BY <1>2, <1>4, <1>6, <1>7, <1>8, DemoStep

LEMMA ObjectSteps ==
  ASSUME DemoInv, NEW w \in Workspaces,
         StoreObject(w) \/ StoreAhead(w) \/ NameObject(w) \/ ForgetObject(w)
  PROVE  DemoInv'
<1>1. workspace[w] \in WorkspaceRows /\ cleanup \in [Cleanups -> CleanupStates]
  BY DEF DemoInv, DemoTypeOK
<1>2. PICK o \in SUBSET Objects :
        /\ workspace' = [workspace EXCEPT ![w].objects = o]
        /\ ~ActiveAt(w, clock) => o \cap {"named"} \subseteq workspace[w].objects
        /\ UNCHANGED <<created, start, cleanup, clock>>
  <2>1. workspace[w].objects \in SUBSET Objects BY <1>1 DEF WorkspaceRows
  <2>2. "named" \in Objects /\ "unnamed" \in Objects BY DEF Objects
  <2>3. CASE StoreObject(w) \/ StoreAhead(w)
    <3>1. PICK object \in Objects :
            ActiveAt(w, clock) /\ ObjectsBecome(w, workspace[w].objects \cup {object})
      BY <2>2, <2>3 DEF StoreObject, StoreAhead
    <3>2. PICK o \in SUBSET Objects : o = workspace[w].objects \cup {object} BY <2>1
    <3> QED BY <3>1, <3>2 DEF ObjectsBecome
  <2>4. CASE NameObject(w)
    <3>1. PICK named \in SUBSET {"unnamed"} :
            ObjectsBecome(w, (workspace[w].objects \ named) \cup Named(w))
      BY <2>4 DEF NameObject
    <3>2. PICK o \in SUBSET Objects : o = (workspace[w].objects \ named) \cup Named(w)
      BY <2>1, <2>2 DEF Named
    <3>3. ~ActiveAt(w, clock) => o \cap {"named"} \subseteq workspace[w].objects
      BY <3>2 DEF Named
    <3> QED BY <3>1, <3>2, <3>3 DEF ObjectsBecome
  <2>5. CASE ForgetObject(w)
    <3>1. /\ "named" \in workspace[w].objects
          /\ \E stays \in SUBSET {"unnamed"}, others \in SUBSET {"named"} :
               ObjectsBecome(w, (workspace[w].objects \ {"named"}) \cup stays \cup others)
      BY <2>5 DEF ForgetObject
    <3>2. PICK stays \in SUBSET {"unnamed"}, others \in SUBSET {"named"} :
            ObjectsBecome(w, (workspace[w].objects \ {"named"}) \cup stays \cup others)
      BY <3>1
    <3>3. PICK o \in SUBSET Objects :
            o = (workspace[w].objects \ {"named"}) \cup stays \cup others
      BY <2>1 DEF Objects
    <3>4. ObjectsBecome(w, o) BY <3>2, <3>3
    <3>5. o \cap {"named"} \subseteq workspace[w].objects BY <3>1
    <3> QED BY <3>4, <3>5 DEF ObjectsBecome
  <2> QED BY <2>3, <2>4, <2>5
<1>3. PICK x \in WorkspaceRows : x = [workspace[w] EXCEPT !.objects = o]
  BY <1>1 DEF WorkspaceRows
<1>4. /\ x.owner = workspace[w].owner /\ x.expiresAt = workspace[w].expiresAt
      /\ x.status = workspace[w].status /\ x.visitor = workspace[w].visitor
      /\ x.objects = o
  BY <1>1, <1>3 DEF WorkspaceRows
<1>5. workspace' = [workspace EXCEPT ![w] = x] BY <1>2, <1>3
<1>6. ~ActiveAt(w, clock) => x.objects \cap {"named"} \subseteq workspace[w].objects
  BY <1>2, <1>4
<1>7. x.status = "DELETED" => "named" \notin x.objects
  BY <1>4, <1>6 DEF DemoInv, NothingIsLeftBehind, ActiveAt
<1> QED BY <1>1, <1>2, <1>4, <1>5, <1>6, <1>7, RowChange

(* A batch finds an expired workspace, or leaves the one it is at.         *)
LEMMA BatchStep ==
  ASSUME DemoInv, NEW b \in Cleanups, NEW r \in CleanupStates,
         cleanup' = [cleanup EXCEPT ![b] = r], UNCHANGED <<workspace, created, start, clock>>,
         \/ r.pc = "idle"
         \/ r.pc = "objects" /\ \E w \in Workspaces :
                                   r.workspace = w /\ Expired(w) /\ r.listed = Listed(w)
  PROVE  DemoInv'
<1>1. /\ workspace \in [Workspaces -> WorkspaceRows] /\ clock \in Nat
      /\ start \in [Starts -> StartStates] /\ cleanup \in [Cleanups -> CleanupStates]
  BY DEF DemoInv, DemoTypeOK
<1>2. clock' \in Nat /\ clock' >= clock BY <1>1
<1>3. RowsOnlyEnd /\ NothingNamed /\ NothingIsLeftBehind' BY <1>2, SameRowsEnd
<1>4. CleanupOK(b)'
  <2>1. cleanup'[b] = r BY <1>1
  <2>2. CASE r.pc = "idle" BY <2>1, <2>2 DEF CleanupOK
  <2>3. CASE r.pc = "objects"
    <3>1. PICK w \in Workspaces :
            r.workspace = w /\ Expired(w) /\ r.listed = Listed(w)
      BY <2>3
    <3>2. workspace[w].expiresAt \in Nat
      BY <1>1, <3>1 DEF DemoInv, WorkspaceOK, Expired, WorkspaceRows, Stamp
    <3>3. ~ActiveAt(w, clock)' /\ workspace'[w].status # "ABSENT"
      BY <1>1, <3>1, <3>2 DEF Expired, ActiveAt
    <3>4. workspace'[w].objects \cap {"named"} \subseteq r.listed BY <3>1 DEF Listed
    <3> QED BY <2>1, <2>3, <3>1, <3>3, <3>4 DEF CleanupOK
  <2> QED BY <2>2, <2>3
<1>5. cleanup' \in [Cleanups -> CleanupStates] BY <1>1
<1>6. ASSUME NEW a \in Cleanups PROVE CleanupOK(a)'
  BY <1>1, <1>3, <1>4, RestingCleanup
<1> QED BY <1>1, <1>2, <1>3, <1>5, <1>6, DemoStep

LEMMA SelectOrLeaveStep ==
  ASSUME DemoInv, NEW b \in Cleanups,
         SelectExpired(b) \/ ((DeleteObjects(b) \/ DeleteRow(b) \/ CrashCleanup(b))
                                /\ UNCHANGED workspace /\ cleanup' = [cleanup EXCEPT ![b] = NoCleanup])
  PROVE  DemoInv'
<1>1. workspace \in [Workspaces -> WorkspaceRows] BY DEF DemoInv, DemoTypeOK
<1>2. CASE SelectExpired(b)
  <2>1. PICK w \in Workspaces :
          /\ Expired(w)
          /\ cleanup' = [cleanup EXCEPT ![b] =
               [pc |-> "objects", workspace |-> w, expiresAt |-> workspace[w].expiresAt,
                listed |-> Listed(w)]]
    BY <1>2 DEF SelectExpired
  <2>2. PICK r \in CleanupStates :
          r = [pc |-> "objects", workspace |-> w, expiresAt |-> workspace[w].expiresAt,
               listed |-> Listed(w)]
    BY <1>1 DEF WorkspaceRows, CleanupStates, Listed
  <2>3. r.pc = "objects" /\ r.workspace = w /\ r.listed = Listed(w) BY <2>2
  <2>4. cleanup' = [cleanup EXCEPT ![b] = r] BY <2>1, <2>2
  <2>5. UNCHANGED <<workspace, created, start, clock>> BY <1>2 DEF SelectExpired
  <2> QED BY <2>1, <2>3, <2>4, <2>5, BatchStep
<1>3. CASE ~SelectExpired(b)
  <2>1. PICK r \in CleanupStates : r = NoCleanup BY DEF NoCleanup, CleanupStates, Stamp
  <2>2. r.pc = "idle" /\ cleanup' = [cleanup EXCEPT ![b] = r] BY <1>3, <2>1 DEF NoCleanup
  <2>3. UNCHANGED <<workspace, created, start, clock>>
    BY <1>3 DEF DeleteObjects, DeleteRow, CrashCleanup
  <2> QED BY <2>2, <2>3, BatchStep
<1> QED BY <1>2, <1>3

LEMMA DeleteObjectsStep ==
  ASSUME DemoInv, NEW b \in Cleanups, DeleteObjects(b)
  PROVE  DemoInv'
<1>1. /\ workspace \in [Workspaces -> WorkspaceRows] /\ cleanup[b] \in CleanupStates
      /\ cleanup \in [Cleanups -> CleanupStates] /\ CleanupOK(b) /\ cleanup[b].pc = "objects"
  BY DEF DemoInv, DemoTypeOK, DeleteObjects
<1>2. CASE UNCHANGED workspace /\ cleanup' = [cleanup EXCEPT ![b] = NoCleanup]
  BY <1>2, SelectOrLeaveStep
<1>3. CASE ~(UNCHANGED workspace /\ cleanup' = [cleanup EXCEPT ![b] = NoCleanup])
  <2>1. PICK w \in Workspaces : w = cleanup[b].workspace BY <1>1 DEF CleanupOK
  <2>2. /\ workspace' = [workspace EXCEPT ![w].objects = @ \ cleanup[b].listed]
        /\ cleanup' = [cleanup EXCEPT ![b].pc = "row"]
    BY <1>3, <2>1 DEF DeleteObjects
  <2>3. workspace[w] \in WorkspaceRows BY <1>1
  <2>4. PICK x \in WorkspaceRows : x = [workspace[w] EXCEPT !.objects = @ \ cleanup[b].listed]
    BY <2>3 DEF WorkspaceRows
  <2>5. /\ x.owner = workspace[w].owner /\ x.expiresAt = workspace[w].expiresAt
        /\ x.status = workspace[w].status /\ x.visitor = workspace[w].visitor
        /\ x.objects = workspace[w].objects \ cleanup[b].listed
    BY <2>3, <2>4 DEF WorkspaceRows
  <2>6. workspace' = [workspace EXCEPT ![w] = x] BY <2>2, <2>4
  <2>7. "named" \notin x.objects BY <1>1, <2>1, <2>5 DEF CleanupOK
  <2>8. PICK r \in CleanupStates : r = [cleanup[b] EXCEPT !.pc = "row"]
    BY <1>1 DEF CleanupStates
  <2>9. cleanup' = [cleanup EXCEPT ![b] = r] /\ r.pc = "row" /\ r.workspace = w
    BY <1>1, <2>1, <2>2, <2>8 DEF CleanupStates
  <2>10. UNCHANGED <<created, start, clock>> BY DEF DeleteObjects
  <2>11. CleanupOK(b)'
    <3>1. cleanup'[b] = r /\ workspace'[w] = x BY <1>1, <2>6, <2>9
    <3>2. x.status # "ABSENT" /\ ~ActiveAt(w, clock)'
      BY <1>1, <2>1, <2>5, <2>10, <3>1 DEF CleanupOK, ActiveAt
    <3> QED BY <2>7, <2>9, <3>1, <3>2 DEF CleanupOK
  <2>12. cleanup' \in [Cleanups -> CleanupStates] BY <1>1, <2>9
  <2>13. \A a \in Cleanups : cleanup'[a] = cleanup[a] \/ CleanupOK(a)' BY <1>1, <2>9, <2>11
  <2>14. x.objects \cap {"named"} \subseteq workspace[w].objects BY <2>5
  <2> QED BY <2>5, <2>6, <2>7, <2>10, <2>12, <2>13, <2>14, RowChange
<1> QED BY <1>2, <1>3

LEMMA DeleteRowStep ==
  ASSUME DemoInv, NEW b \in Cleanups, DeleteRow(b)
  PROVE  DemoInv'
<1>1. /\ workspace \in [Workspaces -> WorkspaceRows] /\ cleanup[b] \in CleanupStates
      /\ cleanup \in [Cleanups -> CleanupStates] /\ CleanupOK(b) /\ cleanup[b].pc = "row"
      /\ cleanup' = [cleanup EXCEPT ![b] = NoCleanup]
  BY DEF DemoInv, DemoTypeOK, DeleteRow
<1>2. CASE UNCHANGED workspace BY <1>1, <1>2, SelectOrLeaveStep
<1>3. CASE ~UNCHANGED workspace
  <2>1. PICK w \in Workspaces : w = cleanup[b].workspace BY <1>1 DEF CleanupOK
  <2>2. workspace' = [workspace EXCEPT ![w].status = "DELETED", ![w].visitor = Null]
    BY <1>3, <2>1 DEF DeleteRow
  <2>3. workspace[w] \in WorkspaceRows BY <1>1
  <2>4. PICK x \in WorkspaceRows : x = [workspace[w] EXCEPT !.status = "DELETED", !.visitor = Null]
    BY <2>3 DEF WorkspaceRows
  <2>5. /\ x.owner = workspace[w].owner /\ x.expiresAt = workspace[w].expiresAt
        /\ x.status = "DELETED" /\ x.visitor = Null /\ x.objects = workspace[w].objects
    BY <2>3, <2>4 DEF WorkspaceRows
  <2>6. workspace' = [workspace EXCEPT ![w] = x] BY <1>1, <2>2, <2>4
  <2>7. "named" \notin x.objects /\ workspace[w].status # "ABSENT"
    BY <1>1, <2>1, <2>5 DEF CleanupOK
  <2>8. UNCHANGED <<created, start, clock>> BY DEF DeleteRow
  <2>9. NoCleanup \in CleanupStates BY DEF NoCleanup, CleanupStates, Stamp
  <2>10. cleanup' \in [Cleanups -> CleanupStates] BY <1>1, <2>9
  <2>11. CleanupOK(b)'
    <3>1. cleanup'[b].pc = "idle" BY <1>1 DEF NoCleanup
    <3> QED BY <3>1 DEF CleanupOK
  <2>12. \A a \in Cleanups : cleanup'[a] = cleanup[a] \/ CleanupOK(a)' BY <1>1, <2>11
  <2>13. x.objects \cap {"named"} \subseteq workspace[w].objects BY <2>5
  <2> QED BY <2>5, <2>6, <2>7, <2>8, <2>10, <2>12, <2>13, RowChange
<1> QED BY <1>2, <1>3

LEMMA DemoInvNext == DemoInv /\ [DemoNext]_demoVars => DemoInv'
<1> SUFFICES ASSUME DemoInv, [DemoNext]_demoVars PROVE DemoInv' OBVIOUS
<1>1. ASSUME UNCHANGED <<workspace, created, start, cleanup>>, clock' \in Nat, clock' >= clock
      PROVE  DemoInv'
  <2>1. /\ workspace' \in [Workspaces -> WorkspaceRows] /\ start' \in [Starts -> StartStates]
        /\ cleanup' \in [Cleanups -> CleanupStates]
    BY <1>1 DEF DemoInv, DemoTypeOK
  <2>2. RowsOnlyEnd /\ NothingNamed /\ NothingIsLeftBehind' BY <1>1, SameRowsEnd
  <2>3. \A b \in Cleanups : CleanupOK(b)' BY <1>1, <2>2, RestingCleanup
  <2> QED BY <1>1, <2>1, <2>2, <2>3, DemoStep
<1>2. clock \in Nat BY DEF DemoInv
<1>3. CASE DemoTick \/ UNCHANGED demoVars
  BY <1>1, <1>2, <1>3 DEF DemoTick, ClockTick, demoVars
<1>4. ASSUME NEW q \in Starts,
             \/ StartWorkspace(q) \/ Restart(q) \/ FindWorkspace(q) \/ ReadSnapshot(q)
             \/ CommitWorkspace(q) \/ FindConcurrent(q)
      PROVE  DemoInv'
  BY <1>4, BeginStep, FindSteps, ReadSnapshotStep, CommitWorkspaceStep
<1>5. ASSUME NEW w \in Workspaces,
             StoreObject(w) \/ StoreAhead(w) \/ NameObject(w) \/ ForgetObject(w)
      PROVE  DemoInv'
  BY <1>5, ObjectSteps
<1>6. ASSUME NEW b \in Cleanups, CleanupStep(b) PROVE DemoInv'
  BY <1>6, SelectOrLeaveStep, DeleteObjectsStep, DeleteRowStep DEF CleanupStep
<1>7. ASSUME NEW b \in Cleanups, CrashCleanup(b) PROVE DemoInv'
  BY <1>7, SelectOrLeaveStep DEF CrashCleanup
<1> QED BY <1>3, <1>4, <1>5, <1>6, <1>7 DEF DemoNext

(* However many visits, resets and batches run at once: the capacity       *)
(* holds, a visitor has one workspace and is given its own, and no deleted *)
(* one leaves behind an object that its rows named.                        *)
THEOREM DemoCorrect == DemoSpec => []DemoInv
<1> QED BY DemoInvInit, DemoInvNext, PTL DEF DemoSpec
===============================================================================
