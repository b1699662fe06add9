------------------------------ MODULE CaseProgress ------------------------------
(***************************************************************************)
(* What moves one case forward: appeal rounds and their updates, the       *)
(* checklist that is analysed again whenever evidence is processed or      *)
(* deleted, an item is ticked or somebody asks, and Case.status, which all *)
(* of them write.  Every request reads first and writes later; what other  *)
(* transactions commit in between is not seen.                             *)
(***************************************************************************)
EXTENDS Environment, FiniteSets

CONSTANTS
  Items, Evidence,  \* checklist items, documents of the case
  Supports,         \* Supports[e]: the items document e is evidence of
  Optional,         \* the items whose requirement is optional
  Explanation,      \* the items a summary of the case completes
  Edits,            \* requests that change the case
  Outcomes,         \* outcomes of a round that are told apart
  MaxRounds         \* bound: appeal rounds

ASSUME ProgressAssumption ==
  /\ Supports \in [Evidence -> SUBSET Items]
  /\ Optional \subseteq Items /\ Explanation \subseteq Items
  /\ Outcomes \subseteq {"SUBMITTED", "ACKNOWLEDGED", "ACTION_REQUIRED", "APPROVED", "DENIED",
                         "CLOSED"}
  /\ "SUBMITTED" \in Outcomes /\ MaxRounds \in Nat
  /\ Null \notin Items \cup Outcomes

VARIABLES
  appeal,     \* Case: status, archived, summarized
  ready,      \* documents that are PROCESSED or NEEDS_REVIEW
  deleted,    \* documents that are deleted
  checklist,  \* checklist[i]: CaseChecklistItem: status, ticked (manuallyCompletedAt)
  matches,    \* CaseRequirementMatch: [item, document, analysis]
  round,      \* round[n]: the status of CaseSubmission n, or Null
  edit,       \* edit[q]: a request, with what it read
  stale,      \* history: something was written from what was no longer so
  moved       \* history: the owner or a packet moved the case since its last outcome

progressVars ==
  <<appeal, ready, deleted, checklist, matches, round, edit, stale, moved, clock>>

Ongoing == {"COLLECTING_EVIDENCE", "NEEDS_MORE_EVIDENCE", "READY_FOR_REVIEW"}
CaseStatuses == Ongoing \cup {"PACKET_GENERATED", "SUBMITTED", "RESOLVED", "ARCHIVED"}
Rounds == 1..MaxRounds

Matches == [item : Items, document : Evidence, analysis : Edits]

(* What a request reads.                                                    *)
Views == [status : CaseStatuses, summarized : BOOLEAN, ready : SUBSET Evidence,
          ticked : SUBSET Items]

EditStates ==
  [pc : {"idle", "submit", "latest", "update", "read", "clear", "write", "done"},
   round : 0..MaxRounds, latest : 0..MaxRounds,
   outcome : Outcomes \cup {Null}, tick : Items \cup {Null},
   completed : BOOLEAN, view : Views \cup {Null}, seen : SUBSET Matches]

ProgressTypeOK ==
  /\ appeal \in [status : CaseStatuses, archived : BOOLEAN, summarized : BOOLEAN]
  /\ ready \subseteq Evidence /\ deleted \subseteq Evidence
  /\ checklist \in [Items -> [status : {"MISSING", "OPTIONAL", "FOUND", "COMPLETE"},
                              ticked : BOOLEAN]]
  /\ matches \subseteq Matches
  /\ round \in [Rounds -> Outcomes \cup {Null}]
  /\ edit \in [Edits -> EditStates]
  /\ stale \in BOOLEAN /\ moved \in BOOLEAN

NoEdit == [pc |-> "idle", round |-> 0, latest |-> 0, outcome |-> Null, tick |-> Null,
           completed |-> FALSE, view |-> Null, seen |-> {}]

ProgressInit ==
  /\ appeal = [status |-> "COLLECTING_EVIDENCE", archived |-> FALSE, summarized |-> FALSE]
  /\ ready = {} /\ deleted = {} /\ matches = {}
  /\ checklist = [i \in Items |->
       [status |-> IF i \in Optional THEN "OPTIONAL" ELSE "MISSING", ticked |-> FALSE]]
  /\ round = [n \in Rounds |-> Null]
  /\ edit = [q \in Edits |-> NoEdit]
  /\ stale = FALSE /\ moved = FALSE
  /\ clock = 0

Recorded == {n \in Rounds : round[n] # Null}
LatestRound == Cardinality(Recorded)
Ticked == {i \in Items : checklist[i].ticked}

View == [status |-> appeal.status, summarized |-> appeal.summarized, ready |-> ready,
         ticked |-> Ticked]

Idle(q) == edit[q].pc = "idle"
At(q, pc) == edit[q].pc = pc
Send(q, request) == Idle(q) /\ ~appeal.archived /\ edit' = [edit EXCEPT ![q] = request]
Finish(q) == edit' = [edit EXCEPT ![q] = [NoEdit EXCEPT !.pc = "done"]]

-----------------------------------------------------------------------------
(* Appeal rounds: CaseSubmissionsService.                                   *)

(* create: the transaction reads the latest round.                          *)
StartRound(q) ==
  /\ LatestRound < MaxRounds
  /\ Send(q, [NoEdit EXCEPT !.pc = "submit", !.round = LatestRound + 1])
  /\ UNCHANGED <<appeal, ready, deleted, checklist, matches, round, stale, moved, clock>>

(* @@unique([caseId, round]): the second of two equal rounds is rolled back.*)
SubmitRound(q) ==
  /\ At(q, "submit")
  /\ LET n == edit[q].round
     IN \/ /\ round[n] = Null
           /\ round' = [round EXCEPT ![n] = "SUBMITTED"]
           /\ appeal' = [appeal EXCEPT !.status = "SUBMITTED"]
           /\ moved' = FALSE /\ stale' = (stale \/ appeal.archived)
        \/ /\ round[n] # Null \/ Faulty("database")
           /\ UNCHANGED <<appeal, round, moved, stale>>
  /\ Finish(q)
  /\ UNCHANGED <<ready, deleted, checklist, matches, clock>>

(* addUpdate: the round is found; a note has no outcome.                    *)
AddUpdate(q) ==
  /\ \E n \in Recorded, outcome \in Outcomes \cup {Null} :
       Send(q, [NoEdit EXCEPT !.pc = "latest", !.round = n, !.outcome = outcome])
  /\ UNCHANGED <<appeal, ready, deleted, checklist, matches, round, stale, moved, clock>>

(* The transaction reads which round is the latest.                         *)
ReadLatestRound(q) ==
  /\ At(q, "latest")
  /\ edit' = [edit EXCEPT ![q].pc = "update", ![q].latest = LatestRound]
  /\ UNCHANGED <<appeal, ready, deleted, checklist, matches, round, stale, moved, clock>>

(* getCaseStatusForSubmission.                                              *)
CaseStatusFor(outcome) ==
  CASE outcome \in {"APPROVED", "CLOSED"} -> "RESOLVED"
    [] outcome = "ACTION_REQUIRED" -> "NEEDS_MORE_EVIDENCE"
    [] outcome = "DENIED" -> "READY_FOR_REVIEW"
    [] OTHER -> "SUBMITTED"

(* Mutation: an update of any round moves the case.                         *)
MovesCaseAlways(n, outcome, latest) == outcome # Null

MovesCase(n, outcome, latest) == outcome # Null /\ n = latest

CommitUpdate(q) ==
  /\ At(q, "update")
  /\ LET n == edit[q].round
         outcome == edit[q].outcome
         latest == edit[q].latest
     IN \/ /\ round' = [round EXCEPT ![n] = IF outcome = Null THEN @ ELSE outcome]
           /\ IF MovesCase(n, outcome, latest)
                THEN appeal' = [appeal EXCEPT !.status = CaseStatusFor(outcome)] /\ moved' = FALSE
                ELSE UNCHANGED <<appeal, moved>>
           /\ stale' = (stale \/ appeal.archived \/ latest # LatestRound)
        \/ Faulty("database") /\ UNCHANGED <<appeal, round, moved, stale>>
  /\ Finish(q)
  /\ UNCHANGED <<ready, deleted, checklist, matches, clock>>

-----------------------------------------------------------------------------
(* The checklist: analyzeCaseChecklistTransaction.                          *)

Analysis == [NoEdit EXCEPT !.pc = "read"]

(* POST checklist/analyze.                                                  *)
Analyze(q) ==
  /\ Send(q, Analysis)
  /\ UNCHANGED <<appeal, ready, deleted, checklist, matches, round, stale, moved, clock>>

(* The worker has processed a document and goes on to the analysis.         *)
ProcessEvidence(q, e) ==
  /\ Idle(q) /\ e \notin ready \cup deleted
  /\ ready' = ready \cup {e}
  /\ edit' = [edit EXCEPT ![q] = Analysis]
  /\ UNCHANGED <<appeal, deleted, checklist, matches, round, stale, moved, clock>>

(* A document that is processed again is analysed when that has ended.      *)
ReprocessEvidence(e) ==
  /\ e \in ready /\ ~appeal.archived
  /\ ready' = ready \ {e}
  /\ UNCHANGED <<appeal, deleted, checklist, matches, round, edit, stale, moved, clock>>

(* A deleted document takes its matches along; then the analysis runs.      *)
DeleteEvidence(q, e) ==
  /\ e \notin deleted
  /\ ready' = ready \ {e} /\ deleted' = deleted \cup {e}
  /\ matches' = {m \in matches : m.document # e}
  /\ Send(q, Analysis)
  /\ UNCHANGED <<appeal, checklist, round, stale, moved, clock>>

Locked(q) == \E p \in Edits \ {q} : edit[p].tick # Null

(* CaseChecklistService.update: the item is ticked or reopened and analysed *)
(* in one transaction.  Two that overlap lock each other's items: one waits *)
(* or is rolled back.                                                       *)
TickItem(q, i, completed) ==
  /\ ~Locked(q)
  /\ Send(q, [Analysis EXCEPT !.tick = i, !.completed = completed])
  /\ UNCHANGED <<appeal, ready, deleted, checklist, matches, round, stale, moved, clock>>

(* A transaction sees its own tick.  An archived case is not analysed.      *)
ReadCase(q) ==
  /\ At(q, "read")
  /\ LET me == edit[q]
         ticked == CASE me.tick = Null -> Ticked
                     [] me.tick # Null /\ me.completed -> Ticked \cup {me.tick}
                     [] OTHER -> Ticked \ {me.tick}
     IN IF appeal.archived THEN Finish(q)
        ELSE edit' = [edit EXCEPT ![q].pc = "clear", ![q].view = [View EXCEPT !.ticked = ticked]]
  /\ UNCHANGED <<appeal, ready, deleted, checklist, matches, round, stale, moved, clock>>

(* deleteMany removes the matches that are committed by now.                *)
ClearMatches(q) ==
  /\ At(q, "clear")
  /\ edit' = [edit EXCEPT ![q].pc = "write", ![q].seen = matches]
  /\ UNCHANGED <<appeal, ready, deleted, checklist, matches, round, stale, moved, clock>>

Supporting(view, i) == {e \in view.ready : i \in Supports[e]}

(* Mutation: a manual completion lasts until the next analysis.             *)
ItemStatusUnticked(view, i) ==
  IF view.summarized /\ i \in Explanation THEN "COMPLETE"
  ELSE IF Supporting(view, i) # {} THEN "FOUND"
  ELSE IF i \in Optional THEN "OPTIONAL" ELSE "MISSING"

(* analyzeChecklistEvidence.                                                *)
ItemStatus(view, i) ==
  IF i \in view.ticked \/ (view.summarized /\ i \in Explanation) THEN "COMPLETE"
  ELSE IF Supporting(view, i) # {} THEN "FOUND"
  ELSE IF i \in Optional THEN "OPTIONAL" ELSE "MISSING"

(* The document an item is matched to is the one of most confidence.        *)
NewMatches(view, analysis) ==
  {[item |-> i, document |-> CHOOSE e \in Supporting(view, i) : TRUE, analysis |-> analysis]
     : i \in {j \in Items : Supporting(view, j) # {}}}

(* getAnalyzedCaseStatus.                                                   *)
AnalyzedStatus(view) ==
  IF view.status \notin Ongoing THEN view.status
  ELSE IF \E i \in Items : ItemStatus(view, i) = "MISSING" THEN "NEEDS_MORE_EVIDENCE"
       ELSE "READY_FOR_REVIEW"

Rewritten(me) ==
  [i \in Items |-> [status |-> ItemStatus(me.view, i),
                    ticked |-> IF i = me.tick THEN me.completed ELSE checklist[i].ticked]]

(* Mutation: the matches are cleared before the analysis' transaction, and  *)
(* stay cleared when it is rolled back.                                     *)
WriteAnalysisInParts(q) ==
  /\ At(q, "write") /\ ~Locked(q)
  /\ LET me == edit[q]
         found == NewMatches(me.view, q)
         kept == \A m \in found : m.document \notin deleted
     IN /\ matches' = (matches \ me.seen) \cup (IF kept THEN found ELSE {})
        /\ checklist' = IF kept THEN Rewritten(me) ELSE checklist
        /\ appeal' = [appeal EXCEPT !.status = IF kept THEN AnalyzedStatus(me.view) ELSE @]
  /\ stale' = TRUE
  /\ Finish(q)
  /\ UNCHANGED <<ready, deleted, round, moved, clock>>

(* Everything is written together, Case.status too, the tick with it.  A    *)
(* match of a document that is gone breaks a foreign key: nothing is.       *)
WriteAnalysis(q) ==
  /\ At(q, "write") /\ ~Locked(q)
  /\ LET me == edit[q]
         found == NewMatches(me.view, q)
         now == [View EXCEPT !.ticked = IF me.tick = Null THEN @ ELSE me.view.ticked]
     IN \/ /\ \A m \in found : m.document \notin deleted
           /\ matches' = (matches \ me.seen) \cup found
           /\ checklist' = Rewritten(me)
           /\ appeal' = [appeal EXCEPT !.status = AnalyzedStatus(me.view)]
           /\ stale' = (stale \/ me.view # now \/ appeal.archived)
        \/ /\ (\E m \in found : m.document \in deleted) \/ Faulty("analysis")
           /\ UNCHANGED <<matches, checklist, appeal, stale>>
  /\ Finish(q)
  /\ UNCHANGED <<ready, deleted, round, moved, clock>>

-----------------------------------------------------------------------------
(* CaseRecordsService.update and archive, the summary and the packet.       *)

(* The owner may set any status, and a packet sets PACKET_GENERATED.         *)
EditCase(status) ==
  /\ ~appeal.archived
  /\ appeal' = [appeal EXCEPT !.status = status] /\ moved' = TRUE
  /\ UNCHANGED <<ready, deleted, checklist, matches, round, edit, stale, clock>>

(* generateSummary writes Case.summary and analyses nothing.                *)
SummarizeCase ==
  /\ ~appeal.archived
  /\ appeal' = [appeal EXCEPT !.summarized = TRUE]
  /\ UNCHANGED <<ready, deleted, checklist, matches, round, edit, stale, moved, clock>>

ArchiveAppeal ==
  /\ ~appeal.archived
  /\ appeal' = [appeal EXCEPT !.archived = TRUE, !.status = "ARCHIVED"] /\ moved' = TRUE
  /\ UNCHANGED <<ready, deleted, checklist, matches, round, edit, stale, clock>>

EditStep(q) ==
  SubmitRound(q) \/ ReadLatestRound(q) \/ CommitUpdate(q)
    \/ ReadCase(q) \/ ClearMatches(q) \/ WriteAnalysis(q)

ProgressNext ==
  \/ \E q \in Edits :
       \/ StartRound(q) \/ AddUpdate(q) \/ Analyze(q) \/ EditStep(q)
       \/ \E e \in Evidence : ProcessEvidence(q, e) \/ DeleteEvidence(q, e)
       \/ \E i \in Items, completed \in BOOLEAN : TickItem(q, i, completed)
  \/ \E e \in Evidence : ReprocessEvidence(e)
  \/ EditCase("PACKET_GENERATED")
  \/ SummarizeCase \/ ArchiveAppeal

ProgressSpec == ProgressInit /\ [][ProgressNext]_progressVars

-----------------------------------------------------------------------------
(* Properties.                                                              *)

(* No analysis is owed or under way.                                        *)
Settled == \A q \in Edits : edit[q].pc \notin {"read", "clear", "write"}

(* An item that is FOUND can show its evidence, however analyses overlap    *)
(* and whichever of them is rolled back: only the analysis that a deletion  *)
(* still owes, or an archived case, leaves one without.                     *)
FoundItemHasMatch ==
  \A i \in Items :
    checklist[i].status = "FOUND" =>
      \/ \E m \in matches : m.item = i
      \/ appeal.archived \/ ~Settled

(* docs/api-map.md:119: once every analysis has ended, processed evidence   *)
(* shows in the checklist and manual completions are stable, unless an      *)
(* analysis wrote from what was no longer so.                               *)
ChecklistIsCurrent ==
  Settled /\ ~stale /\ ~appeal.archived =>
    \A i \in Items :
      /\ i \in Ticked => checklist[i].status = "COMPLETE"
      /\ (\E e \in ready : i \in Supports[e]) => checklist[i].status \in {"FOUND", "COMPLETE"}

FollowsOutcome ==
  LatestRound > 0 /\ ~moved =>
    LET status == CaseStatusFor(round[LatestRound])
    IN IF status \in Ongoing THEN appeal.status \in Ongoing ELSE appeal.status = status

(* The case stands where the last round's outcome put it, whatever updates  *)
(* of earlier rounds and analyses come later, unless one of them wrote from *)
(* what was no longer so (addUpdate, getAnalyzedCaseStatus).                *)
LatestOutcomeStands == ~stale => FollowsOutcome

(* What the requests under way hold: an analysis that still has to read,   *)
(* or has read all that is ready and nothing that is deleted since, will   *)
(* bring the checklist up to date.                                         *)
Fresh(q) ==
  \/ edit[q].pc = "read"
  \/ /\ edit[q].pc \in {"clear", "write"}
     /\ ready \subseteq edit[q].view.ready /\ edit[q].view.ready \cap deleted = {}

ChecklistShows ==
  \A i \in Items :
    /\ checklist[i].status = "FOUND" => \E m \in matches : m.item = i
    /\ ~stale /\ (\E e \in ready : i \in Supports[e]) => checklist[i].status \in {"FOUND", "COMPLETE"}

ChecklistIsOwed == appeal.archived \/ ChecklistShows \/ \E q \in Edits : Fresh(q)

TicksStand == ~stale => \A i \in Ticked : checklist[i].status = "COMPLETE"

(* n: the rounds recorded, ticked: the items that are.                     *)
EditOK(r, n, ticked) ==
  /\ r.pc = "submit" => r.round \in 1..(n + 1)
  /\ r.pc \in {"latest", "update"} => r.round \in 1..n
  /\ r.pc \in {"clear", "write"} =>
       /\ r.view \in Views
       /\ r.tick # Null =>
            r.view.ticked = IF r.completed THEN ticked \cup {r.tick} ELSE ticked \ {r.tick}

EditsOK ==
  \A q \in Edits : EditOK(edit[q], LatestRound, Ticked) /\ (edit[q].tick # Null => ~Locked(q))

RecordsAgree == Recorded = 1..LatestRound /\ ready \cap deleted = {}

(* A ticked item loses COMPLETE only to an analysis that had read the case  *)
(* before the item was ticked.                                              *)
TicksAreKept ==
  \A i \in Items :
    checklist'[i].ticked /\ checklist'[i].status # "COMPLETE" =>
      /\ checklist[i].ticked
      /\ \/ checklist[i].status # "COMPLETE"
         \/ \E q \in Edits :
              At(q, "write") /\ At(q, "done")' /\ i \notin edit[q].view.ticked

(* The case leaves the status that its last round's outcome gave it only by *)
(* an update that had read another round as the latest, or an analysis that *)
(* had read another status.                                                 *)
OutcomeIsKept ==
  FollowsOutcome /\ ~FollowsOutcome' =>
    \E q \in Edits :
      /\ At(q, "done")'
      /\ \/ At(q, "update") /\ edit[q].latest # LatestRound
         \/ At(q, "write") /\ edit[q].view.status # appeal.status

(* docs/api-map.md:119, step by step and whatever was written before: only  *)
(* a write from a read that has been overtaken undoes a manual completion   *)
(* or takes the case from where its last outcome put it (addUpdate,         *)
(* analyzeChecklistEvidence, getAnalyzedCaseStatus).                        *)
OnlyLateWritesUndo == [][TicksAreKept /\ OutcomeIsKept]_progressVars

(* The checklist says what its evidence says, and the case stands where its *)
(* last outcome put it, whatever analyses, ticks, documents, deletions and  *)
(* rounds overlapped.                                                       *)
ProgressInv ==
  /\ ProgressTypeOK /\ FoundItemHasMatch /\ ChecklistIsCurrent /\ LatestOutcomeStands
  /\ ChecklistIsOwed /\ TicksStand /\ EditsOK /\ RecordsAgree
=============================================================================
