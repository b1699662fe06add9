--------------------------- MODULE StatementBuilder ---------------------------
(***************************************************************************)
(* The statement builder of one browser, working against CaseStatements    *)
(* while collaborators write too.  The selected case changes under the     *)
(* builder, which is not remounted: a reply to a request made for one case *)
(* may arrive when another one is shown.                                   *)
(***************************************************************************)
EXTENDS CaseStatements

CONSTANT Editor   \* the request slot of the browser

(* A text knows the case it was written for.                                *)
ASSUME BuilderAssumption ==
  Editor \in Writers /\ (\A t \in Texts : t.case \in Cases) /\ Null \notin Texts

VARIABLES
  shown,    \* selectedCase.id
  known,    \* known[c]: the summary of c the browser has, by its number
  editor,   \* draftContent, savedDraftContent and the case of `statement`
  load,     \* the mounted loadStatement effect: its case, and what it has read
  task      \* the operation that makes the builder busy

builderVars == <<shown, known, editor, load, task, statementVars>>

browserVars == <<shown, known, editor, load, task>>

MaybeText == Texts \cup {Null}

BuilderTypeOK ==
  /\ shown \in Cases /\ known \in [Cases -> Nat]
  /\ editor \in [draft : MaybeText, saved : MaybeText, of : Cases]
  /\ load \in [pc : {"none", "sent", "read"}, text : MaybeText]
  /\ task \in [pc : {"none", "statement", "summary", "refresh"},
               kind : {"none", "draft", "summary"}, case : Cases \cup {Null}]

NoLoad == [pc |-> "none", text |-> Null]
NewLoad == [pc |-> "sent", text |-> Null]
NoTask == [pc |-> "none", kind |-> "none", case |-> Null]

BuilderInit ==
  /\ StatementsInit
  /\ shown \in Cases /\ known = [c \in Cases |-> 0]
  /\ editor = [draft |-> Null, saved |-> Null, of |-> shown]
  /\ load = NewLoad /\ task = NoTask

(* Mutation: isBusy forgets the operations.                                 *)
BusyLoading == load.pc # "none"

Busy == load.pc # "none" \/ task.pc # "none"

Dirty == editor.draft # editor.saved

(* The effect depends on the selected case and its summary: a change of     *)
(* either unmounts the load under way and starts another.                   *)
Reloaded == IF shown' # shown \/ known'[shown'] # known[shown'] THEN NewLoad ELSE load

-----------------------------------------------------------------------------
(* Navigation, and case details that arrive for other parts of the page.    *)
SelectCase(c) ==
  /\ c # shown /\ shown' = c /\ load' = NewLoad
  /\ UNCHANGED <<known, editor, task, statementVars>>

LearnSummary ==
  /\ known' = [known EXCEPT ![shown] = summary[shown]]
  /\ known' # known /\ load' = NewLoad
  /\ UNCHANGED <<shown, editor, task, statementVars>>

ReadStatement ==
  /\ load.pc = "sent"
  /\ load' = [pc |-> "read", text |-> Content(shown)]
  /\ UNCHANGED <<shown, known, editor, task, statementVars>>

(* Null: the case has no statement, and the editor starts from its summary; *)
(* so it does when the request failed.                                      *)
ShowStatement ==
  /\ load.pc = "read"
  /\ \E t \in {load.text} \cup (IF Faulty("network") THEN {Null} ELSE {}) :
       editor' = [draft |-> t, saved |-> t, of |-> shown]
  /\ load' = NoLoad
  /\ UNCHANGED <<shown, known, task, statementVars>>

(* An edit of a text is still that text; an empty editor takes the case's.   *)
Type(t) ==
  /\ ~Busy
  /\ t.case = IF editor.draft = Null THEN shown ELSE editor.draft.case
  /\ editor' = [editor EXCEPT !.draft = t]
  /\ UNCHANGED <<shown, known, load, task, statementVars>>

-----------------------------------------------------------------------------
(* Mutation: the draft is marked as saved before the server replies.        *)
SaveDraftOptimistically ==
  /\ ~Busy /\ Dirty /\ editor.draft # Null
  /\ Save(Editor, shown, editor.draft)
  /\ task' = [pc |-> "statement", kind |-> "draft", case |-> shown]
  /\ editor' = [editor EXCEPT !.saved = editor.draft]
  /\ UNCHANGED <<shown, known, load>>

(* saveDraft; canSave.                                                      *)
SaveDraft ==
  /\ ~Busy /\ Dirty /\ editor.draft # Null
  /\ Save(Editor, shown, editor.draft)
  /\ task' = [pc |-> "statement", kind |-> "draft", case |-> shown]
  /\ UNCHANGED <<shown, known, editor, load>>

(* generateDraft: its button wants a clean editor.  The draft is composed   *)
(* from the records of the case.                                            *)
GenerateDraft ==
  /\ ~Busy /\ ~Dirty
  /\ \E t \in Texts : t.case = shown /\ Save(Editor, shown, t)
  /\ task' = [pc |-> "statement", kind |-> "draft", case |-> shown]
  /\ UNCHANGED <<shown, known, editor, load>>

(* restoreVersion: from the versions of the statement on display.            *)
RestoreVersion ==
  /\ ~Busy /\ editor.of = shown
  /\ Restore(Editor, shown)
  /\ task' = [pc |-> "statement", kind |-> "draft", case |-> shown]
  /\ UNCHANGED <<shown, known, editor, load>>

(* generateSummary saves a draft that is dirty first.                        *)
GenerateSummary ==
  /\ ~Busy
  /\ IF Dirty /\ editor.draft # Null
     THEN /\ Save(Editor, shown, editor.draft)
          /\ task' = [pc |-> "statement", kind |-> "summary", case |-> shown]
     ELSE /\ Summarize(Editor, shown)
          /\ task' = [pc |-> "summary", kind |-> "summary", case |-> shown]
  /\ UNCHANGED <<shown, known, editor, load>>

Replied(w) == writer[w].pc \in {"done", "failed"}

HangUp ==
  /\ writer' = [writer EXCEPT ![Editor] = NoWriter]
  /\ UNCHANGED <<versions, newest, summary, clock>>

(* A reply with an error, or none: the operation ends with a notice.         *)
TaskFails ==
  /\ \/ task.pc = "statement" /\ Replied(Editor) /\ Faulty("network")
     \/ task.pc = "summary" /\ Replied(Editor) /\ Faulty("summary")
     \/ task.pc # "none" /\ writer[Editor].pc = "failed"
  /\ task' = NoTask /\ HangUp
  /\ UNCHANGED <<shown, known, editor, load>>

(* setStatement, setDraftContent, setSavedDraftContent: whatever is shown.   *)
ApplyStatement ==
  /\ task.pc = "statement" /\ writer[Editor].pc = "done"
  /\ editor' = [draft |-> writer[Editor].text, saved |-> writer[Editor].text,
                of |-> task.case]
  /\ IF task.kind = "summary"
     THEN Summarize(Editor, task.case) /\ task' = [task EXCEPT !.pc = "summary"]
     ELSE task' = [task EXCEPT !.pc = "refresh"] /\ HangUp
  /\ UNCHANGED <<shown, known, load>>

ApplySummary ==
  /\ task.pc = "summary" /\ writer[Editor].pc = "done"
  /\ task' = [task EXCEPT !.pc = "refresh"] /\ HangUp
  /\ UNCHANGED <<shown, known, editor, load>>

(* onCaseChanged loads the detail of the task's case and selects it.         *)
RefreshCase ==
  /\ task.pc = "refresh"
  /\ \/ /\ known' = [known EXCEPT ![task.case] = summary[task.case]]
        /\ shown' = task.case
        /\ load' = Reloaded
     \/ Faulty("refresh") /\ UNCHANGED <<shown, known, load>>
  /\ task' = NoTask
  /\ UNCHANGED <<editor, statementVars>>

Browser ==
  \/ \E c \in Cases : SelectCase(c)
  \/ \E t \in Texts : Type(t)
  \/ LearnSummary \/ ReadStatement \/ ShowStatement
  \/ SaveDraft \/ GenerateDraft \/ RestoreVersion \/ GenerateSummary
  \/ TaskFails \/ ApplyStatement \/ ApplySummary \/ RefreshCase

Collaborator(w) ==
  /\ writer[w].pc = "idle"
  /\ \E c \in Cases :
       (\E t \in Texts : t.case = c /\ Save(w, c, t)) \/ Restore(w, c) \/ Summarize(w, c)

BuilderNext ==
  \/ Browser
  \/ \E w \in Writers \ {Editor} : Collaborator(w) /\ UNCHANGED browserVars
  \/ \E w \in Writers : WriterStep(w) /\ UNCHANGED browserVars

BuilderSpec == BuilderInit /\ [][BuilderNext]_builderVars

-----------------------------------------------------------------------------
(* A statement holds what was written for its case: a reply that arrives    *)
(* after another case was selected is not edited and saved under that case, *)
(* as long as the refresh that follows it succeeds (useStatementBuilder).   *)
SavedUnderItsOwnCase == \A v \in versions : v.text.case = v.case

(* What the builder calls saved is a version on the server (draftIsDirty,   *)
(* "Saved ..."): also when replies are lost or come late.                   *)
WhatLooksSavedIsSaved ==
  editor.saved # Null =>
    \E v \in versions : v.case = editor.of /\ v.text = editor.saved

(* What the builder waits for is what its request does.                     *)
TaskOK ==
  LET me == writer[Editor] IN
  CASE task.pc = "statement" ->
         /\ task.case \in Cases /\ me.case = task.case
         /\ me.pc \in {"find", "number", "write", "done", "failed"}
         /\ me.pc = "done" => me.row # 0 /\ me.text \in Texts
    [] task.pc = "summary" ->
         task.case \in Cases /\ me.case = task.case /\ me.pc \in {"sum", "done", "failed"}
    [] task.pc = "refresh" -> task.case \in Cases /\ me.pc = "idle"
    [] OTHER -> me.pc = "idle"

IsVersion(c, t) == \E v \in versions : v.case = c /\ v.text = t

LoadOK == load.pc = "read" /\ load.text # Null => IsVersion(shown, load.text)

(* Without failures of summaries and refreshes: what is written is of its   *)
(* case, and the editor shows the case it is of unless a load is under way  *)
(* or an operation will yet return to its own case.                         *)
RequestTextsOK ==
  \A w \in Writers :
    writer[w].pc \in {"find", "number", "write", "done"} /\ writer[w].text # Null =>
      writer[w].text.case = writer[w].case

EditorTextOK ==
  \/ load.pc # "none" \/ editor.draft = Null \/ editor.draft.case = shown
  \/ task.pc \in {"summary", "refresh"} /\ task.case # shown

TextsOK ==
  /\ SavedUnderItsOwnCase /\ RequestTextsOK /\ EditorTextOK
  /\ task.pc = "summary" => writer[Editor].pc # "failed"

(* Whatever replies come late or not at all: texts are stored under their   *)
(* own case, unless refreshes fail, and what looks saved is saved.          *)
(* Inductive together with StatementsInv.                                   *)
BuilderInv ==
  /\ BuilderTypeOK /\ TaskOK /\ LoadOK /\ WhatLooksSavedIsSaved
  /\ Faults \cap {"summary", "refresh"} = {} => TextsOK
=============================================================================
