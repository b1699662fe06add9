------------------------------ MODULE TaskBoard -------------------------------
(***************************************************************************)
(* The tasks of a case: the service, whose update reads a task and then    *)
(* writes what it makes of it, and the panel of one browser, which loads   *)
(* them once and applies every reply when it arrives.  A colleague sends   *)
(* the same requests.                                                      *)
(***************************************************************************)
EXTENDS Integers, FiniteSets

CONSTANTS
  Chores,   \* CaseTask rows
  Sends,    \* bound: requests
  NoChore    \* no row, no editor, no value given

ASSUME TaskAssumption == NoChore \notin Chores

VARIABLES
  kept,       \* kept[c]: the row
  board,      \* tasks: what the panel shows
  boardLoad,  \* the request of loadTasks and the rows it has read
  open,       \* editorState: a task, "new", or nothing
  busyWith,   \* updatingTaskId
  send,       \* send[k]: a request
  crossed     \* history: tasks the board may show otherwise, see Meets

taskVars == <<kept, board, boardLoad, open, busyWith, send, crossed>>

Default == [TODO |-> 0, IN_PROGRESS |-> 25, REVIEW |-> 90, COMPLETED |-> 100]
Steps == {"TODO", "COMPLETED"}   \* IN_PROGRESS and REVIEW differ in their progress
Progress == {0, 25, 100}

States == [status : Steps, progress : Progress, done : BOOLEAN]
Inputs == [status : Steps \cup {NoChore}, progress : Progress \cup {NoChore}]
NewTask == [status |-> "TODO", progress |-> 0, done |-> FALSE]
Unsent == [pc |-> "none", mine |-> FALSE, kind |-> "save", chore |-> NoChore,
           input |-> [status |-> NoChore, progress |-> NoChore], seen |-> NoChore]

SendStates ==
  [pc : {"none", "sent", "found", "written", "over"}, mine : BOOLEAN,
   kind : {"create", "save", "toggle", "delete"}, chore : Chores \cup {NoChore},
   input : Inputs, seen : States \cup {NoChore}]

TaskTypeOK ==
  /\ kept \in [Chores -> States \cup {NoChore}] /\ board \in [Chores -> States \cup {NoChore}]
  /\ boardLoad \in [pc : {"sent", "read", "over"}, rows : [Chores -> States \cup {NoChore}]]
  /\ open \in Chores \cup {"new", NoChore} /\ busyWith \in Chores \cup {"new", NoChore}
  /\ send \in [Sends -> SendStates]
  /\ crossed \subseteq Chores

NoRows == [c \in Chores |-> NoChore]

TaskInit ==
  /\ kept \in {NoRows} \cup {[NoRows EXCEPT ![c] = NewTask] : c \in Chores}
  /\ board = NoRows /\ boardLoad = [pc |-> "sent", rows |-> NoRows]
  /\ open = NoChore /\ busyWith = NoChore
  /\ send = [k \in Sends |-> Unsent] /\ crossed = {}

-----------------------------------------------------------------------------
Given(value, otherwise) == IF value = NoChore THEN otherwise ELSE value

(* Mutation: a task that is complete by its progress keeps its status.     *)
NormalizedByStatus(seen, input) ==
  LET status == Given(input.status, seen.status)
      progress == Given(input.progress, IF input.status # NoChore THEN Default[status] ELSE seen.progress)
  IN IF status = "COMPLETED"
     THEN [status |-> "COMPLETED", progress |-> 100, done |-> TRUE]
     ELSE [status |-> status, progress |-> progress, done |-> FALSE]

(* normalizeTaskState: a status brings its progress; whatever says that a  *)
(* task is complete completes it.                                          *)
Normalized(seen, input) ==
  LET status == Given(input.status, seen.status)
      progress == Given(input.progress, IF input.status # NoChore THEN Default[status] ELSE seen.progress)
  IN IF status = "COMPLETED" \/ progress = 100
     THEN [status |-> "COMPLETED", progress |-> 100, done |-> TRUE]
     ELSE [status |-> status, progress |-> progress, done |-> FALSE]

(* Requests the reply to which may leave the board behind: two that meet,  *)
(* one that meets the load, a colleague's.                                 *)
UnderWay(c) == {k \in Sends : send[k].chore = c /\ send[k].pc \in {"sent", "found", "written"}}
Meets(c, mine) ==
  IF ~mine \/ boardLoad.pc # "over" \/ UnderWay(c) # {} THEN crossed \cup {c} ELSE crossed

Sent(k, mine, kind, c, input) ==
  /\ send[k].pc = "none"
  /\ send' = [send EXCEPT ![k] = [Unsent EXCEPT !.pc = "sent", !.mine = mine, !.kind = kind,
                                               !.chore = c, !.input = input]]
  /\ crossed' = Meets(c, mine)

-----------------------------------------------------------------------------
(* The panel.                                                              *)

ReadBoard ==
  /\ boardLoad.pc = "sent" /\ boardLoad' = [pc |-> "read", rows |-> kept]
  /\ UNCHANGED <<kept, board, open, busyWith, send, crossed>>

(* setTasks replaces what replies have put there since.                    *)
ShowBoard ==
  /\ boardLoad.pc = "read" /\ board' = boardLoad.rows
  /\ boardLoad' = [pc |-> "over", rows |-> NoRows]
  /\ UNCHANGED <<kept, open, busyWith, send, crossed>>

LoseBoard ==
  /\ boardLoad.pc # "over" /\ boardLoad' = [pc |-> "over", rows |-> NoRows]
  /\ crossed' = Chores
  /\ UNCHANGED <<kept, board, open, busyWith, send>>

(* A row may be opened, or the editor be left, while another is being saved. *)
OpenEditor ==
  /\ open' \in {"new", NoChore} \cup {c \in Chores : board[c] # NoChore}
  /\ UNCHANGED <<kept, board, boardLoad, busyWith, send, crossed>>

(* The editor gives both values, and a status of COMPLETED only with 100.  *)
EditorInputs ==
  {i \in Inputs : i.status # NoChore /\ (i.status = "COMPLETED" <=> i.progress = 100)
                    /\ i.progress # NoChore}

SaveTask(k) ==
  /\ busyWith = NoChore /\ open # NoChore /\ busyWith' = open
  /\ \E i \in EditorInputs :
       IF open = "new"
       THEN \E c \in Chores : kept[c] = NoChore /\ board[c] = NoChore /\ UnderWay(c) = {}
                                /\ Sent(k, TRUE, "create", c, i)
       ELSE Sent(k, TRUE, "save", open, i)
  /\ UNCHANGED <<kept, board, boardLoad, open>>

DeleteTask(k) ==
  /\ busyWith = NoChore /\ open \in Chores /\ busyWith' = open
  /\ Sent(k, TRUE, "delete", open, Unsent.input)
  /\ UNCHANGED <<kept, board, boardLoad, open>>

(* Only the row that is being updated is disabled.                         *)
ToggleTaskComplete(k, c) ==
  /\ board[c] # NoChore /\ busyWith # c /\ busyWith' = c
  /\ Sent(k, TRUE, "toggle", c,
          IF board[c].status = "COMPLETED" THEN [status |-> "TODO", progress |-> 0]
          ELSE [status |-> "COMPLETED", progress |-> 100])
  /\ UNCHANGED <<kept, board, boardLoad, open>>

(* The request of a colleague, who may also change single values.          *)
Colleague(k, c) ==
  /\ kept[c] # NoChore
  /\ \/ \E i \in Inputs : Sent(k, FALSE, "save", c, i)
     \/ Sent(k, FALSE, "delete", c, Unsent.input)
  /\ UNCHANGED <<kept, board, boardLoad, open, busyWith>>

-----------------------------------------------------------------------------
(* The service: find the task, then write it.                              *)

FindTask(k) ==
  /\ send[k].pc = "sent"
  /\ IF send[k].kind # "create" /\ kept[send[k].chore] = NoChore
     THEN send' = [send EXCEPT ![k].pc = "over"] /\ crossed' = crossed \cup {send[k].chore}
          /\ busyWith' = IF send[k].mine THEN NoChore ELSE busyWith
     ELSE send' = [send EXCEPT ![k].pc = "found", ![k].seen = kept[send[k].chore]]
          /\ UNCHANGED <<crossed, busyWith>>
  /\ UNCHANGED <<kept, board, boardLoad, open>>

Written(k) ==
  CASE send[k].kind = "create" -> Normalized([NewTask EXCEPT !.status = send[k].input.status,
                                              !.progress = Default[send[k].input.status]], send[k].input)
    [] send[k].kind = "delete" -> NoChore
    [] OTHER -> Normalized(send[k].seen, send[k].input)

(* A row that is gone by now fails the update.                             *)
WriteTask(k) ==
  /\ send[k].pc = "found"
  /\ send[k].kind = "create" \/ kept[send[k].chore] # NoChore
  /\ kept' = [kept EXCEPT ![send[k].chore] = Written(k)]
  /\ send' = [send EXCEPT ![k].pc = IF send[k].mine THEN "written" ELSE "over",
                          ![k].seen = Written(k)]
  /\ UNCHANGED <<board, boardLoad, open, busyWith, crossed>>

(* The request fails, or its reply is lost.                                *)
FailTask(k) ==
  /\ send[k].pc \in {"found", "written"} /\ send' = [send EXCEPT ![k].pc = "over"]
  /\ crossed' = crossed \cup {send[k].chore}
  /\ busyWith' = IF send[k].mine THEN NoChore ELSE busyWith
  /\ UNCHANGED <<kept, board, boardLoad, open>>

(* Mutation: the reply of a toggle leaves the list to the next load.       *)
ShowTaskUnlessToggled(k) ==
  /\ send[k].pc = "written" /\ send[k].mine
  /\ send' = [send EXCEPT ![k].pc = "over"] /\ busyWith' = NoChore
  /\ board' = IF send[k].kind = "toggle" THEN board
              ELSE [board EXCEPT ![send[k].chore] = send[k].seen]
  /\ open' = IF send[k].kind = "toggle" THEN open ELSE NoChore
  /\ UNCHANGED <<kept, boardLoad, crossed>>

(* A row that the list does not have is not put there by an update; a save *)
(* or a deletion closes the editor, whatever it shows by now.              *)
ShowTask(k) ==
  /\ send[k].pc = "written" /\ send[k].mine
  /\ send' = [send EXCEPT ![k].pc = "over"] /\ busyWith' = NoChore
  /\ board' = IF send[k].kind # "create" /\ board[send[k].chore] = NoChore THEN board
              ELSE [board EXCEPT ![send[k].chore] = send[k].seen]
  /\ open' = IF send[k].kind = "toggle" THEN open ELSE NoChore
  /\ UNCHANGED <<kept, boardLoad, crossed>>

TaskNext ==
  \/ ReadBoard \/ ShowBoard \/ LoseBoard \/ OpenEditor
  \/ \E k \in Sends :
       \/ SaveTask(k) \/ DeleteTask(k) \/ FindTask(k) \/ WriteTask(k) \/ FailTask(k) \/ ShowTask(k)
       \/ \E c \in Chores : ToggleTaskComplete(k, c) \/ Colleague(k, c)

TaskSpec == TaskInit /\ [][TaskNext]_taskVars

-----------------------------------------------------------------------------
(* Properties.                                                             *)

(* Status, progress and the date of completion tell the same of a task,    *)
(* whichever of them a request gave, and however old the row was that it   *)
(* was computed from.                                                      *)
Agrees(s) ==
  s # NoChore => /\ s.status = "COMPLETED" <=> s.progress = 100
                 /\ s.status = "COMPLETED" <=> s.done

TaskStateAgrees == \A c \in Chores : Agrees(kept[c]) /\ Agrees(board[c])

(* The panel never reloads: what it shows of a task is what is stored as   *)
(* long as nothing is under way, no reply was lost, no two requests met    *)
(* and nobody else changed it.                                             *)
BoardIsCurrent ==
  \A c \in Chores \ crossed :
    boardLoad.pc = "over" /\ UnderWay(c) = {} => board[c] = kept[c]

(* What a request has read of a task, and the load of all.                 *)
SendOK(k) ==
  LET me == send[k] IN
  /\ me.pc \in {"sent", "found", "written"} => me.chore \in Chores
  /\ me.pc # "none" /\ me.kind = "create" =>
       me.input.status # NoChore /\ me.input.progress # NoChore
  /\ me.pc = "found" /\ me.kind # "create" => me.seen # NoChore
  /\ me.pc = "written" => me.mine
  /\ Agrees(me.seen)

(* Nothing meets a request for a task that is not crossed.                 *)
AloneOK(c) ==
  /\ boardLoad.pc # "over" => UnderWay(c) = {}
  /\ boardLoad.pc = "read" => boardLoad.rows[c] = kept[c]
  /\ \A k \in UnderWay(c) :
       /\ UnderWay(c) = {k} /\ send[k].mine
       /\ send[k].pc # "written" => board[c] = kept[c]
       /\ send[k].pc \in {"found", "written"} => send[k].seen = kept[c]
       /\ send[k].pc = "written" /\ send[k].kind # "create" => board[c] # NoChore

(* With the requests under way this is inductive.                          *)
TaskInv ==
  /\ TaskTypeOK /\ TaskStateAgrees /\ BoardIsCurrent
  /\ \A c \in Chores : Agrees(boardLoad.rows[c])
  /\ \A k \in Sends : SendOK(k)
  /\ \A c \in Chores \ crossed : AloneOK(c)
=============================================================================
