------------------------------ MODULE InboxPanel ------------------------------
(***************************************************************************)
(* The inbox: the read state of support requests and notifications, the    *)
(* panel's list of them, and the conversation it shows.  List and detail   *)
(* have an effect each that asks afresh, and drops what it waited for,     *)
(* when what it depends on changes; changes of the read state are applied  *)
(* when their replies arrive.  Bodies and replies of support are left out. *)
(***************************************************************************)
EXTENDS Integers, FiniteSets

CONSTANTS
  Talks,         \* conversations
  SupportTalks,  \* those that are support requests
  Markings,      \* bound: requests that change the read state
  MaxLoads,      \* bound: loads of the list
  NoTalk

ASSUME InboxAssumption == SupportTalks \subseteq Talks /\ NoTalk \notin Talks /\ MaxLoads \in Nat

VARIABLES
  talk,      \* talk[t]: "absent", or whether the row is "read" or "unread"
  line,      \* conversations: line[t], as talk
  chosen,    \* selectedKey
  sieve,     \* filter: ALL or UNREAD
  sheet,     \* detail: conversation and read state, or NoTalk
  spins,     \* isDetailLoading
  listAsk,   \* the request of loadConversations
  sheetAsk,  \* the request of loadDetail
  marking,   \* marking[k]: a request that changes the read state
  marked,    \* updatingKey: a conversation, "all", or NoTalk
  loads,
  met        \* history: see Meeting

inboxVars ==
  <<talk, line, chosen, sieve, sheet, spins, listAsk, sheetAsk, marking, marked, loads, met>>

ReadStates == {"absent", "read", "unread"}
NoList == [pc |-> "idle", rows |-> [t \in Talks |-> "absent"]]
Blank == [pc |-> "idle", of |-> NoTalk, is |-> "absent"]
Unmarked == [pc |-> "none", of |-> NoTalk, to |-> "read"]

InboxTypeOK ==
  /\ talk \in [Talks -> ReadStates] /\ line \in [Talks -> ReadStates]
  /\ chosen \in Talks \cup {NoTalk} /\ sieve \in {"ALL", "UNREAD"}
  /\ sheet = NoTalk \/ sheet \in [of : Talks, is : {"read", "unread"}]
  /\ spins \in BOOLEAN
  /\ listAsk \in [pc : {"idle", "sent", "read"}, rows : [Talks -> ReadStates]]
  /\ sheetAsk \in [pc : {"idle", "sent", "read", "gone"}, of : Talks \cup {NoTalk}, is : ReadStates]
  /\ marking \in [Markings -> [pc : {"none", "sent", "written", "over"},
                            of : Talks \cup {NoTalk, "all"}, to : {"read", "unread"}]]
  /\ marked \in Talks \cup {NoTalk, "all"} /\ loads \in 0..MaxLoads /\ met \in BOOLEAN

InboxInit ==
  /\ talk \in [Talks -> ReadStates] /\ line = NoList.rows
  /\ chosen = NoTalk /\ sieve = "ALL" /\ sheet = NoTalk /\ spins = FALSE
  /\ listAsk = [NoList EXCEPT !.pc = "sent"] /\ sheetAsk = Blank
  /\ marking = [k \in Markings |-> Unmarked] /\ marked = NoTalk
  /\ loads = 0 /\ met = FALSE

(* matchesInboxFilter: the rows the filter leaves.                         *)
Passes(rows, filter) ==
  {t \in Talks : rows[t] # "absent" /\ (filter = "ALL" \/ rows[t] = "unread")}

(* selectedConversation, which must be among the rows that are left.       *)
Picked(rows, filter, key) == IF key \in Passes(rows, filter) THEN key ELSE NoTalk

(* Mutation: the effect of the detail does not depend on the selection.    *)
ShowsOnLoadOnly(rows, filter, key, again) ==
  LET to == Picked(rows, filter, key)
  IN /\ line' = rows /\ sieve' = filter /\ chosen' = key
     /\ IF ~again /\ (sheetAsk.pc # "idle" \/ to = NoTalk) THEN UNCHANGED <<sheetAsk, spins>>
        ELSE /\ sheetAsk' = IF to = NoTalk THEN Blank ELSE [pc |-> "sent", of |-> to, is |-> "absent"]
             /\ spins' = (spins \/ to # NoTalk)

(* The panel shows rows through filter with key selected.  When that       *)
(* selects another conversation, or the inbox is loaded again, the effect  *)
(* of the detail asks afresh; with none selected it only drops its request. *)
Shows(rows, filter, key, again) ==
  LET to == Picked(rows, filter, key)
  IN /\ line' = rows /\ sieve' = filter /\ chosen' = key
     /\ IF to = Picked(line, sieve, chosen) /\ ~again THEN UNCHANGED <<sheetAsk, spins>>
        ELSE /\ sheetAsk' = IF to = NoTalk THEN Blank ELSE [pc |-> "sent", of |-> to, is |-> "absent"]
             /\ spins' = (spins \/ to # NoTalk)

(* Two requests that meet may leave the list behind.                       *)
Meeting(but) == listAsk.pc # "idle" \/ \E k \in Markings \ but : marking[k].pc \in {"sent", "written"}

-----------------------------------------------------------------------------
(* loadConversations.                                                      *)

ListRead ==
  /\ listAsk.pc = "sent" /\ listAsk' = [pc |-> "read", rows |-> talk]
  /\ UNCHANGED <<talk, line, chosen, sieve, sheet, spins, sheetAsk, marking, marked, loads, met>>

(* A selection that is still listed is kept; else a wide window selects the *)
(* first conversation, and a narrow one none.                               *)
ListShown ==
  /\ listAsk.pc = "read" /\ listAsk' = NoList
  /\ LET there == Passes(listAsk.rows, "ALL")
     IN \E key \in IF chosen \in there THEN {chosen} ELSE there \cup {NoTalk} :
          Shows(listAsk.rows, sieve, key, FALSE)
  /\ UNCHANGED <<talk, sheet, marking, marked, loads, met>>

ListLost ==
  /\ listAsk.pc # "idle" /\ listAsk' = NoList /\ met' = TRUE
  /\ UNCHANGED <<talk, line, chosen, sieve, sheet, spins, sheetAsk, marking, marked, loads>>

(* refreshKey has both effects ask again.                                  *)
Refresh ==
  /\ loads < MaxLoads /\ loads' = loads + 1
  /\ met' = (met \/ Meeting({})) /\ listAsk' = [NoList EXCEPT !.pc = "sent"]
  /\ Shows(line, sieve, chosen, TRUE)
  /\ UNCHANGED <<talk, sheet, marking, marked>>

(* A notification that comes is listed by the next load.                   *)
Notify(t) ==
  /\ t \notin SupportTalks /\ talk[t] = "absent" /\ talk' = [talk EXCEPT ![t] = "unread"]
  /\ UNCHANGED <<line, chosen, sieve, sheet, spins, listAsk, sheetAsk, marking, marked, loads, met>>

(* handleCreated: the new support request is read, selected and loaded.    *)
Compose(t) ==
  /\ t \in SupportTalks /\ talk[t] = "absent" /\ talk' = [talk EXCEPT ![t] = "read"]
  /\ loads < MaxLoads /\ loads' = loads + 1
  /\ met' = (met \/ Meeting({})) /\ listAsk' = [NoList EXCEPT !.pc = "sent"]
  /\ Shows(line, sieve, t, TRUE)
  /\ UNCHANGED <<sheet, marking, marked>>

-----------------------------------------------------------------------------
(* loadDetail.                                                             *)

SheetRead ==
  /\ sheetAsk.pc = "sent"
  /\ sheetAsk' = [sheetAsk EXCEPT !.pc = IF talk[sheetAsk.of] = "absent" THEN "gone" ELSE "read",
                                  !.is = talk[sheetAsk.of]]
  /\ UNCHANGED <<talk, line, chosen, sieve, sheet, spins, listAsk, marking, marked, loads, met>>

SheetShown ==
  /\ sheetAsk.pc = "read" /\ sheetAsk' = Blank /\ spins' = FALSE
  /\ sheet' = [of |-> sheetAsk.of, is |-> sheetAsk.is]
  /\ UNCHANGED <<talk, line, chosen, sieve, listAsk, marking, marked, loads, met>>

SheetLost ==
  /\ sheetAsk.pc # "idle" /\ sheetAsk' = Blank /\ spins' = FALSE /\ sheet' = NoTalk
  /\ UNCHANGED <<talk, line, chosen, sieve, listAsk, marking, marked, loads, met>>

-----------------------------------------------------------------------------
(* updateReadState and markAllRead.                                        *)

Asks(k, of, to) ==
  /\ marking[k].pc = "none"
  /\ marking' = [marking EXCEPT ![k] = [pc |-> "sent", of |-> of, to |-> to]]
  /\ marked' = of /\ met' = (met \/ Meeting({}))

(* The rows are not shown while they are loaded.                          *)
OpenConversation(t) ==
  /\ listAsk.pc = "idle" /\ t \in Passes(line, sieve) /\ Shows(line, sieve, t, FALSE)
  /\ IF line[t] = "unread" THEN \E k \in Markings : Asks(k, t, "read")
     ELSE UNCHANGED <<marking, marked, met>>
  /\ UNCHANGED <<talk, sheet, listAsk, loads>>

(* Marking unread, or a reply, which reads; neither while the detail loads. *)
MarkSheet(k) ==
  /\ sheet # NoTalk /\ ~spins /\ marked # sheet.of
  /\ \/ sheet.is = "read" /\ Asks(k, sheet.of, "unread")
     \/ sheet.of \in SupportTalks /\ Asks(k, sheet.of, "read")
  /\ UNCHANGED <<talk, line, chosen, sieve, sheet, spins, listAsk, sheetAsk, loads>>

MarkAllRead(k) ==
  /\ \E t \in Talks : line[t] = "unread"
  /\ marked # "all" /\ Asks(k, "all", "read")
  /\ UNCHANGED <<talk, line, chosen, sieve, sheet, spins, listAsk, sheetAsk, loads>>

Filter ==
  /\ \E filter \in {"ALL", "UNREAD"} \ {sieve} : Shows(line, filter, chosen, FALSE)
  /\ UNCHANGED <<talk, sheet, listAsk, marking, marked, loads, met>>

Becomes(rows, k) ==
  [t \in Talks |-> IF marking[k].of \in {t, "all"} /\ rows[t] # "absent" THEN marking[k].to ELSE rows[t]]

(* updateReadState, markAllRead and addRequestMessage of the service.      *)
WriteMark(k) ==
  /\ marking[k].pc = "sent" /\ marking' = [marking EXCEPT ![k].pc = "written"]
  /\ talk' = Becomes(talk, k)
  /\ UNCHANGED <<line, chosen, sieve, sheet, spins, listAsk, sheetAsk, marked, loads, met>>

(* Mutation: the reply reaches the detail and not the list.                *)
ShowMarkOnSheet(k) ==
  /\ marking[k].pc = "written" /\ marking' = [marking EXCEPT ![k].pc = "over"] /\ marked' = NoTalk
  /\ sheet' = IF sheet # NoTalk /\ marking[k].of \in {sheet.of, "all"}
              THEN [sheet EXCEPT !.is = marking[k].to] ELSE sheet
  /\ UNCHANGED <<talk, line, chosen, sieve, spins, listAsk, sheetAsk, loads, met>>

ShowMark(k) ==
  /\ marking[k].pc = "written" /\ marking' = [marking EXCEPT ![k].pc = "over"] /\ marked' = NoTalk
  /\ Shows(Becomes(line, k), sieve, chosen, FALSE)
  /\ sheet' = IF sheet # NoTalk /\ marking[k].of \in {sheet.of, "all"}
              THEN [sheet EXCEPT !.is = marking[k].to] ELSE sheet
  /\ UNCHANGED <<talk, listAsk, loads, met>>

LoseMark(k) ==
  /\ marking[k].pc \in {"sent", "written"} /\ marking' = [marking EXCEPT ![k].pc = "over"]
  /\ marked' = NoTalk /\ met' = TRUE
  /\ UNCHANGED <<talk, line, chosen, sieve, sheet, spins, listAsk, sheetAsk, loads>>

InboxNext ==
  \/ ListRead \/ ListShown \/ ListLost \/ Refresh \/ SheetRead \/ SheetShown \/ SheetLost \/ Filter
  \/ \E t \in Talks : Compose(t) \/ Notify(t) \/ OpenConversation(t)
  \/ \E k \in Markings : MarkSheet(k) \/ MarkAllRead(k) \/ WriteMark(k) \/ ShowMark(k) \/ LoseMark(k)

InboxSpec == InboxInit /\ [][InboxNext]_inboxVars

-----------------------------------------------------------------------------
(* Properties.                                                             *)

(* The panel shows a spinner only while it waits for the conversation that *)
(* is selected; when the filter hides that one nothing ends the spinner.   *)
SpinnerIsAnswered ==
  spins => sheetAsk.pc # "idle" \/ Picked(line, sieve, chosen) = NoTalk

(* What the detail waits for is what is selected.                          *)
SheetIsPicked == sheetAsk.pc # "idle" => sheetAsk.of = Picked(line, sieve, chosen)

Current(rows) == \A t \in Talks : rows[t] \in {"absent", talk[t]}

(* Nothing unread is listed as read, nor the other way round, once         *)
(* nothing is under way, if no reply was lost and no two requests met.     *)
ListIsCurrent ==
  ~Meeting({}) /\ ~met => Current(line)

(* What waits for the detail, and what the list will be once the requests  *)
(* under way have been answered.                                           *)
SheetAskOK ==
  /\ sheetAsk.pc # "idle" => sheetAsk.of \in Talks
  /\ sheetAsk.pc = "read" => sheetAsk.is # "absent"

ListOK ==
  ~met =>
    /\ listAsk.pc = "read" => Current(listAsk.rows)
    /\ \A k \in Markings : marking[k].pc \in {"sent", "written"} => ~Meeting({k})
    /\ \A k \in Markings : marking[k].pc = "sent" => Current(line)
    /\ \A k \in Markings : marking[k].pc = "written" => Current(Becomes(line, k))

(* With the requests under way this is inductive.                          *)
InboxInv ==
  /\ InboxTypeOK /\ SpinnerIsAnswered /\ SheetIsPicked /\ ListIsCurrent
  /\ SheetAskOK /\ ListOK
=============================================================================
