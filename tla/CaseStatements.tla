---------------------------- MODULE CaseStatements ----------------------------
(***************************************************************************)
(* The statement of a case on the server: every save, generation and       *)
(* restore writes the next version in a transaction of three statements,   *)
(* between which other transactions commit.  Summaries are written beside. *)
(***************************************************************************)
EXTENDS Environment, FiniteSets

CONSTANTS
  Cases, Texts,   \* cases and what can be written in them
  Writers,        \* requests
  MaxVersions,    \* bound: versions in all
  MaxSummaries    \* bound: summaries of a case that are told apart

ASSUME StatementAssumption == MaxVersions \in Nat /\ MaxSummaries \in Nat

VARIABLES
  versions,   \* StatementVersion: [case, row, number, text]
  newest,     \* newest[c]: the CaseStatement of c with the latest updatedAt, or 0
  summary,    \* summary[c]: how many summaries c had
  writer      \* writer[w]: a request that writes

statementVars == <<versions, newest, summary, writer, clock>>

Rows == 1..MaxVersions

WriterStates ==
  [pc : {"idle", "restore", "find", "number", "write", "sum", "done", "failed"},
   case : Cases \cup {Null}, text : Texts \cup {Null}, row : 0..MaxVersions, number : Nat]

StatementsTypeOK ==
  /\ versions \subseteq [case : Cases, row : Rows, number : Nat, text : Texts]
  /\ newest \in [Cases -> 0..MaxVersions]
  /\ summary \in [Cases -> Nat]
  /\ writer \in [Writers -> WriterStates]

NoWriter == [pc |-> "idle", case |-> Null, text |-> Null, row |-> 0, number |-> 0]

StatementsInit ==
  /\ versions = {}
  /\ newest = [c \in Cases |-> 0]
  /\ summary = [c \in Cases |-> 0]
  /\ writer = [w \in Writers |-> NoWriter]
  /\ clock = 0

Of(c, row) == {v \in versions : v.case = c /\ v.row = row}

Numbers(c, row) == {v.number : v \in Of(c, row)}

Latest(c, row) == IF Of(c, row) = {} THEN 0 ELSE CHOOSE n \in Numbers(c, row) :
                                                  \A m \in Numbers(c, row) : m <= n

(* CaseStatement.content: what the newest version of the row says.          *)
Content(c) ==
  IF newest[c] = 0 THEN Null
  ELSE (CHOOSE v \in Of(c, newest[c]) : v.number = Latest(c, newest[c])).text

-----------------------------------------------------------------------------
(* PUT statement, POST statement/generate: the text is the request's own.   *)
Save(w, c, t) ==
  /\ writer' = [writer EXCEPT ![w] = [NoWriter EXCEPT !.pc = "find", !.case = c, !.text = t]]
  /\ UNCHANGED <<versions, newest, summary, clock>>

(* POST versions/:id/restore: the text of a version of the same case.       *)
Restore(w, c) ==
  /\ \E v \in versions :
       /\ v.case = c
       /\ writer' = [writer EXCEPT ![w] = [NoWriter EXCEPT !.pc = "find", !.case = c,
                                                           !.text = v.text]]
  /\ UNCHANGED <<versions, newest, summary, clock>>

(* upsertDraft: the statement that was updated last.                        *)
FindStatement(w) ==
  /\ writer[w].pc = "find"
  /\ LET row == newest[writer[w].case]
     IN writer' = [writer EXCEPT ![w].row = row,
                                 ![w].pc = IF row = 0 THEN "write" ELSE "number"]
  /\ UNCHANGED <<versions, newest, summary, clock>>

(* Mutation: the next number of the case, whatever the statement.           *)
NumberInCase(w) ==
  /\ writer[w].pc = "number"
  /\ writer' = [writer EXCEPT ![w].pc = "write",
       ![w].number = Cardinality({v \in versions : v.case = writer[w].case}) + 1]
  /\ UNCHANGED <<versions, newest, summary, clock>>

(* updateStatementWithVersion: _max.version + 1.                            *)
NumberVersion(w) ==
  /\ writer[w].pc = "number"
  /\ writer' = [writer EXCEPT ![w].pc = "write",
                              ![w].number = Latest(writer[w].case, writer[w].row) + 1]
  /\ UNCHANGED <<versions, newest, summary, clock>>

(* Mutation: no unique index.                                               *)
UniqueNever(c, row, number) == TRUE

(* @@unique([statementId, version]).                                        *)
Unique(c, row, number) == number \notin Numbers(c, row)

NewRow(c) == Cardinality({v.row : v \in {u \in versions : u.case = c}}) + 1

(* The insert and the update of the row commit together, or not at all.     *)
WriteVersion(w) ==
  /\ writer[w].pc = "write"
  /\ LET me == writer[w]
         row == IF me.row = 0 THEN NewRow(me.case) ELSE me.row
         number == IF me.row = 0 THEN 1 ELSE me.number
     IN \/ /\ Unique(me.case, row, number)
           /\ Cardinality(versions) < MaxVersions
           /\ versions' = versions \cup
                {[case |-> me.case, row |-> row, number |-> number, text |-> me.text]}
           /\ newest' = [newest EXCEPT ![me.case] = row]
           /\ writer' = [writer EXCEPT ![w].pc = "done", ![w].row = row,
                                       ![w].number = number]
        \/ /\ ~Unique(me.case, row, number) \/ Faulty("database")
                \/ Cardinality(versions) = MaxVersions
           /\ writer' = [writer EXCEPT ![w].pc = "failed"]
           /\ UNCHANGED <<versions, newest>>
  /\ UNCHANGED <<summary, clock>>

(* POST summary/generate: what the case says is read first; the summary and *)
(* Case.summary are then written in one transaction.                        *)
Summarize(w, c) ==
  /\ writer' = [writer EXCEPT ![w] = [NoWriter EXCEPT !.pc = "sum", !.case = c]]
  /\ UNCHANGED <<versions, newest, summary, clock>>

WriteSummary(w) ==
  /\ writer[w].pc = "sum"
  /\ \/ /\ summary' = [summary EXCEPT ![writer[w].case] = IF @ < MaxSummaries THEN @ + 1 ELSE @]
        /\ writer' = [writer EXCEPT ![w].pc = "done"]
     \/ /\ Faulty("summary")
        /\ writer' = [writer EXCEPT ![w].pc = "failed"]
        /\ UNCHANGED summary
  /\ UNCHANGED <<versions, newest, clock>>

WriterStep(w) ==
  FindStatement(w) \/ NumberVersion(w) \/ WriteVersion(w) \/ WriteSummary(w)

Request(w, c) ==
  /\ writer[w].pc = "idle"
  /\ (\E t \in Texts : Save(w, c, t)) \/ Restore(w, c) \/ Summarize(w, c)

StatementsNext ==
  \/ \E w \in Writers, c \in Cases : Request(w, c)
  \/ \E w \in Writers : WriterStep(w)

StatementsSpec == StatementsInit /\ [][StatementsNext]_statementVars

-----------------------------------------------------------------------------
(* An acknowledged save is a version with that text, and the only one with  *)
(* its number: two collaborators who save at once never share a version, so *)
(* neither text overwrites the other (upsertDraft).                          *)
AcknowledgedVersionIsKept ==
  \A w \in Writers :
    writer[w].pc = "done" /\ writer[w].row # 0 =>
      {v \in Of(writer[w].case, writer[w].row) : v.number = writer[w].number}
        = {[case |-> writer[w].case, row |-> writer[w].row,
            number |-> writer[w].number, text |-> writer[w].text]}

(* The history of a statement has no gaps: it is numbered 1 up to the       *)
(* version shown, also when saves collide and are rolled back               *)
(* (updateStatementWithVersion).                                            *)
HistoryHasNoGaps ==
  \A c \in Cases, row \in Rows :
    Numbers(c, row) = 1..Cardinality(Of(c, row))

RowsOf(c) == {v.row : v \in {u \in versions : u.case = c}}

(* The statements of a case are told apart, and a request writes to one     *)
(* that exists, at most one number after the last.                          *)
WriterOK(w) ==
  LET me == writer[w] IN
  /\ me.pc \in {"find", "number", "write"} => me.case \in Cases /\ me.text \in Texts
  /\ me.pc = "sum" => me.case \in Cases /\ me.row = 0 /\ me.text = Null
  /\ me.pc = "number" => me.row \in RowsOf(me.case)
  /\ me.pc = "write" /\ me.row # 0 =>
       me.row \in RowsOf(me.case) /\ me.number \in 1..(Cardinality(Of(me.case, me.row)) + 1)

StatementsOK ==
  /\ IsFiniteSet(versions) /\ Cardinality(versions) <= MaxVersions
  /\ \A c \in Cases :
       RowsOf(c) = 1..Cardinality(RowsOf(c)) /\ newest[c] \in RowsOf(c) \cup {0}
  /\ \A w \in Writers : WriterOK(w)

(* Saves that collide keep both texts, under numbers without gaps; with     *)
(* what requests and statements say of each other this is inductive.        *)
StatementsInv ==
  StatementsTypeOK /\ StatementsOK /\ AcknowledgedVersionIsKept /\ HistoryHasNoGaps
=============================================================================
