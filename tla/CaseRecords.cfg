SPECIFICATION MCSpec
CONSTANTS
  i1 = i1
  e1 = e1
  e2 = e2
  t1 = t1
  t2 = t2
  q1 = q1
  q2 = q2
  q3 = q3
  c1 = c1
  c2 = c2
  r1 = r1
  r2 = r2
  helpdesk = helpdesk
  notice = notice
  m1 = m1
  m2 = m2
  Chores = {c1, c2}
  Sends = {r1, r2}
  NoChore = Null
  Talks = {helpdesk, notice}
  SupportTalks = {helpdesk}
  Markings = {m1, m2}
  MaxLoads = 1
  NoTalk = Null
  Focus = {"progress", "timeline", "tasks", "inbox", "clone"}
  Items = {i1}
  Evidence = {e1, e2}
  Supports <- MCSupports
  Optional = {}
  Explanation = {}
  Outcomes = {"SUBMITTED", "ACTION_REQUIRED", "APPROVED"}
  Edits = {q1, q2, q3}
  MaxRounds = 2
  Changes = {q1, q2, q3}
  Dated = {t1, t2}
  DayOf <- MCDayOf
  Days = {1, 2}
  DemoCases = {"caseA", "caseB"}
  DemoItems = {"item1", "item2"}
  DemoEvents = {"event1", "event2"}
  Documents = {"doc1"}
  Remarks = {"thread", "mail"}
  Threads = {"thread"}
  Null = Null
  Nothing = Nothing
  Faults = {"database"}
  MaxClock = 0
  Repaired = 1
CHECK_DEADLOCK FALSE
SYMMETRY Symmetry
INVARIANTS
  RecordsInv
PROPERTIES
  TimelineIsKept
  OnlyLateWritesUndo
