------------------------------ MODULE MCRecords -------------------------------
(* Instances for TLC of what concurrent requests make of a case: checklist *)
(* and submissions, timeline, the lists of tasks and conversations, and    *)
(* the copy a demo workspace starts from.  They share nothing but the      *)
(* clock, so a behaviour is one of a single component, in Focus, while the *)
(* others rest.                                                            *)
EXTENDS CaseProgress, CaseTimeline, TaskBoard, InboxPanel, DemoClone, TLC

CONSTANTS Focus, i1, e1, e2, t1, t2, q1, q2, q3,
  c1, c2, r1, r2, helpdesk, notice, m1, m2

VARIABLE part  \* the component that runs

progress == <<appeal, ready, deleted, checklist, matches, round, edit, stale, moved>>
timeline == <<events, readable, change, arranged, overtaken>>
boards == <<taskVars, inboxVars>>

(* A request has the same name in two components, q; as only one component *)
(* runs, the files of one and the requests of two others may change places *)
(* together.                                                               *)
Places == e1 :> e2 @@ e2 :> e1 @@ r1 :> r2 @@ r2 :> r1 @@ m1 :> m2 @@ m2 :> m1
Symmetry == Permutations(Edits) \cup {Places}

MCSupports == e1 :> {i1} @@ e2 :> {i1}
MCDayOf == t1 :> 1 @@ t2 :> 2

MCInit ==
  /\ part \in Focus
  /\ ProgressInit /\ TimelineInit /\ TaskInit /\ InboxInit
  /\ part # "tasks" => kept = NoRows
  /\ part # "inbox" => talk = NoList.rows
  /\ IF part = "clone" THEN CloneInit
     ELSE template = Nothing /\ copy = Nothing

MCNext ==
  /\ UNCHANGED part
  /\ \/ part = "progress" /\ ProgressNext /\ UNCHANGED <<timeline, boards, cloneVars>>
     \/ part = "timeline" /\ TimelineNext /\ UNCHANGED <<progress, boards, cloneVars>>
     \/ /\ UNCHANGED <<progress, timeline, clock>>
        /\ \/ part = "tasks" /\ TaskNext /\ UNCHANGED <<inboxVars, cloneVars>>
           \/ part = "inbox" /\ InboxNext /\ UNCHANGED <<taskVars, cloneVars>>
           \/ part = "clone" /\ CloneUserData /\ UNCHANGED boards

MCSpec ==
  MCInit /\ [][MCNext]_<<part, progress, timeline, boards, cloneVars, clock>>

(* However the requests of a case overlap, its checklist, its status and    *)
(* its timeline agree with its records; a copy agrees with its template;    *)
(* and the lists of tasks and conversations with what is stored.            *)
RecordsInv ==
  CASE part = "progress" -> ProgressInv
    [] part = "timeline" -> TimelineInv
    [] part = "clone" -> CopyIsFaithful
    [] part = "tasks" -> TaskInv
    [] part = "inbox" -> InboxInv
    [] OTHER -> FALSE
=============================================================================
