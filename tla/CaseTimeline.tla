------------------------------ MODULE CaseTimeline ------------------------------
(***************************************************************************)
(* The timeline of one case: manual events that are created, edited,       *)
(* deleted and put in order, and events that are generated from the        *)
(* evidence and replaced by every analysis.                                *)
(***************************************************************************)
EXTENDS Environment, FiniteSets

CONSTANTS
  Changes,   \* requests that change the timeline
  Dated,     \* processed documents with a date in them
  DayOf,     \* DayOf[d]: that date
  Days       \* days an event may have

(* A manual event is known by the request that made it, a generated one     *)
(* also by its document.                                                    *)
Ids == [request : Changes, document : Dated \cup {Null}]

ASSUME TimelineAssumption ==
  /\ Days \subseteq Nat /\ DayOf \in [Dated -> Days] /\ IsFiniteSet(Dated)
  /\ Null \notin Changes \cup Dated \cup Ids

VARIABLES
  events,    \* CaseEvent: [id, order, day, made]; made: the analysis, or Null when manual
  readable,  \* documents that are PROCESSED
  change,    \* change[q]: a request, with what it read
  arranged,  \* history: somebody put events in another order or gave one another day
  overtaken  \* history: a request wrote after another that committed since it read

timelineVars == <<events, readable, change, arranged, overtaken, clock>>

Events == [id : Ids, order : Nat, day : Days, made : Changes \cup {Null}]

(* The places a request gives to some events.                              *)
Orders == UNION {[S -> Nat] : S \in SUBSET Ids}

ChangeStates ==
  [pc : {"idle", "insert", "edit", "remove", "arrange", "clear", "derive", "done"},
   day : Days \cup {Null}, event : Ids \cup {Null}, slot : Nat, wanted : Orders \cup {Null},
   found : SUBSET Dated, seen : SUBSET Ids, late : BOOLEAN]

TimelineTypeOK ==
  /\ events \subseteq Events /\ readable \subseteq Dated
  /\ \A q \in Changes :
       /\ change[q].pc \in {"idle", "insert", "edit", "remove", "arrange", "clear", "derive", "done"}
       /\ change[q].day \in Days \cup {Null} /\ change[q].event \in Ids \cup {Null}
       /\ change[q].slot \in Nat /\ change[q].found \subseteq Dated
       /\ change[q].seen \subseteq Ids /\ change[q].late \in BOOLEAN
  /\ arranged \in BOOLEAN /\ overtaken \in BOOLEAN

NoChange == [pc |-> "idle", day |-> Null, event |-> Null, slot |-> 0, wanted |-> Null,
             found |-> {}, seen |-> {}, late |-> FALSE]

TimelineInit ==
  /\ events = {} /\ readable = {}
  /\ change = [q \in Changes |-> NoChange]
  /\ arranged = FALSE /\ overtaken = FALSE
  /\ clock = 0

Listed(ids) == {e \in events : e.id \in ids}
Present == {e.id : e \in events}
Least(S) == CHOOSE n \in S : \A m \in S : n <= m
Greatest(S) == CHOOSE n \in S : \A m \in S : m <= n

Ask(q, request) ==
  /\ change[q].pc = "idle"
  /\ change' = [change EXCEPT ![q] = request]

(* What q commits, the requests that are still under way have not read.     *)
Settle(q) ==
  /\ change' = [p \in Changes |->
       IF p = q THEN [NoChange EXCEPT !.pc = "done"]
       ELSE [change[p] EXCEPT !.late = @ \/ change[p].pc \notin {"idle", "done"}]]
  /\ overtaken' = (overtaken \/ change[q].late)

Refuse(q) ==
  /\ change' = [change EXCEPT ![q] = [NoChange EXCEPT !.pc = "done"]]
  /\ UNCHANGED <<events, arranged, overtaken>>

-----------------------------------------------------------------------------
Later(day) == {e.order : e \in {f \in events : f.day > day}}

(* Mutation: the slot is the one after the earlier events.                  *)
SlotAtEnd(day) ==
  IF events = {} THEN 0 ELSE Greatest({e.order : e \in events}) + 1

(* create: the first event in order that is of a later day, else the end.   *)
Slot(day) ==
  IF Later(day) # {} THEN Least(Later(day))
  ELSE IF events = {} THEN 0 ELSE Greatest({e.order : e \in events}) + 1

CreateEvent(q) ==
  /\ \E day \in Days :
       Ask(q, [NoChange EXCEPT !.pc = "insert", !.day = day, !.slot = Slot(day),
                               !.event = IF Later(day) = {} THEN Null
                                         ELSE [request |-> q, document |-> Null]])
  /\ UNCHANGED <<events, readable, arranged, overtaken, clock>>

(* Mutation: no slot is opened.                                             *)
OpenedNever(q) == events

(* "Open a single slot so existing custom ordering remains stable."         *)
Opened(q) ==
  IF change[q].event = Null THEN events
  ELSE {[e EXCEPT !.order = IF @ >= change[q].slot THEN @ + 1 ELSE @] : e \in events}

InsertEvent(q) ==
  /\ change[q].pc = "insert"
  /\ \/ /\ events' = Opened(q) \cup
             {[id |-> [request |-> q, document |-> Null], order |-> change[q].slot,
               day |-> change[q].day, made |-> Null]}
        /\ Settle(q) /\ UNCHANGED arranged
     \/ Faulty("database") /\ Refuse(q)
  /\ UNCHANGED <<readable, clock>>

(* update and remove: the event is found, then written by its id.           *)
FindEvent(q) ==
  /\ \E e \in events, pc \in {"edit", "remove"}, day \in Days :
       Ask(q, [NoChange EXCEPT !.pc = pc, !.event = e.id, !.day = day])
  /\ UNCHANGED <<events, readable, arranged, overtaken, clock>>

(* Editing an event leaves its place as it is, and what made it.            *)
EditEvent(q) ==
  /\ change[q].pc = "edit"
  /\ \/ /\ change[q].event \in Present
        /\ events' = {IF e.id = change[q].event THEN [e EXCEPT !.day = change[q].day] ELSE e
                        : e \in events}
        /\ arranged' = TRUE /\ Settle(q)
     \/ change[q].event \notin Present /\ Refuse(q)
  /\ UNCHANGED <<readable, clock>>

RemoveEvent(q) ==
  /\ change[q].pc = "remove"
  /\ \/ /\ change[q].event \in Present
        /\ events' = events \ Listed({change[q].event})
        /\ Settle(q) /\ UNCHANGED arranged
     \/ change[q].event \notin Present /\ Refuse(q)
  /\ UNCHANGED <<readable, clock>>

(* reorder: the request lists every event of the case once.                 *)
ReorderEvents(q) ==
  /\ events # {}
  /\ \E wanted \in [Present -> 0..(Cardinality(events) - 1)] :
       /\ \A a, b \in Present : a # b => wanted[a] # wanted[b]
       /\ Ask(q, [NoChange EXCEPT !.pc = "arrange", !.wanted = wanted])
  /\ UNCHANGED <<events, readable, arranged, overtaken, clock>>

(* Each is written by its id; one that is gone rolls everything back.       *)
ArrangeEvents(q) ==
  /\ change[q].pc = "arrange"
  /\ LET wanted == change[q].wanted
     IN \/ /\ DOMAIN wanted \subseteq Present
           /\ events' = {IF e.id \in DOMAIN wanted THEN [e EXCEPT !.order = wanted[e.id]] ELSE e
                           : e \in events}
           /\ arranged' = TRUE /\ Settle(q)
        \/ ~(DOMAIN wanted \subseteq Present) /\ Refuse(q)
  /\ UNCHANGED <<readable, clock>>

-----------------------------------------------------------------------------
(* analyze: the evidence is read, then the generated events are deleted and *)
(* generated again, and all events are put in the order of their days.      *)

EvidenceRead(d) ==
  /\ d \notin readable /\ readable' = readable \cup {d}
  /\ UNCHANGED <<events, change, arranged, overtaken, clock>>

AnalyzeTimeline(q) ==
  /\ Ask(q, [NoChange EXCEPT !.pc = "clear", !.found = readable])
  /\ UNCHANGED <<events, readable, arranged, overtaken, clock>>

(* Mutation: whatever has a source is taken for generated.                  *)
GeneratedOrNot == Present

Generated == {e.id : e \in {f \in events : f.made # Null}}

(* deleteMany removes the generated events that are committed by now.       *)
ClearGenerated(q) ==
  /\ change[q].pc = "clear"
  /\ change' = [change EXCEPT ![q].pc = "derive", ![q].seen = Generated]
  /\ UNCHANGED <<events, readable, arranged, overtaken, clock>>

Derived(q) ==
  {[id |-> [request |-> q, document |-> d], order |-> 0, day |-> DayOf[d], made |-> q]
     : d \in change[q].found}

(* The orders by day; the moments of creation decide between equal days.    *)
Chronological(E) ==
  {o \in [{e.id : e \in E} -> 0..(Cardinality(E) - 1)] :
     \A a, b \in E : (a.day < b.day => o[a.id] < o[b.id]) /\ (a.id # b.id => o[a.id] # o[b.id])}

DeriveEvents(q) ==
  /\ change[q].pc = "derive"
  /\ \/ /\ LET all == (events \ Listed(change[q].seen)) \cup Derived(q)
           IN \E order \in Chronological(all) :
                events' = {[e EXCEPT !.order = order[e.id]] : e \in all}
        /\ arranged' = FALSE /\ Settle(q)
     \/ Faulty("database") /\ Refuse(q)
  /\ UNCHANGED <<readable, clock>>

ChangeStep(q) ==
  InsertEvent(q) \/ EditEvent(q) \/ RemoveEvent(q) \/ ArrangeEvents(q)
    \/ ClearGenerated(q) \/ DeriveEvents(q)

TimelineNext ==
  \/ \E q \in Changes :
       CreateEvent(q) \/ FindEvent(q) \/ ReorderEvents(q) \/ AnalyzeTimeline(q) \/ ChangeStep(q)
  \/ \E d \in Dated : EvidenceRead(d)

TimelineSpec == TimelineInit /\ [][TimelineNext]_timelineVars

-----------------------------------------------------------------------------
(* Properties.                                                              *)

(* The timeline reads in the order of the days, every event in a place of   *)
(* its own, until somebody puts it in another order or requests overlap:    *)
(* creation "at its chronological insertion point", deletion and analysis   *)
(* keep it so (create, analyze).                                            *)
ReadsInOrder ==
  ~arranged /\ ~overtaken =>
    \A a, b \in events : a.id # b.id =>
      a.order # b.order /\ (a.day < b.day => a.order < b.order)

OwnPlaces(E) == \A a, b \in E : a.id # b.id => a.order # b.order

(* An order that was put by hand is kept: creating or deleting an event     *)
(* moves no two others past each other, and a new one gets a place of its   *)
(* own, unless requests overlap.                                            *)
CustomOrderIsStable ==
  arranged /\ ~overtaken' /\ (\E q \in Changes : InsertEvent(q) \/ RemoveEvent(q)) =>
    /\ OwnPlaces(events) => OwnPlaces(events')
    /\ \A a, b \in events, x, y \in events' :
         x.id = a.id /\ y.id = b.id /\ a.order < b.order => x.order < y.order

(* What was entered by hand stays until somebody deletes it, however        *)
(* analyses overlap: "preserving manual entries" (analyze).                 *)
ManualEntriesArePreserved ==
  \A e \in events : e.made = Null /\ e.id \notin {f.id : f \in events'} =>
    \E q \in Changes : change[q].pc = "remove" /\ change[q].event = e.id

(* An event is known by its id, a manual one by having no document.        *)
EventsOK ==
  /\ IsFiniteSet(events)
  /\ \A e \in events : change[e.id.request].pc = "done" /\ (e.made = Null <=> e.id.document = Null)
  /\ \A e, f \in events : e.id = f.id => e = f

(* What a request holds: a place that was found is the place still, unless *)
(* another request committed since.                                        *)
ChangesOK ==
  \A q \in Changes :
    /\ change[q].pc \in {"insert", "edit"} => change[q].day \in Days
    /\ change[q].pc = "insert" /\ ~change[q].late =>
         /\ change[q].slot = Slot(change[q].day)
         /\ change[q].event = Null <=> Later(change[q].day) = {}
    /\ \A id \in change[q].seen : id.document # Null

(* Whatever analyses and requests do: the timeline reads by the days, or    *)
(* in the order it was given by hand.                                       *)
TimelineInv == TimelineTypeOK /\ ReadsInOrder /\ EventsOK /\ ChangesOK

(* However requests overlap: an order put by hand stays, and so does what   *)
(* was entered by hand.                                                     *)
TimelineIsKept == [][CustomOrderIsStable /\ ManualEntriesArePreserved]_timelineVars
=============================================================================
