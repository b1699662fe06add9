-------------------------------- MODULE DemoClone --------------------------------
(***************************************************************************)
(* What a new demo workspace is a copy of: cloneUserData walks through the *)
(* template user's cases and what belongs to them, gives every row a new   *)
(* id and replaces the references between rows through maps of old ids to  *)
(* new ones.  Rows are told apart by their references, not their contents. *)
(***************************************************************************)
EXTENDS FiniteSets

CONSTANTS
  DemoCases,                     \* cases of the template user
  DemoItems, DemoEvents, Documents,  \* checklist items, timeline events, documents
  Remarks,                       \* threads, support requests, notifications, audit entries
  Threads,                       \* those of them that need a case
  Nothing                        \* no such reference

(* A new id is a reference.                                                 *)
New(id) == <<"new", id>>

ASSUME CloneAssumption ==
  /\ Threads \subseteq Remarks /\ Nothing \notin DemoCases \cup DemoItems
  /\ \A id \in DemoCases \cup DemoItems : New(id) # Nothing
  /\ IsFiniteSet(DemoItems) /\ IsFiniteSet(DemoEvents) /\ IsFiniteSet(Documents)

VARIABLES
  template,  \* the template user's rows
  copy       \* the new user's rows, or Nothing

cloneVars == <<template, copy>>

(* match: documents with the requirement they meet and, if any, the item.   *)
Templates ==
  [live : SUBSET DemoCases, case : [DemoItems \cup DemoEvents \cup Documents -> DemoCases],
   match : SUBSET (Documents \X (DemoItems \cup {Nothing})),
   source : SUBSET (Documents \X DemoEvents),
   remark : [Remarks -> DemoCases \cup {Nothing}]]

(* The API only relates rows of one case, and a thread always has one.      *)
Consistent(t) ==
  /\ \A p \in t.match : p[2] # Nothing => t.case[p[1]] = t.case[p[2]]
  /\ \A p \in t.source : t.case[p[1]] = t.case[p[2]]
  /\ \A r \in Threads : t.remark[r] # Nothing

CloneInit == template \in {t \in Templates : Consistent(t)} /\ copy = Nothing

-----------------------------------------------------------------------------
(* Only cases that are not archived are read.                               *)
CaseIds == [c \in template.live |-> New(c)]

In(c, rows) == {r \in rows : template.case[r] = c}

DemoIds(rows) == [r \in rows |-> New(r)]

Mapped(ids, id) == IF id \in DOMAIN ids THEN ids[id] ELSE Nothing

(* Mutation: the item keeps its old id.                                     *)
MatchesUnmapped(c) ==
  {<<New(p[1]), p[2]>> : p \in {q \in template.match : template.case[q[1]] = c}}

(* Mutation: a match without an item is skipped.                            *)
MatchesOfItems(c) ==
  LET itemIds == DemoIds(In(c, DemoItems))
  IN {<<New(p[1]), Mapped(itemIds, p[2])>> :
        p \in {q \in template.match : template.case[q[1]] = c /\ q[2] # Nothing}}

(* A match of an item that was not copied is skipped.                       *)
MatchesOf(c) ==
  LET itemIds == DemoIds(In(c, DemoItems))
  IN {<<New(p[1]), Mapped(itemIds, p[2])>> :
        p \in {q \in template.match : /\ template.case[q[1]] = c
                                      /\ q[2] # Nothing => q[2] \in DOMAIN itemIds}}

SourcesOf(c) ==
  LET eventIds == DemoIds(In(c, DemoEvents))
  IN {<<New(p[1]), eventIds[p[2]]>> :
        p \in {q \in template.source : template.case[q[1]] = c /\ q[2] \in DOMAIN eventIds}}

(* Remarks about a case that was not copied are skipped.                    *)
CopiedRemarks == {r \in Remarks : template.remark[r] \in DOMAIN CaseIds \cup {Nothing}}

CloneUserData ==
  /\ copy = Nothing
  /\ copy' =
       [live |-> {CaseIds[c] : c \in template.live},
        case |-> [r \in UNION {{New(x) : x \in In(c, DemoItems \cup DemoEvents \cup Documents)}
                                 : c \in template.live} |-> CaseIds[template.case[r[2]]]],
        match |-> UNION {MatchesOf(c) : c \in template.live},
        source |-> UNION {SourcesOf(c) : c \in template.live},
        remark |-> [r \in {New(x) : x \in CopiedRemarks} |->
                      Mapped(CaseIds, template.remark[r[2]])]]
  /\ UNCHANGED template

CloneSpec == CloneInit /\ [][CloneUserData]_cloneVars

-----------------------------------------------------------------------------
(* A workspace is isolated: no row of the copy refers to a row of the       *)
(* template, which its visitor would see, or change for everybody else.     *)
CopyStandsAlone ==
  copy # Nothing =>
    LET rows == DOMAIN copy.case
    IN /\ \A r \in rows : copy.case[r] \in copy.live
       /\ \A p \in copy.match : p[1] \in rows /\ p[2] \in rows \cup {Nothing}
       /\ \A p \in copy.source : p[1] \in rows /\ p[2] \in rows
       /\ \A r \in DOMAIN copy.remark : copy.remark[r] \in copy.live \cup {Nothing}
       /\ \A r \in DOMAIN copy.remark : r[2] \in Threads => copy.remark[r] # Nothing

Living(row) == template.case[row] \in template.live

(* The copy is complete: what relates rows of the cases that were copied is *)
(* related in the copy (docs/architecture.md:118).                          *)
CopyIsComplete ==
  copy # Nothing =>
    /\ Cardinality(copy.match) = Cardinality({p \in template.match : Living(p[1])})
    /\ Cardinality(copy.source) = Cardinality({p \in template.source : Living(p[1])})

(* The copy of a template is complete and stands alone.                     *)
CopyIsFaithful == CopyStandsAlone /\ CopyIsComplete
=============================================================================
