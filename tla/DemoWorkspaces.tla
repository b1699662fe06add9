---------------------------- MODULE DemoWorkspaces ----------------------------
(***************************************************************************)
(* Portfolio demo workspaces: visitors start or reset one, the API creates *)
(* it in a serializable transaction under a capacity, and the worker's     *)
(* cleanup deletes the objects and then the User row of expired ones.      *)
(***************************************************************************)
EXTENDS Environment, FiniteSets

CONSTANTS
  Visitors, Workspaces, Starts, Cleanups,  \* browsers, User rows, requests, batches
  Capacity,       \* PORTFOLIO_DEMO_MAX_ACTIVE_WORKSPACES
  DemoLifetime    \* PORTFOLIO_DEMO_TTL_MINUTES

ASSUME DemoAssumption ==
  /\ Capacity \in Nat /\ DemoLifetime \in Nat \ {0}
  /\ IsFiniteSet(Workspaces) /\ Null \notin Workspaces \cup Visitors

VARIABLES
  workspace,  \* workspace[w]: User row with its objects; owner is history
  created,    \* external: creations committed, PostgreSQL's serialization order
  start,      \* start[q]: a request for a workspace
  cleanup     \* cleanup[b]: a batch's progress on one workspace

demoVars == <<workspace, created, start, cleanup, clock>>

(* The objects that were stored while the workspace was active: such as a  *)
(* row named by then, and such as no row names, not yet or not any more.   *)
(* What is stored or named later, by requests admitted before the end, may *)
(* stay behind and is not counted.                                         *)
Objects == {"named", "unnamed"}

WorkspaceRows ==
  [status : {"ABSENT", "LIVE", "DELETED"}, visitor : Visitors \cup {Null},
   owner : Visitors \cup {Null}, expiresAt : Stamp, objects : SUBSET Objects]

StartStates ==
  [pc : {"idle", "find", "read", "commit", "again", "done"}, visitor : Visitors \cup {Null},
   now : Nat, attempt : 0 .. 1, created : Nat, mine : Workspaces \cup {Null},
   active : Nat, result : Workspaces \cup {Null}]

CleanupStates ==
  [pc : {"idle", "objects", "row"}, workspace : Workspaces \cup {Null}, expiresAt : Stamp,
   listed : SUBSET Objects]

DemoTypeOK ==
  /\ workspace \in [Workspaces -> WorkspaceRows]
  /\ created \in Nat
  /\ start \in [Starts -> StartStates]
  /\ cleanup \in [Cleanups -> CleanupStates]

NoStart == [pc |-> "idle", visitor |-> Null, now |-> 0, attempt |-> 0, created |-> 0,
            mine |-> Null, active |-> 0, result |-> Null]
NoCleanup == [pc |-> "idle", workspace |-> Null, expiresAt |-> Null, listed |-> {}]

DemoInit ==
  /\ workspace = [w \in Workspaces |-> [status |-> "ABSENT", visitor |-> Null, owner |-> Null,
                                        expiresAt |-> Null, objects |-> {}]]
  /\ created = 0
  /\ start = [q \in Starts |-> NoStart]
  /\ cleanup = [b \in Cleanups |-> NoCleanup]
  /\ clock = 0

DemoTick == ClockTick /\ UNCHANGED <<workspace, created, start, cleanup>>

ActiveAt(w, now) == workspace[w].status = "LIVE" /\ workspace[w].expiresAt > now

Finish(q, result) == start' = [start EXCEPT ![q].pc = "done", ![q].result = result]

-----------------------------------------------------------------------------
(* The API.                                                                *)

Startable(q) ==
  start[q].pc = "idle" /\ clock + DemoLifetime <= MaxClock  \* bound: it expires in time

StartWorkspace(q) ==
  /\ Startable(q)
  /\ \E v \in Visitors :
       start' = [start EXCEPT ![q].pc = "find", ![q].visitor = v, ![q].now = clock]
  /\ UNCHANGED <<workspace, created, cleanup, clock>>

Released(v) ==
  [w \in Workspaces |-> IF workspace[w].status = "LIVE" /\ workspace[w].visitor = v
                          THEN [workspace[w] EXCEPT !.visitor = Null, !.expiresAt = clock]
                          ELSE workspace[w]]

(* resetWorkspace: the visitor's workspace ends now; a new one is resolved.*)
Restart(q) ==
  /\ Startable(q)
  /\ \E v \in Visitors :
       /\ workspace' = Released(v)
       /\ start' = [start EXCEPT ![q].pc = "find", ![q].visitor = v, ![q].now = clock]
  /\ UNCHANGED <<created, cleanup, clock>>

(* Mutation: any active workspace will do.                                 *)
MineOrAnother(v, now) == {w \in Workspaces : ActiveAt(w, now)}

Mine(v, now) == {w \in Workspaces : ActiveAt(w, now) /\ workspace[w].visitor = v}

(* resolveWorkspace looks for the visitor's active workspace first.        *)
FindWorkspace(q) ==
  /\ start[q].pc = "find"
  /\ LET mine == Mine(start[q].visitor, start[q].now) IN
       \/ \E w \in mine : Finish(q, w)
       \/ mine = {} /\ start' = [start EXCEPT ![q].pc = "read"]
       \/ Faulty("database") /\ Finish(q, Null)
  /\ UNCHANGED <<workspace, created, cleanup, clock>>

(* The transaction's snapshot.                                             *)
ReadSnapshot(q) ==
  /\ start[q].pc = "read"
  /\ LET now == start[q].now
         mine == Mine(start[q].visitor, now) IN
       \E w \in IF mine = {} THEN {Null} ELSE mine :
         start' = [start EXCEPT ![q].pc = "commit", ![q].created = created, ![q].mine = w,
           ![q].active = Cardinality({x \in Workspaces : ActiveAt(x, now)})]
  /\ UNCHANGED <<workspace, created, cleanup, clock>>

(* Stale rows of the visitor give its hash up; the new row takes it.       *)
WithNew(q, w) ==
  LET v == start[q].visitor IN
  [x \in Workspaces |->
     IF x = w
       THEN [status |-> "LIVE", visitor |-> v, owner |-> v,
             expiresAt |-> start[q].now + DemoLifetime, objects |-> {}]
     ELSE IF workspace[x].status = "LIVE" /\ workspace[x].visitor = v
                /\ workspace[x].expiresAt <= start[q].now
       THEN [workspace[x] EXCEPT !.visitor = Null]
     ELSE workspace[x]]

(* Mutation: the transaction is not serializable.                          *)
SerializableAlways(q) == TRUE

Serializable(q) == created = start[q].created

(* createWorkspace commits what its snapshot decided; when another one has *)
(* committed since, PostgreSQL reports a conflict (P2034) or a duplicate   *)
(* hash (P2002).                                                           *)
CommitWorkspace(q) ==
  /\ start[q].pc = "commit"
  /\ \/ start[q].mine # Null /\ Finish(q, start[q].mine) /\ UNCHANGED <<workspace, created>>
     \/ /\ start[q].mine = Null /\ start[q].active >= Capacity
        /\ Finish(q, Null) /\ UNCHANGED <<workspace, created>>
     \/ /\ start[q].mine = Null /\ start[q].active < Capacity /\ Serializable(q)
        /\ \E w \in Workspaces :
             /\ workspace[w].status = "ABSENT"
             /\ workspace' = WithNew(q, w) /\ Finish(q, w)
        /\ created' = created + 1
     \/ /\ start[q].mine = Null /\ start[q].active < Capacity /\ ~Serializable(q)
        /\ \/ start' = [start EXCEPT ![q].pc = "again"]
           \/ /\ start[q].attempt = 0
              /\ start' = [start EXCEPT ![q].pc = "read", ![q].attempt = 1]
           \/ start[q].attempt = 1 /\ Finish(q, Null)
        /\ UNCHANGED <<workspace, created>>
     \/ /\ Faulty("database") \/ \A w \in Workspaces : workspace[w].status # "ABSENT"
        /\ Finish(q, Null) /\ UNCHANGED <<workspace, created>>
  /\ UNCHANGED <<cleanup, clock>>

(* After a duplicate hash: the concurrent workspace, or the error.         *)
FindConcurrent(q) ==
  /\ start[q].pc = "again"
  /\ LET mine == Mine(start[q].visitor, clock) IN
       \/ \E w \in mine : Finish(q, w)
       \/ (mine = {} \/ Faulty("database")) /\ Finish(q, Null)
  /\ UNCHANGED <<workspace, created, cleanup, clock>>

ObjectsBecome(w, objects) ==
  /\ workspace' = [workspace EXCEPT ![w].objects = objects]
  /\ UNCHANGED <<created, start, cleanup, clock>>

(* An upload: the document's row names the key before the object is put.   *)
StoreObject(w) == ActiveAt(w, clock) /\ ObjectsBecome(w, workspace[w].objects \cup {"named"})

(* The PDF of a packet and the verified copy of an upload are put first.   *)
StoreAhead(w) == ActiveAt(w, clock) /\ ObjectsBecome(w, workspace[w].objects \cup {"unnamed"})

Named(w) == IF ActiveAt(w, clock) THEN {"named"} ELSE {}

(* The transaction that names it.  It may fail, or never come: then the    *)
(* object stays unnamed, as others may that were left before.              *)
NameObject(w) ==
  /\ workspace[w].status = "LIVE" /\ "unnamed" \in workspace[w].objects
  /\ \E named \in SUBSET {"unnamed"} :
       ObjectsBecome(w, (workspace[w].objects \ named) \cup Named(w))

(* A document is removed, or its row turns from the staging key to the     *)
(* verified one: the old object is deleted, or stays when that fails.      *)
ForgetObject(w) ==
  /\ workspace[w].status = "LIVE" /\ "named" \in workspace[w].objects
  /\ \E stays \in SUBSET {"unnamed"}, others \in SUBSET {"named"} :
       ObjectsBecome(w, (workspace[w].objects \ {"named"}) \cup stays \cup others)

-----------------------------------------------------------------------------
(* The worker.                                                             *)

(* Mutation: workspaces that were reset are not looked for.                *)
ExpiredWithHash(w) ==
  workspace[w].status = "LIVE" /\ workspace[w].visitor # Null /\ workspace[w].expiresAt <= clock

Expired(w) == workspace[w].status = "LIVE" /\ workspace[w].expiresAt <= clock

(* The keys that rows of documents, versions and packet exports name.      *)
Listed(w) == workspace[w].objects \cap {"named"}

SelectExpired(b) ==
  /\ cleanup[b].pc = "idle"
  /\ \E w \in Workspaces :
       /\ Expired(w)
       /\ cleanup' = [cleanup EXCEPT ![b] =
            [pc |-> "objects", workspace |-> w, expiresAt |-> workspace[w].expiresAt,
             listed |-> Listed(w)]]
  /\ UNCHANGED <<workspace, created, start, clock>>

(* Mutation: a failed deletion does not keep the row.                      *)
DeleteObjectsAnyway(b) ==
  /\ cleanup[b].pc = "objects"
  /\ \/ workspace' = [workspace EXCEPT ![cleanup[b].workspace].objects = @ \ cleanup[b].listed]
     \/ Faulty("storage") /\ UNCHANGED workspace
  /\ cleanup' = [cleanup EXCEPT ![b].pc = "row"]
  /\ UNCHANGED <<created, start, clock>>

(* A failed deletion leaves the workspace to the next batch.               *)
DeleteObjects(b) ==
  /\ cleanup[b].pc = "objects"
  /\ \/ /\ workspace' = [workspace EXCEPT ![cleanup[b].workspace].objects = @ \ cleanup[b].listed]
        /\ cleanup' = [cleanup EXCEPT ![b].pc = "row"]
     \/ /\ Faulty("storage") /\ UNCHANGED workspace
        /\ cleanup' = [cleanup EXCEPT ![b] = NoCleanup]
  /\ UNCHANGED <<created, start, clock>>

DeleteRow(b) ==
  /\ cleanup[b].pc = "row"
  /\ LET w == cleanup[b].workspace
         same == workspace[w].status = "LIVE" /\ workspace[w].expiresAt = cleanup[b].expiresAt IN
       \/ same /\ workspace' = [workspace EXCEPT ![w].status = "DELETED", ![w].visitor = Null]
       \/ (~same \/ Faulty("database")) /\ UNCHANGED workspace
  /\ cleanup' = [cleanup EXCEPT ![b] = NoCleanup]
  /\ UNCHANGED <<created, start, clock>>

CrashCleanup(b) ==
  /\ cleanup[b].pc # "idle" /\ Faulty("crash")
  /\ cleanup' = [cleanup EXCEPT ![b] = NoCleanup]
  /\ UNCHANGED <<workspace, created, start, clock>>

CleanupStep(b) == SelectExpired(b) \/ DeleteObjects(b) \/ DeleteRow(b)

DemoNext ==
  \/ DemoTick
  \/ \E q \in Starts : StartWorkspace(q) \/ Restart(q) \/ FindWorkspace(q) \/ ReadSnapshot(q)
                       \/ CommitWorkspace(q) \/ FindConcurrent(q)
  \/ \E w \in Workspaces : StoreObject(w) \/ StoreAhead(w) \/ NameObject(w) \/ ForgetObject(w)
  \/ \E b \in Cleanups : CleanupStep(b) \/ CrashCleanup(b)

DemoSpec == DemoInit /\ [][DemoNext]_demoVars

(* The batch is scheduled every few minutes, and time passes.              *)
DemoFairness ==
  /\ WF_demoVars(DemoTick)
  /\ \A b \in Cleanups : WF_demoVars(CleanupStep(b))

DemoFairSpec == DemoSpec /\ DemoFairness

-----------------------------------------------------------------------------
(* Properties.                                                             *)

(* Concurrent starts, retries and resets never exceed the capacity.        *)
CapacityHolds == Cardinality({w \in Workspaces : ActiveAt(w, clock)}) <= Capacity

(* A visitor has one active workspace, also after resets that overlap with *)
(* starts.                                                                 *)
OneWorkspacePerVisitor ==
  \A v, w \in Workspaces :
    ActiveAt(v, clock) /\ ActiveAt(w, clock) /\ workspace[v].owner = workspace[w].owner => v = w

(* Who is given a workspace, found, created or made by a concurrent        *)
(* request, is given the visitor's own.                                    *)
OwnWorkspace ==
  \A q \in Starts :
    start[q].result # Null => workspace[start[q].result].owner = start[q].visitor

(* A deleted workspace leaves no object behind that its rows had named     *)
(* while it was active and still named at the end, whatever deletions      *)
(* failed and batches overlapped.                                          *)
NothingIsLeftBehind ==
  \A w \in Workspaces : workspace[w].status = "DELETED" => "named" \notin workspace[w].objects

(* docs/architecture.md:118: reset "lets the cleanup worker remove         *)
(* visitor-created storage before deleting the old records": all of what   *)
(* was stored while the workspace was active.                              *)
NoStorageOutlivesWorkspace ==
  \A w \in Workspaces : workspace[w].status = "DELETED" => workspace[w].objects = {}

(* The hash is the owner's or was given up, and it is not given up while   *)
(* the workspace is active.                                                *)
WorkspaceOK(w) ==
  /\ workspace[w].visitor \in {workspace[w].owner, Null}
  /\ workspace[w].status = "LIVE" => workspace[w].expiresAt # Null
  /\ ActiveAt(w, clock) => workspace[w].visitor # Null

ActiveNow == {w \in Workspaces : ActiveAt(w, clock)}

IsOf(w, v) == workspace[w].status # "ABSENT" /\ workspace[w].owner = v

(* What a transaction has read still holds when it commits, unless another *)
(* one has committed since: resets, deletions and time only make room.     *)
SnapshotHolds(q) ==
  start[q].created = created =>
    /\ Cardinality(ActiveNow) <= start[q].active
    /\ start[q].mine = Null => \A w \in ActiveNow : workspace[w].owner # start[q].visitor

StartOK(q) ==
  /\ start[q].now <= clock
  /\ start[q].pc # "idle" => start[q].visitor \in Visitors
  /\ start[q].pc # "done" => start[q].result = Null
  /\ start[q].result # Null => IsOf(start[q].result, start[q].visitor)
  /\ start[q].pc = "commit" =>
       /\ start[q].created <= created
       /\ start[q].mine # Null => IsOf(start[q].mine, start[q].visitor)
       /\ SnapshotHolds(q)

(* A workspace that is being deleted stays expired, and what its rows had  *)
(* named while it was active is on the batch's list, and then gone.        *)
CleanupOK(b) ==
  LET w == cleanup[b].workspace IN
  /\ cleanup[b].pc # "idle" =>
       /\ w \in Workspaces /\ workspace[w].status # "ABSENT" /\ ~ActiveAt(w, clock)
  /\ cleanup[b].pc = "objects" => workspace[w].objects \cap {"named"} \subseteq cleanup[b].listed
  /\ cleanup[b].pc = "row" => "named" \notin workspace[w].objects

(* However transactions, retries, resets and batches interleave: no more    *)
(* workspaces than there is room for, one to a visitor, everybody in their *)
(* own, and no deletion leaves behind what rows named.  What rows,         *)
(* requests and batches say of each other makes this inductive.            *)
DemoInv ==
  /\ DemoTypeOK /\ clock \in Nat
  /\ CapacityHolds /\ OneWorkspacePerVisitor /\ OwnWorkspace /\ NothingIsLeftBehind
  /\ \A w \in Workspaces : WorkspaceOK(w)
  /\ \A q \in Starts : StartOK(q)
  /\ \A b \in Cleanups : CleanupOK(b)

(* Every workspace is deleted in the end, the ones that were reset, and    *)
(* whatever crashed or failed, once nothing fails any more.                *)
WorkspacesAreReclaimed ==
  \A w \in Workspaces : workspace[w].status = "LIVE" ~> workspace[w].status = "DELETED"
=============================================================================
