------------------------------ MODULE Workspace -------------------------------
(***************************************************************************)
(* The workspace of one browser tab: who is signed in, the case records it *)
(* caches, the selected case and the case of the URL.  Every view asks the *)
(* API on its own; replies arrive in any order, and whatever a reply asks  *)
(* for is applied when it arrives.                                         *)
(***************************************************************************)
EXTENDS Environment

CONSTANTS
  People, Records,   \* accounts, cases
  Access,            \* Access[u]: the cases u may open
  Slots,             \* bound: requests under way at once
  MaxGestures        \* bound: what users and background work begin

ASSUME WorkspaceAssumption ==
  MaxGestures \in Nat /\ Access \in [People -> SUBSET Records]

VARIABLES
  user,      \* the user state of the session hook
  cookie,    \* the session the server sees
  cached,    \* cases
  chosen,    \* selectedCaseId
  route,     \* the case of the path
  timer,     \* the effect that follows the path has scheduled a load
  fetch,     \* fetch[s]: a request under way
  archived,  \* Case.archivedAt is set
  gestures

workspaceVars == <<user, cookie, cached, chosen, route, timer, fetch, archived, gestures, clock>>

MaybeRecord == Records \cup {Null}

Kinds == {"none", "sync", "changed", "open", "list", "login", "logout", "archive", "archiveChosen"}
Archiving == {"archive", "archiveChosen"}

WorkspaceTypeOK ==
  /\ user \in People \cup {Null} /\ cookie \in People \cup {Null}
  /\ cached \subseteq Records /\ chosen \in MaybeRecord /\ route \in MaybeRecord
  /\ timer \in BOOLEAN /\ archived \subseteq Records /\ gestures \in 0..MaxGestures
  /\ fetch \in [Slots -> [kind : Kinds, pc : {"sent", "ok", "error"}, case : MaybeRecord,
                          by : People \cup {Null}, data : SUBSET Records]]

Silent == [kind |-> "none", pc |-> "sent", case |-> Null, by |-> Null, data |-> {}]

WorkspaceInit ==
  /\ user = Null /\ cookie = Null /\ cached = {} /\ chosen = Null
  /\ route \in MaybeRecord /\ timer = FALSE
  /\ fetch = [s \in Slots |-> Silent]
  /\ archived = {} /\ gestures = 0 /\ clock = 0

Sent(s, kind, c) ==
  /\ fetch[s].kind = "none"
  /\ fetch' = [fetch EXCEPT ![s] = [Silent EXCEPT !.kind = kind, !.case = c]]

Gesture == gestures < MaxGestures /\ gestures' = gestures + 1

(* Mutation: the effect does not depend on the selection.                    *)
FollowPathOnly ==
  timer' = IF <<user', route'>> = <<user, route>> THEN timer
           ELSE user' # Null /\ route' # Null /\ route' # chosen'

(* The effect runs when the user, the path or the selection changes, and    *)
(* only then; its clean-up clears the timer.                                *)
FollowPath ==
  timer' = IF <<user', route', chosen'>> = <<user, route, chosen>> THEN timer
           ELSE user' # Null /\ route' # Null /\ route' # chosen'

-----------------------------------------------------------------------------
(* What begins: navigation, clicks, background work, signing in and out.     *)

Navigate(c) ==
  /\ user # Null /\ route # c /\ route' = c
  /\ UNCHANGED <<user, cookie, cached, chosen, fetch, archived>>

(* handleOpenCase, onOpenCase of every list.                                *)
OpenCase(s, c) ==
  /\ user # Null /\ c \in cached /\ Sent(s, "open", c) /\ chosen' = c
  /\ UNCHANGED <<user, cookie, cached, route, archived>>

(* onCaseChanged: an upload, a poll or a save that ended refreshes its case. *)
CaseChanged(s, c) ==
  /\ user # Null /\ c \in cached /\ Sent(s, "changed", c)
  /\ UNCHANGED <<user, cookie, cached, chosen, route, archived>>

(* handleArchiveCase filters the list it saw when it began, and goes on to   *)
(* the next case if it archives what was selected then.                     *)
ArchiveRecord(s, c) ==
  /\ user # Null /\ c \in cached /\ fetch[s].kind = "none"
  /\ fetch' = [fetch EXCEPT ![s] =
                 [Silent EXCEPT !.kind = IF chosen = c THEN "archiveChosen" ELSE "archive",
                                !.case = c, !.data = cached \ {c}]]
  /\ UNCHANGED <<user, cookie, cached, chosen, route, archived>>

SignIn(s, u) ==
  /\ user = Null /\ fetch[s].kind = "none"
  /\ fetch' = [fetch EXCEPT ![s] = [Silent EXCEPT !.kind = "login", !.by = u]]
  /\ UNCHANGED <<user, cookie, cached, chosen, route, archived>>

SignOut(s) ==
  /\ user # Null /\ Sent(s, "logout", Null)
  /\ UNCHANGED <<user, cookie, cached, chosen, route, archived>>

Begin ==
  /\ Gesture
  /\ \/ \E c \in MaybeRecord : Navigate(c)
     \/ \E s \in Slots, c \in Records :
          OpenCase(s, c) \/ CaseChanged(s, c) \/ ArchiveRecord(s, c)
     \/ \E s \in Slots : SignOut(s) \/ \E u \in People : SignIn(s, u)
  /\ FollowPath

(* The timer of the effect.                                                 *)
LoadRoute(s) ==
  /\ timer /\ Sent(s, "sync", route) /\ timer' = FALSE
  /\ UNCHANGED <<user, cookie, cached, chosen, route, archived, gestures>>

-----------------------------------------------------------------------------
(* The server: the session decides at the time it handles the request.       *)

Open(u) == IF u = Null THEN {} ELSE Access[u] \ archived

Granted(s) == fetch[s].case \in Open(cookie)

Answered(s, ok, data) ==
  fetch' = [fetch EXCEPT ![s].pc = IF ok THEN "ok" ELSE "error", ![s].data = data]

Serves(s) ==
  /\ fetch[s].kind # "none" /\ fetch[s].pc = "sent"
  /\ CASE fetch[s].kind \in {"sync", "changed", "open"} ->
            Answered(s, Granted(s), {fetch[s].case}) /\ UNCHANGED <<cookie, archived>>
       [] fetch[s].kind = "list" ->
            Answered(s, cookie # Null, Open(cookie)) /\ UNCHANGED <<cookie, archived>>
       [] fetch[s].kind = "login" ->
            Answered(s, TRUE, {}) /\ cookie' = fetch[s].by /\ UNCHANGED archived
       [] fetch[s].kind = "logout" ->
            Answered(s, TRUE, {}) /\ cookie' = Null /\ UNCHANGED archived
       [] fetch[s].kind \in Archiving ->
            /\ Answered(s, Granted(s), fetch[s].data) /\ UNCHANGED cookie
            /\ archived' = IF Granted(s) THEN archived \cup {fetch[s].case} ELSE archived
  /\ UNCHANGED <<user, cached, chosen, route, timer, gestures>>

-----------------------------------------------------------------------------
(* Replies.                                                                 *)

Hush(s) == fetch' = [fetch EXCEPT ![s] = Silent]
Ask(s, kind, c) == fetch' = [fetch EXCEPT ![s] = [Silent EXCEPT !.kind = kind, !.case = c]]

(* loadCaseDetail caches and selects what it was asked for.                  *)
DetailArrives(s) ==
  /\ fetch[s].kind \in {"sync", "changed", "open"} /\ fetch[s].pc = "ok"
  /\ cached' = cached \cup fetch[s].data /\ chosen' = fetch[s].case
  /\ route' = IF fetch[s].kind = "open" THEN fetch[s].case ELSE route
  /\ Hush(s)
  /\ UNCHANGED user

(* A case of the path that cannot be loaded: the list of cases is shown.     *)
DetailFails(s) ==
  /\ fetch[s].kind \in {"sync", "changed", "open"} /\ fetch[s].pc = "error"
  /\ route' = IF fetch[s].kind = "sync" THEN Null ELSE route
  /\ Hush(s)
  /\ UNCHANGED <<user, cached, chosen>>

First(data) == IF data = {} THEN Null ELSE CHOOSE c \in data : TRUE

(* loadCases, and the detail of the first case after it.                     *)
ListArrives(s) ==
  /\ fetch[s].kind = "list"
  /\ IF fetch[s].pc = "ok"
     THEN /\ cached' = fetch[s].data
          /\ chosen' = IF chosen \in fetch[s].data THEN chosen ELSE First(fetch[s].data)
          /\ IF fetch[s].data = {} THEN Hush(s) ELSE Ask(s, "changed", First(fetch[s].data))
     ELSE fetch[s].pc = "error" /\ Hush(s) /\ UNCHANGED <<cached, chosen>>
  /\ UNCHANGED <<user, route>>

(* authenticate: the user is set before the cases are loaded.                *)
SignedIn(s) ==
  /\ fetch[s].kind = "login" /\ fetch[s].pc = "ok"
  /\ user' = fetch[s].by /\ route' = Null
  /\ Ask(s, "list", Null)
  /\ UNCHANGED <<cached, chosen>>

(* logout, with resetWorkspace.                                             *)
SignedOut(s) ==
  /\ fetch[s].kind = "logout" /\ fetch[s].pc = "ok"
  /\ user' = Null /\ cached' = {} /\ chosen' = Null /\ route' = Null
  /\ Hush(s)

(* handleArchiveCase: the next case is selected and loaded.                  *)
ArchivedCase(s) ==
  /\ fetch[s].kind \in Archiving
  /\ IF fetch[s].pc = "ok"
     THEN /\ cached' = fetch[s].data
          /\ IF fetch[s].kind = "archiveChosen"
             THEN /\ chosen' = First(fetch[s].data)
                  /\ IF chosen' = Null THEN Hush(s) ELSE Ask(s, "changed", chosen')
             ELSE UNCHANGED chosen /\ Hush(s)
     ELSE fetch[s].pc = "error" /\ Hush(s) /\ UNCHANGED <<cached, chosen>>
  /\ UNCHANGED <<user, route>>

Arrives(s) ==
  /\ DetailArrives(s) \/ DetailFails(s) \/ ListArrives(s)
       \/ SignedIn(s) \/ SignedOut(s) \/ ArchivedCase(s)
  /\ FollowPath
  /\ UNCHANGED <<cookie, archived, gestures>>

WorkspaceNext ==
  /\ Begin \/ \E s \in Slots : LoadRoute(s) \/ Serves(s) \/ Arrives(s)
  /\ UNCHANGED clock

WorkspaceSpec == WorkspaceInit /\ [][WorkspaceNext]_workspaceVars

(* Requests are answered and timers fire.                                    *)
WorkspaceFairness ==
  /\ \A s \in Slots :
       WF_workspaceVars((Serves(s) \/ Arrives(s)) /\ UNCHANGED clock)
  /\ WF_workspaceVars((\E s \in Slots : LoadRoute(s)) /\ UNCHANGED clock)

WorkspaceFairSpec == WorkspaceSpec /\ WorkspaceFairness

-----------------------------------------------------------------------------
(* A request for a case names one, and what the timer will ask for is the   *)
(* case of a path that has one.                                            *)
RequestsNameTheirCase ==
  /\ \A s \in Slots : fetch[s].kind \in {"sync", "changed", "open"} \cup Archiving =>
                        fetch[s].case \in Records
  /\ timer => route # Null

WorkspaceInv == WorkspaceTypeOK /\ RequestsNameTheirCase

(* A late reply may select another case than the one of the path, but the    *)
(* tab does not stay there: again and again the selected case is the path's  *)
(* (the effect of ProofPilotApp), whatever order the replies came in.        *)
SelectionFollowsPath == []<>(user = Null \/ route = Null \/ chosen = route)
=============================================================================
