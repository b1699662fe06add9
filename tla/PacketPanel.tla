----------------------------- MODULE PacketPanel ------------------------------
(***************************************************************************)
(* The packet export panel of the browser: it lists the packets of the     *)
(* selected case, queues a new one, and polls while one is shown as being  *)
(* generated.  Replies are applied when they arrive; a change of the case  *)
(* or the end of the generation starts the polling effect afresh, and what *)
(* the old one still waits for is dropped.                                 *)
(***************************************************************************)
EXTENDS Integers, FiniteSets

CONSTANTS
  Appeals,     \* cases
  Looks,       \* bound: polls under way at once
  MaxPackets,  \* bound: packets of a case
  MaxTurns,    \* bound: changes of the selected case
  MaxLosses    \* bound: requests that fail

ASSUME PacketPanelAssumption ==
  MaxPackets \in Nat \ {0} /\ MaxTurns \in Nat /\ MaxLosses \in Nat

VARIABLES
  stored,    \* the rows of the server
  listed,    \* packets: what is shown
  facing,    \* selectedCase.id
  listing,   \* the request of the effect that loads the list
  watching,  \* the interval of the polling effect runs
  look,      \* look[l]: a poll under way
  asking,    \* the request that queues a packet
  missed,    \* what failed: the load of the list, the refresh of the case
  turns, losses

packetPanelVars ==
  <<stored, listed, facing, listing, watching, look, asking, missed, turns, losses>>

Packets == [case : Appeals, n : 1..MaxPackets, status : {"GENERATING", "READY", "FAILED"}]

PacketPanelTypeOK ==
  /\ stored \subseteq Packets /\ listed \subseteq Packets /\ facing \in Appeals
  /\ listing \in [pc : {"idle", "sent", "read"}, data : SUBSET Packets]
  /\ watching \in BOOLEAN
  /\ look \in [Looks -> [pc : {"idle", "sent", "read", "refresh"}, data : SUBSET Packets]]
  /\ asking \in [pc : {"idle", "sent", "read"}, case : Appeals, data : SUBSET Packets]
  /\ missed \subseteq {"list", "refresh"} /\ turns \in 0..MaxTurns /\ losses \in 0..MaxLosses

Quiet == [pc |-> "idle", data |-> {}]

Of(c) == {p \in stored : p.case = c}
Generating(list) == \E p \in list : p.status = "GENERATING"

(* Another tab may have queued a packet before.                            *)
PacketPanelInit ==
  /\ stored \in {{}} \cup {{[case |-> c, n |-> 1, status |-> "GENERATING"]} : c \in Appeals}
  /\ listed = {} /\ facing \in Appeals
  /\ listing = [Quiet EXCEPT !.pc = "sent"]
  /\ watching = FALSE /\ look = [l \in Looks |-> Quiet]
  /\ asking = [pc |-> "idle", case |-> facing, data |-> {}]
  /\ missed = {} /\ turns = 0 /\ losses = 0

(* Mutation: the polling effect does not depend on the selected case.      *)
DepsWithoutCase(list, c) == <<Generating(list)>>

(* What the polling effect depends on.                                     *)
Deps(list, c) == <<Generating(list), c>>

(* The panel shows list for case c, and l has no request under way any     *)
(* more, if there is an l: when what the effect depends on changes it      *)
(* starts afresh, with an interval if something is generating.             *)
Renders(list, c, done) ==
  /\ listed' = list /\ facing' = c
  /\ IF Deps(list, c) = Deps(listed, facing)
     THEN /\ look' = [l \in Looks |-> IF l \in done THEN Quiet ELSE look[l]]
          /\ UNCHANGED watching
     ELSE /\ look' = [l \in Looks |-> Quiet]
          /\ watching' = Generating(list)

(* What a step leaves of the failures that still matter: an effect that    *)
(* starts afresh polls again.                                              *)
Caught(list, c) ==
  missed' = IF Deps(list, c) = Deps(listed, facing) THEN missed \ {"list"} ELSE {}

Loss == losses < MaxLosses /\ losses' = losses + 1

-----------------------------------------------------------------------------
(* loadPackets: the list of the selected case.  The panel of one case      *)
(* becomes that of the other, with everything it shows.                    *)

TurnTo(c) ==
  /\ c # facing /\ turns < MaxTurns /\ turns' = turns + 1
  /\ Renders(listed, c, {})
  /\ listing' = [Quiet EXCEPT !.pc = "sent"] /\ missed' = {}
  /\ UNCHANGED <<stored, asking, losses>>

ListAnswered ==
  /\ listing.pc = "sent" /\ listing' = [pc |-> "read", data |-> Of(facing)]
  /\ UNCHANGED <<stored, listed, facing, watching, look, asking, missed, turns, losses>>

PacketsArrive ==
  /\ listing.pc = "read" /\ listing' = Quiet
  /\ Renders(listing.data, facing, {}) /\ Caught(listing.data, facing)
  /\ UNCHANGED <<stored, asking, turns, losses>>

ListFails ==
  /\ listing.pc # "idle" /\ listing' = Quiet /\ Loss
  /\ missed' = missed \cup {"list"}
  /\ UNCHANGED <<stored, listed, facing, watching, look, asking, turns>>

-----------------------------------------------------------------------------
(* refreshQueuedPacket, every 2.5 seconds while the interval runs.         *)

StartLook(l) ==
  /\ watching /\ look[l].pc = "idle" /\ look' = [look EXCEPT ![l].pc = "sent"]
  /\ UNCHANGED <<stored, listed, facing, listing, watching, asking, missed, turns, losses>>

LookAnswered(l) ==
  /\ look[l].pc = "sent" /\ look' = [look EXCEPT ![l] = [pc |-> "read", data |-> Of(facing)]]
  /\ UNCHANGED <<stored, listed, facing, listing, watching, asking, missed, turns, losses>>

(* Mutation: the interval ends with the first answer.                      *)
StopsAtOnce(l) ==
  /\ look[l].pc = "read"
  /\ watching' = FALSE /\ look' = [look EXCEPT ![l] = Quiet]
  /\ UNCHANGED <<stored, listed, facing, listing, asking, missed, turns, losses>>

StillGenerating(l) ==
  /\ look[l].pc = "read" /\ Generating(look[l].data)
  /\ Renders(look[l].data, facing, {l}) /\ Caught(look[l].data, facing)
  /\ UNCHANGED <<stored, listing, asking, turns, losses>>

(* The interval is cleared before the case is refreshed.                   *)
StopWatching(l) ==
  /\ look[l].pc = "read" /\ ~Generating(look[l].data)
  /\ watching' = FALSE /\ look' = [look EXCEPT ![l].pc = "refresh"]
  /\ UNCHANGED <<stored, listed, facing, listing, asking, missed, turns, losses>>

(* onCaseChanged has returned.                                             *)
ShowResult(l) ==
  /\ look[l].pc = "refresh"
  /\ Renders(look[l].data, facing, {l}) /\ Caught(look[l].data, facing)
  /\ UNCHANGED <<stored, listing, asking, turns, losses>>

(* A poll that fails is followed by the next, if the interval still runs.  *)
LookFails(l) ==
  /\ look[l].pc # "idle" /\ Loss
  /\ missed' = IF look[l].pc = "refresh" THEN missed \cup {"refresh"} ELSE missed
  /\ look' = [look EXCEPT ![l] = Quiet]
  /\ UNCHANGED <<stored, listed, facing, listing, watching, asking, turns>>

-----------------------------------------------------------------------------
(* handleGeneratePacket, and generate() and the worker on the other side.  *)

AskForPacket ==
  /\ ~Generating(listed) /\ asking.pc = "idle"
  /\ asking' = [pc |-> "sent", case |-> facing, data |-> {}]
  /\ UNCHANGED <<stored, listed, facing, listing, watching, look, missed, turns, losses>>

(* A packet that is being generated is the one that is returned.           *)
QueuePacket ==
  /\ asking.pc = "sent"
  /\ LET mine == Of(asking.case)
         new == [case |-> asking.case, n |-> Cardinality(mine) + 1, status |-> "GENERATING"]
     IN IF Generating(mine)
        THEN /\ asking' = [asking EXCEPT !.pc = "read", !.data = {p \in mine : p.status = "GENERATING"}]
             /\ UNCHANGED stored
        ELSE /\ Cardinality(mine) < MaxPackets
             /\ stored' = stored \cup {new}
             /\ asking' = [asking EXCEPT !.pc = "read", !.data = {new}]
  /\ UNCHANGED <<listed, facing, listing, watching, look, missed, turns, losses>>

(* The queued packet comes first, whatever case the panel has turned to.   *)
ShowQueued ==
  /\ asking.pc = "read" /\ asking' = [asking EXCEPT !.pc = "idle", !.data = {}]
  /\ \E q \in asking.data :
       LET list == {q} \cup {p \in listed : <<p.case, p.n>> # <<q.case, q.n>>}
       IN /\ Renders(list, facing, {})
          /\ missed' = IF Deps(list, facing) = Deps(listed, facing) THEN missed
                       ELSE missed \ {"refresh"}
  /\ UNCHANGED <<stored, listing, turns, losses>>

AskFails ==
  /\ asking.pc # "idle" /\ asking' = [asking EXCEPT !.pc = "idle", !.data = {}] /\ Loss
  /\ UNCHANGED <<stored, listed, facing, listing, watching, look, missed, turns>>

FinishPacket ==
  /\ \E p \in stored, status \in {"READY", "FAILED"} :
       p.status = "GENERATING" /\ stored' = (stored \ {p}) \cup {[p EXCEPT !.status = status]}
  /\ UNCHANGED <<listed, facing, listing, watching, look, asking, missed, turns, losses>>

-----------------------------------------------------------------------------
ListStep == ListAnswered \/ PacketsArrive
LookStep(l) == LookAnswered(l) \/ StillGenerating(l) \/ StopWatching(l) \/ ShowResult(l)
AskStep == QueuePacket \/ ShowQueued

PacketPanelNext ==
  \/ \E c \in Appeals : TurnTo(c)
  \/ ListStep \/ ListFails \/ AskForPacket \/ AskStep \/ AskFails \/ FinishPacket
  \/ \E l \in Looks : StartLook(l) \/ LookStep(l) \/ LookFails(l)

PacketPanelSpec == PacketPanelInit /\ [][PacketPanelNext]_packetPanelVars

(* Requests are answered or fail, timers fire, and the worker finishes what *)
(* it generates (PacketSettles).                                           *)
PacketPanelFairness ==
  /\ WF_packetPanelVars(ListStep) /\ WF_packetPanelVars(FinishPacket)
  /\ \A l \in Looks : WF_packetPanelVars(StartLook(l)) /\ WF_packetPanelVars(LookStep(l))

PacketPanelFairSpec == PacketPanelSpec /\ PacketPanelFairness

-----------------------------------------------------------------------------
(* Properties.                                                             *)

(* While a packet is shown as being generated somebody watches it: the     *)
(* interval, or the poll that has cleared it and refreshes the case; only  *)
(* when that refresh failed nobody does.                                   *)
SomebodyWatches ==
  Generating(listed) =>
    watching \/ "refresh" \in missed \/ \E l \in Looks : look[l].pc = "refresh"

(* The case is refreshed for a packet that has come to its end.            *)
RefreshesWhatEnded == \A l \in Looks : look[l].pc = "refresh" => ~Generating(look[l].data)

PacketPanelInv == PacketPanelTypeOK /\ SomebodyWatches /\ RefreshesWhatEnded

(* The panel "will refresh ... automatically": nothing is shown as being   *)
(* generated for ever, and what belongs to another case goes away, however *)
(* polls overlap and cases are changed, as long as no load of the list and *)
(* no refresh of the case failed (getCompletenessState, loadPackets).      *)
PanelCatchesUp ==
  /\ Generating(listed) ~> ~Generating(listed) \/ missed # {}
  /\ (\E p \in listed : p.case # facing) ~> (\A p \in listed : p.case = facing) \/ missed # {}
=============================================================================
