--------------------------- MODULE PacketGeneration ---------------------------
(***************************************************************************)
(* The packets of one case: requests create a packet and enqueue its job,  *)
(* BullMQ hands the job to workers at least once, and each run renders the *)
(* PDF, uploads it and records the export or the failure.                  *)
(***************************************************************************)
EXTENDS Environment

CONSTANTS
  Packets, Calls, Renderers,  \* CasePacket rows, requests, concurrent worker runs
  Attempts                    \* attempts: 3

ASSUME PacketAssumption == Attempts \in Nat \ {0} /\ Null \notin Packets

VARIABLES
  packet,     \* packet[k]: CasePacket with its exports, and the job of the same id
  shelved,    \* Case.archivedAt is set
  call,       \* call[c]: a request to generate
  renderer,   \* renderer[w]: a run of generateCasePacket
  disturbed   \* history: a run died, lost its job or could not write, or the case
              \* was archived

packetVars == <<packet, shelved, call, renderer, disturbed, clock>>

PacketRows ==
  [status : {"ABSENT", "GENERATING", "READY", "FAILED"}, exports : Nat,
   job : {"none", "waiting", "active", "stalled", "ended"}, made : Nat, stalls : Nat]

CallStates == [pc : {"idle", "create", "enqueue", "fail", "done"}, packet : Packets \cup {Null}]

RendererStates ==
  [pc : {"idle", "find", "begin", "render", "record", "fail", "return", "throw"},
   packet : Packets \cup {Null}, made : Nat, held : BOOLEAN]

PacketTypeOK ==
  /\ packet \in [Packets -> PacketRows]
  /\ shelved \in BOOLEAN /\ disturbed \in BOOLEAN
  /\ call \in [Calls -> CallStates]
  /\ renderer \in [Renderers -> RendererStates]

NoCall == [pc |-> "idle", packet |-> Null]
NoRun == [pc |-> "idle", packet |-> Null, made |-> 0, held |-> FALSE]

PacketInit ==
  /\ packet = [k \in Packets |->
       [status |-> "ABSENT", exports |-> 0, job |-> "none", made |-> 0, stalls |-> 0]]
  /\ shelved = FALSE /\ disturbed = FALSE
  /\ call = [c \in Calls |-> NoCall]
  /\ renderer = [w \in Renderers |-> NoRun]
  /\ clock = 0

PacketTick == ClockTick /\ UNCHANGED <<packet, shelved, call, renderer, disturbed>>

ShelveCase ==
  /\ shelved' = TRUE /\ disturbed' = TRUE
  /\ UNCHANGED <<packet, call, renderer, clock>>

-----------------------------------------------------------------------------
(* The API: generate.                                                      *)

Generating == {k \in Packets : packet[k].status = "GENERATING"}

(* A packet that is being generated is returned instead of a new one.      *)
Generate(c) ==
  /\ call[c].pc = "idle" /\ ~shelved /\ Generating = {}
  /\ call' = [call EXCEPT ![c].pc = "create"]
  /\ UNCHANGED <<packet, shelved, renderer, disturbed, clock>>

CreatePacket(c) ==
  /\ call[c].pc = "create"
  /\ \/ \E k \in Packets :
          /\ packet[k].status = "ABSENT"
          /\ packet' = [packet EXCEPT ![k].status = "GENERATING"]
          /\ call' = [call EXCEPT ![c].pc = "enqueue", ![c].packet = k]
     \/ /\ Faulty("database") \/ \A k \in Packets : packet[k].status # "ABSENT"
        /\ call' = [call EXCEPT ![c].pc = "done"] /\ UNCHANGED packet
  /\ UNCHANGED <<shelved, renderer, disturbed, clock>>

(* queue.add may throw after the job was added.                            *)
EnqueuePacket(c) ==
  /\ call[c].pc = "enqueue"
  /\ LET added == [packet EXCEPT ![call[c].packet].job = "waiting"] IN
       \/ packet' = added /\ call' = [call EXCEPT ![c].pc = "done"]
       \/ /\ Faulty("queue") /\ packet' \in {packet, added}
          /\ call' = [call EXCEPT ![c].pc = "fail"]
  /\ UNCHANGED <<shelved, renderer, disturbed, clock>>

(* Mutation: the packet is left as it is.                                  *)
IgnoreEnqueueFailure(c) ==
  /\ call[c].pc = "fail" /\ call' = [call EXCEPT ![c].pc = "done"]
  /\ UNCHANGED <<packet, shelved, renderer, disturbed, clock>>

RecordEnqueueFailure(c) ==
  /\ call[c].pc = "fail" /\ call' = [call EXCEPT ![c].pc = "done"]
  /\ \/ packet' = [packet EXCEPT ![call[c].packet].status = "FAILED"] /\ UNCHANGED disturbed
     \/ Faulty("database") /\ UNCHANGED packet /\ disturbed' = TRUE
  /\ UNCHANGED <<shelved, renderer, clock>>

(* The API process dies.                                                   *)
DropCall(c) ==
  /\ call[c].pc \in {"create", "enqueue", "fail"} /\ Faulty("crash")
  /\ call' = [call EXCEPT ![c].pc = "done"]
  /\ disturbed' = TRUE
  /\ UNCHANGED <<packet, shelved, renderer, clock>>

-----------------------------------------------------------------------------
(* The worker: BullMQ.                                                     *)

To(w, pc) == renderer' = [renderer EXCEPT ![w].pc = pc]

TakePacket(w) ==
  /\ renderer[w].pc = "idle"
  /\ \E k \in Packets :
       /\ packet[k].job = "waiting"
       /\ packet' = [packet EXCEPT ![k].job = "active"]
       /\ renderer' = [renderer EXCEPT ![w] =
            [pc |-> "find", packet |-> k, made |-> packet[k].made, held |-> TRUE]]
  /\ UNCHANGED <<shelved, call, disturbed, clock>>

LeavePacket(w) == renderer' = [renderer EXCEPT ![w] = NoRun]

(* Only the run that holds the job's lock can end it.                      *)
EndJob(w) ==
  /\ renderer[w].pc = "return"
  /\ packet' = IF renderer[w].held
                 THEN [packet EXCEPT ![renderer[w].packet].job = "ended"] ELSE packet
  /\ LeavePacket(w)
  /\ UNCHANGED <<shelved, call, disturbed, clock>>

RetryJob(w) ==
  /\ renderer[w].pc = "throw"
  /\ packet' = IF ~renderer[w].held THEN packet
               ELSE [packet EXCEPT ![renderer[w].packet].made = @ + 1,
                       ![renderer[w].packet].job =
                         IF packet[renderer[w].packet].made + 1 < Attempts
                           THEN "waiting" ELSE "ended"]
  /\ LeavePacket(w)
  /\ UNCHANGED <<shelved, call, disturbed, clock>>

LosePacketLock(w) ==
  /\ Faulty("lock") /\ renderer[w].held
  /\ renderer' = [renderer EXCEPT ![w].held = FALSE]
  /\ packet' = [packet EXCEPT ![renderer[w].packet].job = "stalled"]
  /\ disturbed' = TRUE
  /\ UNCHANGED <<shelved, call, clock>>

CrashRenderer(w) ==
  /\ Faulty("crash") /\ renderer[w].pc # "idle"
  /\ packet' = IF renderer[w].held
                 THEN [packet EXCEPT ![renderer[w].packet].job = "stalled"] ELSE packet
  /\ LeavePacket(w)
  /\ disturbed' = TRUE
  /\ UNCHANGED <<shelved, call, clock>>

(* maxStalledCount is BullMQ's default, 1.                                 *)
RecoverStalled(k) ==
  /\ packet[k].job = "stalled"
  /\ packet' = [packet EXCEPT ![k].stalls = @ + 1,
                  ![k].job = IF packet[k].stalls = 0 THEN "waiting" ELSE "ended"]
  /\ UNCHANGED <<shelved, call, renderer, disturbed, clock>>

-----------------------------------------------------------------------------
(* generateCasePacket.                                                     *)

(* Until the packet is found there is no failure context: a throw records  *)
(* nothing.                                                                *)
FindPacket(w) ==
  /\ renderer[w].pc = "find"
  /\ LET k == renderer[w].packet IN
       \/ ~shelved /\ packet[k].status = "READY" /\ packet[k].exports > 0 /\ To(w, "return")
          /\ UNCHANGED disturbed
       \/ /\ ~shelved /\ ~(packet[k].status = "READY" /\ packet[k].exports > 0)
          /\ To(w, "begin") /\ UNCHANGED disturbed
       \/ (shelved \/ Faulty("database")) /\ To(w, "throw") /\ disturbed' = TRUE
  /\ UNCHANGED <<packet, shelved, call, clock>>

(* The status is written by id, whatever it has become since.              *)
BeginPacket(w) ==
  /\ renderer[w].pc = "begin"
  /\ \/ packet' = [packet EXCEPT ![renderer[w].packet].status = "GENERATING"] /\ To(w, "render")
     \/ Faulty("database") /\ To(w, "fail") /\ UNCHANGED packet
  /\ UNCHANGED <<shelved, call, disturbed, clock>>

(* Evidence is read, the PDF rendered and uploaded under a new key.        *)
RenderPacket(w) ==
  /\ renderer[w].pc = "render"
  /\ To(w, "record") \/ (Faulty("storage") /\ To(w, "fail"))
  /\ UNCHANGED <<packet, shelved, call, disturbed, clock>>

Recorded(k) == [packet EXCEPT ![k].status = "READY", ![k].exports = @ + 1]

(* Mutation: the status and the export are two statements.                 *)
RecordPacketInParts(w) ==
  /\ renderer[w].pc = "record"
  /\ \/ packet' = Recorded(renderer[w].packet) /\ To(w, "return")
     \/ /\ Faulty("database") /\ To(w, "fail")
        /\ packet' = [packet EXCEPT ![renderer[w].packet].status = "READY"]
  /\ UNCHANGED <<shelved, call, disturbed, clock>>

(* One transaction: the export, both statuses, the audit entry and the     *)
(* notification.                                                           *)
RecordPacket(w) ==
  /\ renderer[w].pc = "record"
  /\ \/ packet' = Recorded(renderer[w].packet) /\ To(w, "return")
     \/ /\ Faulty("database") /\ To(w, "fail")
        /\ packet' \in {packet, Recorded(renderer[w].packet)}
  /\ UNCHANGED <<shelved, call, disturbed, clock>>

(* Mutation: the last attempt is taken for one that is retried.            *)
RetriesTooLate(made) == made < Attempts

WillRetry(made) == made + 1 < Attempts

(* The catch block: only the last attempt records the failure.             *)
RecordPacketFailure(w) ==
  /\ renderer[w].pc = "fail"
  /\ \/ WillRetry(renderer[w].made) /\ UNCHANGED <<packet, disturbed>>
     \/ /\ ~WillRetry(renderer[w].made) /\ UNCHANGED disturbed
        /\ packet' = [packet EXCEPT ![renderer[w].packet].status = "FAILED"]
     \/ /\ ~WillRetry(renderer[w].made) /\ Faulty("database") /\ disturbed' = TRUE
        /\ UNCHANGED packet
  /\ To(w, "throw")
  /\ UNCHANGED <<shelved, call, clock>>

CallStep(c) ==
  CreatePacket(c) \/ EnqueuePacket(c) \/ RecordEnqueueFailure(c)

RendererStep(w) ==
  \/ TakePacket(w) \/ EndJob(w) \/ RetryJob(w) \/ FindPacket(w) \/ BeginPacket(w)
  \/ RenderPacket(w) \/ RecordPacket(w) \/ RecordPacketFailure(w)

PacketNext ==
  \/ PacketTick \/ ShelveCase
  \/ \E c \in Calls : Generate(c) \/ CallStep(c) \/ DropCall(c)
  \/ \E k \in Packets : RecoverStalled(k)
  \/ \E w \in Renderers : RendererStep(w) \/ LosePacketLock(w) \/ CrashRenderer(w)

PacketSpec == PacketInit /\ [][PacketNext]_packetVars

(* Requests and runs go on, BullMQ checks for stalled jobs, time passes.   *)
PacketFairness ==
  /\ WF_packetVars(PacketTick)
  /\ \A c \in Calls : WF_packetVars(CallStep(c))
  /\ \A k \in Packets : WF_packetVars(RecoverStalled(k))
  /\ \A w \in Renderers : WF_packetVars(RendererStep(w))

PacketFairSpec == PacketSpec /\ PacketFairness

-----------------------------------------------------------------------------
(* Properties.                                                             *)

(* A packet that is READY can be downloaded, whatever runs overlapped and  *)
(* whatever answers of the database were lost.                             *)
ReadyHasExport == \A k \in Packets : packet[k].status = "READY" => packet[k].exports > 0

(* A packet does not stay GENERATING, which would keep the case from ever  *)
(* generating another: failures of storage and of the queue are retried or *)
(* recorded, unless something hit a run where nothing records it.          *)
PacketSettles ==
  \A k \in Packets :
    packet[k].status = "GENERATING" ~> packet[k].status \in {"READY", "FAILED"} \/ disturbed

(* A request enqueues a packet of its own, once.                            *)
CallOK(c) ==
  LET k == call[c].packet IN
  /\ call[c].pc \in {"enqueue", "fail"} => k # Null
  /\ k # Null => packet[k].status # "ABSENT" /\ \A b \in Calls \ {c} : call[b].packet # k
  /\ call[c].pc = "enqueue" => packet[k].job = "none"

(* A run that holds the lock is on its job's present attempt, and one that  *)
(* returns leaves a file.                                                  *)
RunOK(w) ==
  LET k == renderer[w].packet IN
  /\ renderer[w].pc = "idle" => ~renderer[w].held
  /\ renderer[w].pc # "idle" =>
       k \in Packets /\ packet[k].status # "ABSENT" /\ packet[k].job # "none"
  /\ renderer[w].pc = "return" => packet[k].exports > 0
  /\ renderer[w].held => packet[k].job = "active" /\ packet[k].made = renderer[w].made

(* A job has its attempts and no more, and while it is active exactly one   *)
(* run holds its lock, however many go on without it.                      *)
JobOK(k) ==
  /\ packet[k].status = "ABSENT" => packet[k].job = "none"
  /\ packet[k].job # "ended" => packet[k].made < Attempts
  /\ packet[k].made <= Attempts
  /\ packet[k].job = "active" =>
       \E w \in Renderers :
         /\ renderer[w].held /\ renderer[w].packet = k
         /\ \A v \in Renderers : renderer[v].held /\ renderer[v].packet = k => v = w

(* Runs that overlap, fail or lose their lock leave no packet that is READY *)
(* without a file; what requests and runs hold of a job makes it inductive. *)
PacketInv ==
  /\ PacketTypeOK /\ ReadyHasExport
  /\ \A c \in Calls : CallOK(c)
  /\ \A w \in Renderers : RunOK(w)
  /\ \A k \in Packets : JobOK(k)
=============================================================================
