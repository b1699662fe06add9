------------------------------- MODULE MCWorker --------------------------------
(* Instances for TLC of what the worker has to bring to an end by itself:  *)
(* emails of the outbox, alone with a row that others touch or under the   *)
(* invitation of a packet share, reminders, packets and demo workspaces.   *)
(* They share nothing but the clock, so a behaviour is one of a single     *)
(* component, in Focus, while the others rest.                             *)
EXTENDS PacketShareEmails, ReminderDelivery, PacketGeneration, DemoWorkspaces, TLC

CONSTANTS Focus, b1, b2, e1, k1, c1, w1, w2, q1, q2, v1, v2, u1, u2, o1

VARIABLE part  \* the component that runs

emails == <<delivery, batch, accepted, share, revoker>>
reminders == <<reminder, archived, wanted, pass, editor, handled>>
packets == <<packet, shelved, call, renderer, disturbed>>
demos == <<workspace, created, start, cleanup>>
all == <<part, emails, reminders, packets, demos, clock>>

MCDelays == <<1, 2>>

(* Bound: a share expires before the last tick, or never.                  *)
EarlyExpiry == share'.expiresAt # MaxClock

MCInit ==
  /\ part \in Focus
  /\ Init /\ ReminderInit /\ PacketInit /\ DemoInit
  /\ part # "reminders" => archived /\ ~wanted

MCNext ==
  /\ UNCHANGED part
  /\ \/ /\ part = "outbox" /\ OutboxNext
        /\ UNCHANGED <<shareVars, reminders, packets, demos>>
     \/ part = "share" /\ Next /\ EarlyExpiry /\ UNCHANGED <<reminders, packets, demos>>
     \/ part = "reminders" /\ ReminderNext /\ UNCHANGED <<emails, packets, demos>>
     \/ part = "packets" /\ PacketNext /\ UNCHANGED <<emails, reminders, demos>>
     \/ part = "demos" /\ DemoNext /\ UNCHANGED <<emails, reminders, packets>>

(* The fairness of each component, while it is the one that runs; time     *)
(* passes for all of them.                                                 *)
MCSpec ==
  /\ MCInit /\ [][MCNext]_all
  /\ WF_clock(ClockTick)
  /\ \A b \in Batches :
       /\ WF_outboxVars(part = "outbox" /\ \E s \in BOOLEAN : BatchStep(b, s))
       /\ WF_outboxVars(part = "share" /\ BatchStep(b, Suppressed(b)))
  /\ \A b \in Passes : WF_reminderVars(part = "reminders" /\ PassStep(b))
  /\ \A c \in Calls : WF_packetVars(part = "packets" /\ CallStep(c))
  /\ \A k \in Packets : WF_packetVars(part = "packets" /\ RecoverStalled(k))
  /\ \A w \in Renderers : WF_packetVars(part = "packets" /\ RendererStep(w))
  /\ \A b \in Cleanups : WF_demoVars(part = "demos" /\ CleanupStep(b))
=============================================================================
