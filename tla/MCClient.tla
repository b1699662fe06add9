------------------------------- MODULE MCClient --------------------------------
(* Instances for TLC of the web client's tab, of its panels for evidence   *)
(* and packets and of its camera, which run one at a time, as Focus says:  *)
(* they share nothing.                                                     *)
EXTENDS EvidencePanel, Workspace, PacketPanel, CameraCapture, TLC

CONSTANTS Focus, f1, d1, d2, ann, bob, caseA, caseB, s1, s2, l1, l2,
  front, back, k1, k2, k3

VARIABLE part  \* the component that runs

panel == <<item, upload, doc, selected, detail, opening, queuePoll, selectedPoll, left>>
tab == <<user, cookie, cached, chosen, route, timer, fetch, archived, gestures>>
all == <<part, panel, tab, packetPanelVars, cameraVars, clock>>

MCAccess == ann :> {caseA, caseB} @@ bob :> {caseB}

(* What holds of the panels, of the camera and of the tab.                 *)
ClientInv ==
  CASE part = "panel" -> PanelInv
    [] part = "packets" -> PacketPanelInv
    [] part = "camera" -> CameraInv
    [] part = "tab" -> WorkspaceInv
    [] OTHER -> FALSE

(* What the panels wait for comes: uploads and the status of their         *)
(* documents, and the end of a packet's generation.                        *)
WaitsEnd == UploadsEnd /\ PanelCatchesUp

(* Documents differ only in name: d1 is the one that is reserved first.    *)
InOrder == doc[d1].status = "ABSENT" => doc[d2].status = "ABSENT"

MCInit ==
  /\ part \in Focus
  /\ PanelInit /\ WorkspaceInit /\ PacketPanelInit /\ CameraInit
  /\ part # "tab" => route = Null
  /\ facing = caseA /\ (part # "packets" => stored = {})  \* the cases differ only in name

MCNext ==
  /\ UNCHANGED part
  /\ \/ part = "panel" /\ PanelNext /\ InOrder' /\ UNCHANGED <<tab, packetPanelVars, cameraVars>>
     \/ part = "tab" /\ WorkspaceNext /\ UNCHANGED <<panel, packetPanelVars, cameraVars>>
     \/ part = "packets" /\ PacketPanelNext /\ UNCHANGED <<panel, tab, cameraVars, clock>>
     \/ part = "camera" /\ CameraNext /\ UNCHANGED <<panel, tab, packetPanelVars, clock>>

(* The fairness of each component, while it is the one that runs.          *)
MCSpec ==
  /\ MCInit /\ [][MCNext]_all
  /\ WF_panelVars(part = "panel" /\ UploadStep /\ Remount)
  /\ WF_panelVars(part = "panel" /\ (ReadQueue \/ ApplyQueue))
  /\ WF_panelVars(part = "panel" /\ (PollSelected \/ SettleSelected))
  /\ WF_panelVars(part = "panel" /\ ShowDetail /\ Remount)
  /\ \A d \in Docs : WF_panelVars(part = "panel" /\ ProcessDocument(d) /\ Remount)
  /\ \A s \in Slots :
       WF_workspaceVars(part = "tab" /\ (Serves(s) \/ Arrives(s)) /\ UNCHANGED clock)
  /\ WF_workspaceVars(part = "tab" /\ (\E s \in Slots : LoadRoute(s)) /\ UNCHANGED clock)
  /\ WF_packetPanelVars(part = "packets" /\ ListStep)
  /\ WF_packetPanelVars(part = "packets" /\ FinishPacket)
  /\ \A l \in Looks : /\ WF_packetPanelVars(part = "packets" /\ StartLook(l))
                     /\ WF_packetPanelVars(part = "packets" /\ LookStep(l))
=============================================================================
