---------------------------- MODULE CameraCapture -----------------------------
(***************************************************************************)
(* The camera of the evidence panel.  Its effect asks the browser for a    *)
(* stream of the camera it faces, and the answer may come when the user    *)
(* has switched to the other camera or left: then nobody holds the stream  *)
(* but the call that asked for it.                                         *)
(***************************************************************************)
EXTENDS Integers

CONSTANTS
  Cameras,    \* environment, user
  Calls,      \* bound: runs of the effect
  NoCall,
  NoMedia     \* whether the browser may lack getUserMedia

ASSUME CameraAssumption == NoCall \notin Calls /\ Cameras # {} /\ NoMedia \in BOOLEAN

VARIABLES
  openCall,  \* openCall[k]: a run of openCamera
  active,    \* the run whose isActive is still true, if the view is mounted
  held,      \* streamRef: the run that got the stream
  shownAs,   \* status
  taken,     \* a frame is being encoded, of the stream of a run
  captured   \* runs whose frame was handed over

cameraVars == <<openCall, active, held, shownAs, taken, captured>>

Unasked == [pc |-> "none", facing |-> CHOOSE c \in Cameras : TRUE]

CameraTypeOK ==
  /\ openCall \in [Calls -> [pc : {"none", "asking", "granted", "playing", "done"}, facing : Cameras]]
  /\ active \in Calls \cup {NoCall} /\ held \in Calls \cup {NoCall}
  /\ shownAs \in {"requesting", "ready", "unavailable"}
  /\ taken \in Calls \cup {NoCall} /\ captured \subseteq Calls

CameraInit ==
  /\ openCall = [k \in Calls |-> Unasked] /\ active = NoCall /\ held = NoCall
  /\ shownAs = "requesting" /\ taken = NoCall /\ captured = {}

(* A stream runs from its grant until it is stopped; a run that stops or    *)
(* loses it is done, unless it holds it.                                    *)
Running(k) == openCall[k].pc \in {"granted", "playing"} \/ held = k

-----------------------------------------------------------------------------
(* The effect: its clean-up takes the stream off the video, which ends a    *)
(* play() under way, and stops it; then it runs for the camera it faces.    *)

Released == [k \in Calls |-> IF k = held THEN [openCall[k] EXCEPT !.pc = "done"] ELSE openCall[k]]

OpenCamera(k, camera) ==
  /\ openCall[k].pc = "none"
  /\ active # NoCall => openCall[active].facing # camera /\ shownAs # "requesting"
  /\ held' = NoCall /\ active' = k
  /\ \/ openCall' = [Released EXCEPT ![k] = [pc |-> "asking", facing |-> camera]]
        /\ shownAs' = "requesting"
     \/ NoMedia /\ openCall' = [Released EXCEPT ![k] = [pc |-> "done", facing |-> camera]]
        /\ shownAs' = "unavailable"
  /\ UNCHANGED <<taken, captured>>

LeaveCamera ==
  /\ active # NoCall
  /\ openCall' = Released /\ held' = NoCall /\ active' = NoCall
  /\ UNCHANGED <<shownAs, taken, captured>>

GrantStream(k) ==
  /\ openCall[k].pc = "asking" /\ openCall' = [openCall EXCEPT ![k].pc = "granted"]
  /\ UNCHANGED <<active, held, shownAs, taken, captured>>

DenyStream(k) ==
  /\ openCall[k].pc = "asking" /\ openCall' = [openCall EXCEPT ![k].pc = "done"]
  /\ shownAs' = IF active = k THEN "unavailable" ELSE shownAs
  /\ UNCHANGED <<active, held, taken, captured>>

(* Mutation: the stream is attached whoever asks for another by now.        *)
AttachAnyway(k) ==
  /\ openCall[k].pc = "granted"
  /\ openCall' = [openCall EXCEPT ![k].pc = "playing"] /\ held' = k
  /\ UNCHANGED <<active, shownAs, taken, captured>>

(* A stream that comes too late is stopped.                                 *)
AttachStream(k) ==
  /\ openCall[k].pc = "granted"
  /\ IF active = k
     THEN openCall' = [openCall EXCEPT ![k].pc = "playing"] /\ held' = k
     ELSE openCall' = [openCall EXCEPT ![k].pc = "done"] /\ UNCHANGED held
  /\ UNCHANGED <<active, shownAs, taken, captured>>

(* play() that fails shows the camera as unavailable; its stream runs on.   *)
PlayStream(k) ==
  /\ openCall[k].pc = "playing"
  /\ openCall' = [openCall EXCEPT ![k].pc = "done"]
  /\ shownAs' \in {"ready", "unavailable"}
  /\ UNCHANGED <<active, held, taken, captured>>

-----------------------------------------------------------------------------
(* handleCapture: the frame is drawn at once and encoded while anything may *)
(* happen; it is handed over also to a panel that has gone back.            *)

TakeFrame ==
  /\ active # NoCall /\ shownAs = "ready" /\ taken = NoCall
  /\ taken' = held
  /\ UNCHANGED <<openCall, active, held, shownAs, captured>>

HandOver ==
  /\ taken # NoCall /\ taken' = NoCall
  /\ captured' \in {captured, captured \cup {taken}}  \* the encoding may fail
  /\ UNCHANGED <<openCall, active, held, shownAs>>

CameraStep(k) == AttachStream(k) \/ PlayStream(k)

CameraNext ==
  \/ \E k \in Calls :
       GrantStream(k) \/ DenyStream(k) \/ CameraStep(k) \/ \E c \in Cameras : OpenCamera(k, c)
  \/ LeaveCamera \/ TakeFrame \/ HandOver

CameraSpec == CameraInit /\ [][CameraNext]_cameraVars

-----------------------------------------------------------------------------
(* Properties.                                                              *)

(* No camera runs unattended: a stream runs for the run that is active, or  *)
(* for one that has yet to see that it is not; so none stays on once the    *)
(* view is left, and no two are held.                                       *)
NoStrayStream ==
  \A k \in Calls : Running(k) => k = active \/ (openCall[k].pc = "granted" /\ held # k)

(* What is shown as ready is the camera that was asked for last, and what   *)
(* is captured comes from a stream.                                         *)
ReadyMeansLive ==
  /\ active # NoCall /\ shownAs = "ready" => held = active
  /\ NoCall \notin captured

(* The run that holds a stream plays it, or has begun to.                   *)
HeldIsPlayed ==
  \A k \in Calls : /\ openCall[k].pc = "playing" => held = k
                   /\ held = k => openCall[k].pc \in {"playing", "done"}

CameraInv == CameraTypeOK /\ NoStrayStream /\ ReadyMeansLive /\ HeldIsPlayed
=============================================================================
