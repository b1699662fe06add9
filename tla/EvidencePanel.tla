---------------------------- MODULE EvidencePanel -----------------------------
(***************************************************************************)
(* The evidence panel of the browser: files wait in a queue, one at a time *)
(* is reserved, uploaded and completed; then the queue polls the status of *)
(* its documents, except the selected one, which has a poll of its own.    *)
(* The server is what the panel can see of it.                             *)
(***************************************************************************)
EXTENDS Environment, FiniteSets

CONSTANTS Files, Docs   \* queue items, Document rows

ASSUME PanelAssumption == Null \notin Docs

VARIABLES
  item,      \* item[f]: status and documentId of a queue item
  upload,    \* the run of processItem: its step, item, document and reply
  doc,       \* doc[d]: the Document row, and the file it was reserved for
  selected,  \* selectedDocumentId
  detail,    \* selectedDocument.status, or "NONE"
  opening,   \* a fetch of the selected document's detail is under way
  queuePoll, \* what the poll of the queue has read, or Null
  selectedPoll, \* the poll of the selected document
  left       \* history: documents whose DELETE before a retry failed

panelVars == <<item, upload, doc, selected, detail, opening, queuePoll, selectedPoll,
  left, clock>>

Live == {"UPLOADED", "PROCESSING"}   \* isActiveProcessingStatus
Ended == {"PROCESSED", "FAILED"}     \* PROCESSED stands for NEEDS_REVIEW too
OnServer == Live \cup Ended

MaybeDoc == Docs \cup {Null}

PanelTypeOK ==
  /\ item \in [Files -> [status : {"absent", "queued", "preparing", "uploading",
                                   "processing", "processed", "failed",
                                   "removed"}, doc : MaybeDoc]]
  /\ upload \in [pc : {"none", "discard", "create", "put", "complete", "list", "show"},
                 file : Files \cup {Null}, doc : MaybeDoc, seen : SUBSET (Docs \X OnServer)]
  /\ doc \in [Docs -> [status : OnServer \cup {"ABSENT", "REMOVED"}, file : Files \cup {Null}]]
  /\ selected \in MaybeDoc /\ detail \in OnServer \cup {"NONE"} /\ opening \in BOOLEAN
  /\ queuePoll = Null \/ queuePoll \subseteq Docs \X OnServer
  /\ selectedPoll \in {"off", "on", "ended", "over"}
  /\ left \subseteq Docs

NoUpload == [pc |-> "none", file |-> Null, doc |-> Null, seen |-> {}]

PanelInit ==
  /\ item = [f \in Files |-> [status |-> "absent", doc |-> Null]]
  /\ upload = NoUpload
  /\ doc = [d \in Docs |-> [status |-> "ABSENT", file |-> Null]]
  /\ selected = Null /\ detail = "NONE" /\ opening = FALSE
  /\ queuePoll = Null /\ selectedPoll = "off"
  /\ left = {} /\ clock = 0

(* Mutation: no poll while a document is selected.                          *)
PolledUnlessSelected ==
  {d \in Docs : selected = Null /\ \E f \in Files : item[f] = [status |-> "processing", doc |-> d]}

(* processingDocumentIdsKey                                                 *)
Polled == {d \in Docs \ {selected} :
             \E f \in Files : item[f] = [status |-> "processing", doc |-> d]}

Listing == {<<d, doc[d].status>> : d \in {e \in Docs : doc[e].status \in OnServer}}

(* mapDocumentStatusToQueueStatus                                           *)
ItemStatus(status) ==
  CASE status \in Live -> "processing" [] status = "PROCESSED" -> "processed"
    [] status = "FAILED" -> "failed"

(* Mutation: any item follows its document.                                 *)
FollowsAlways(f, d) == item[f].doc = d

(* syncDocumentStatus, syncWithDocuments: only an item that is processing    *)
(* follows its document.                                                    *)
Follows(f, d) == item[f].doc = d /\ item[f].status = "processing"

Synced(seen) ==
  [f \in Files |->
    IF \E s \in seen : Follows(f, s[1])
    THEN [item[f] EXCEPT !.status =
            ItemStatus((CHOOSE s \in seen : Follows(f, s[1]))[2])]
    ELSE item[f]]

-----------------------------------------------------------------------------
(* The effects: a change of what they depend on ends the poll under way.     *)

Watching == selected' # Null /\ detail' \in Live

Remount ==
  /\ queuePoll' = IF Polled' # Polled THEN Null ELSE queuePoll
  /\ selectedPoll' = IF selected' = selected /\ detail' = detail THEN selectedPoll
                     ELSE IF Watching THEN "on" ELSE "off"

(* Another document is selected: its detail is fetched.  Until then the     *)
(* detail of the one before stays.                                          *)
Select(d) ==
  /\ selected' = d
  /\ IF d = selected THEN UNCHANGED <<detail, opening>>
     ELSE /\ detail' = IF d = Null THEN "NONE" ELSE detail
          /\ opening' = (d # Null)

(* applyDocuments: the preferred document, the current one, or the first.    *)
Shown(seen, preferred) ==
  LET listed == {s[1] : s \in seen}
      target == IF preferred # Null THEN preferred ELSE selected
  IN IF target \in listed THEN {target}
     ELSE IF listed = {} THEN {Null} ELSE listed

-----------------------------------------------------------------------------
(* The queue.                                                               *)

Enqueue(f) ==
  /\ item[f].status = "absent"
  /\ item' = [item EXCEPT ![f].status = "queued"]
  /\ UNCHANGED <<upload, doc, selected, detail, opening, left, clock>>

Retry(f) ==
  /\ item[f].status = "failed"
  /\ item' = [item EXCEPT ![f].status = "queued"]
  /\ UNCHANGED <<upload, doc, selected, detail, opening, left, clock>>

(* The row under upload cannot be removed.                                  *)
RemoveItem(f) ==
  /\ item[f].status \notin {"absent", "removed"} /\ upload.file # f
  /\ item' = [item EXCEPT ![f] = [status |-> "removed", doc |-> Null]]
  /\ UNCHANGED <<upload, doc, selected, detail, opening, left, clock>>

(* Mutation: a retry reserves another document beside the first.             *)
StartUploadAfresh(f) ==
  /\ upload.pc = "none" /\ item[f].status = "queued"
  /\ item' = [item EXCEPT ![f].status = "preparing"]
  /\ upload' = [NoUpload EXCEPT !.file = f, !.pc = "create"]
  /\ UNCHANGED <<doc, selected, detail, opening, left, clock>>

(* processItem, one at a time; which of the queued comes first is left open. *)
(* A document reserved before is discarded first.                           *)
StartUpload(f) ==
  /\ upload.pc = "none" /\ item[f].status = "queued"
  /\ item' = [item EXCEPT ![f].status = "preparing"]
  /\ upload' = [NoUpload EXCEPT !.file = f,
                  !.pc = IF item[f].doc = Null THEN "create" ELSE "discard"]
  /\ UNCHANGED <<doc, selected, detail, opening, left, clock>>

Discarded(d) ==
  [doc EXCEPT ![d].status = IF @ \in OnServer THEN "REMOVED" ELSE @]

(* An error of the DELETE is ignored.                                       *)
Discard ==
  /\ upload.pc = "discard"
  /\ LET d == item[upload.file].doc
     IN \/ doc' = Discarded(d) /\ UNCHANGED left
        \/ Faulty("discard") /\ left' = left \cup {d} /\ UNCHANGED doc
  /\ upload' = [upload EXCEPT !.pc = "create"]
  /\ UNCHANGED <<item, selected, detail, opening, clock>>

Failed == [item EXCEPT ![upload.file].status = "failed"]

Reserve(d) ==
  /\ upload.pc = "create" /\ doc[d].status = "ABSENT"
  /\ doc' = [doc EXCEPT ![d] = [status |-> "UPLOADED", file |-> upload.file]]
  /\ \/ /\ item' = [item EXCEPT ![upload.file] = [status |-> "uploading", doc |-> d]]
        /\ upload' = [upload EXCEPT !.pc = "put", !.doc = d]
     \/ Faulty("network") /\ item' = Failed /\ upload' = NoUpload
  /\ UNCHANGED <<selected, detail, opening, left, clock>>

(* The API refuses, is not reached, or has no document left (bound).         *)
RefuseReservation ==
  /\ upload.pc = "create"
  /\ Faulty("network") \/ \A d \in Docs : doc[d].status # "ABSENT"
  /\ item' = Failed /\ upload' = NoUpload
  /\ UNCHANGED <<doc, selected, detail, opening, left, clock>>

(* Mutation: the promise of a PUT that fails is never settled.              *)
PutFileUnsettled ==
  /\ upload.pc = "put" /\ upload.doc # Null
  /\ \/ upload' = [upload EXCEPT !.pc = "complete"]
     \/ Faulty("network") /\ upload' = [upload EXCEPT !.doc = Null]
  /\ UNCHANGED <<item, doc, selected, detail, opening, left, clock>>

PutFile ==
  /\ upload.pc = "put"
  /\ \/ upload' = [upload EXCEPT !.pc = "complete"] /\ UNCHANGED item
     \/ Faulty("network") /\ item' = Failed /\ upload' = NoUpload
  /\ UNCHANGED <<doc, selected, detail, opening, left, clock>>

(* POST complete.  Its reply may be lost after the server did its work.      *)
Complete ==
  /\ upload.pc = "complete"
  /\ LET d == upload.doc
         Done == doc[d].status = "UPLOADED" /\ doc' = [doc EXCEPT ![d].status = "PROCESSING"]
         Error == item' = Failed /\ upload' = NoUpload
     IN \/ /\ Done
           /\ \/ /\ item' = [item EXCEPT ![upload.file].status = "processing"]
                 /\ upload' = [upload EXCEPT !.pc = "list"]
              \/ Faulty("network") /\ Error
        \/ (Faulty("network") \/ doc[d].status # "UPLOADED") /\ Error /\ UNCHANGED doc
  /\ UNCHANGED <<selected, detail, opening, left, clock>>

(* refreshUploadedDocuments; a failure only shows a notice.                  *)
ListDocuments ==
  /\ upload.pc = "list"
  /\ \/ upload' = [upload EXCEPT !.pc = "show", !.seen = Listing]
     \/ Faulty("network") /\ upload' = NoUpload
  /\ UNCHANGED <<item, doc, selected, detail, opening, left, clock>>

ShowDocuments ==
  /\ upload.pc = "show"
  /\ item' = Synced(upload.seen)
  /\ \E d \in Shown(upload.seen, upload.doc) : Select(d)
  /\ upload' = NoUpload
  /\ UNCHANGED <<doc, left, clock>>

UploadStep ==
  \/ \E f \in Files : StartUpload(f)
  \/ \E d \in Docs : Reserve(d)
  \/ Discard \/ RefuseReservation \/ PutFile \/ Complete \/ ListDocuments \/ ShowDocuments

-----------------------------------------------------------------------------
(* The server, and the vault.                                               *)

ProcessDocument(d) ==
  /\ doc[d].status = "PROCESSING"
  /\ \E status \in Ended : doc' = [doc EXCEPT ![d].status = status]
  /\ UNCHANGED <<item, upload, selected, detail, opening, left, clock>>

OpenVault(d) ==
  /\ doc[d].status \in OnServer /\ d # selected
  /\ Select(d)
  /\ UNCHANGED <<item, upload, doc, left, clock>>

(* deleteDocument lists the documents afresh.                               *)
DeleteDocument(d) ==
  /\ doc[d].status \in OnServer
  /\ doc' = Discarded(d)
  /\ item' = Synced(Listing')
  /\ \E e \in Shown(Listing', Null) : Select(e)
  /\ UNCHANGED <<upload, left, clock>>

(* handleReprocess: the list and the detail are fetched again.               *)
Reprocess ==
  /\ selected # Null /\ detail \in Ended /\ ~opening /\ doc[selected].status \in Ended
  /\ doc' = [doc EXCEPT ![selected].status = "PROCESSING"]
  /\ item' = Synced(Listing') /\ detail' = "PROCESSING"
  /\ UNCHANGED <<upload, selected, opening, left, clock>>

(* loadDocumentDetail                                                       *)
ShowDetail ==
  /\ opening
  /\ \/ detail' = IF doc[selected].status \in OnServer THEN doc[selected].status ELSE "NONE"
     \/ Faulty("poll") /\ detail' = "NONE"
  /\ opening' = FALSE
  /\ UNCHANGED <<item, upload, doc, selected, left, clock>>

-----------------------------------------------------------------------------
(* The polls.                                                               *)

(* refreshProcessingStatuses.  A status that cannot be read changes nothing  *)
(* and is asked for again two seconds later.                                *)
ReadQueue ==
  /\ queuePoll = Null /\ Polled # {}
  /\ queuePoll' = {s \in Listing : s[1] \in Polled}
  /\ UNCHANGED <<item, upload, doc, selected, detail, opening, selectedPoll, left, clock>>

ApplyQueue ==
  /\ queuePoll # Null
  /\ item' = Synced(queuePoll) /\ queuePoll' = Null
  /\ UNCHANGED <<upload, doc, selected, detail, opening, selectedPoll, left, clock>>

Unreadable == doc[selected].status \notin OnServer \/ Faulty("poll")

(* refreshProcessingStatus of the selected document: an ended status is      *)
(* settled, and so is an error.                                             *)
PollSelected ==
  /\ selectedPoll = "on"
  /\ UNCHANGED <<upload, doc, selected, opening, left, clock>>
  /\ LET status == doc[selected].status
     IN \/ /\ status \in OnServer
           /\ item' = Synced({<<selected, status>>})
           /\ detail' = IF status \in Live /\ ~opening THEN status ELSE detail
           /\ selectedPoll' = IF status \in Live THEN "on" ELSE "ended"
        \/ /\ Unreadable
           /\ selectedPoll' = "over" /\ UNCHANGED <<item, detail>>
  /\ queuePoll' = IF Polled' # Polled THEN Null ELSE queuePoll

(* fetchDocumentDetail after the end.                                       *)
SettleSelected ==
  /\ selectedPoll = "ended"
  /\ UNCHANGED <<upload, doc, selected, opening, left, clock>>
  /\ LET status == doc[selected].status
     IN \/ /\ status \in OnServer
           /\ item' = Synced({<<selected, status>>})
           /\ detail' = status
           /\ selectedPoll' = IF status \in Live THEN "on" ELSE "off"
        \/ /\ Unreadable
           /\ selectedPoll' = "over" /\ UNCHANGED <<item, detail>>
  /\ queuePoll' = IF Polled' # Polled THEN Null ELSE queuePoll

PollStep == ReadQueue \/ ApplyQueue \/ PollSelected \/ SettleSelected

UserStep ==
  \/ \E f \in Files : Enqueue(f) \/ Retry(f) \/ RemoveItem(f)
  \/ \E d \in Docs : OpenVault(d) \/ DeleteDocument(d)
  \/ Reprocess

PanelNext ==
  \/ (UserStep \/ UploadStep \/ ShowDetail \/ \E d \in Docs : ProcessDocument(d)) /\ Remount
  \/ PollStep

PanelSpec == PanelInit /\ [][PanelNext]_panelVars

(* Requests end, timers fire and the worker processes: nothing is assumed   *)
(* of the user.                                                             *)
PanelFairness ==
  /\ WF_panelVars(UploadStep /\ Remount)
  /\ WF_panelVars(ReadQueue \/ ApplyQueue)
  /\ WF_panelVars(PollSelected \/ SettleSelected)
  /\ WF_panelVars(ShowDetail /\ Remount)
  /\ \A d \in Docs : WF_panelVars(ProcessDocument(d) /\ Remount)

PanelFairSpec == PanelSpec /\ PanelFairness

-----------------------------------------------------------------------------
Evidence(f) == {d \in Docs : doc[d].file = f /\ doc[d].status \in {"PROCESSING"} \cup Ended}

(* A file becomes evidence once: a retry after a reply that was lost does    *)
(* not leave the first document beside the second, unless the DELETE that   *)
(* comes before the retry failed as well (processItem).                     *)
OneEvidencePerFile == \A f \in Files : Cardinality(Evidence(f) \ left) <= 1

(* The item under upload is never shown as settled by news of a document it  *)
(* had before, so it cannot be retried while it runs (syncDocumentStatus).   *)
UploadKeepsItsItem ==
  upload.pc \in {"discard", "create", "put", "complete"} =>
    item[upload.file].status \in {"preparing", "uploading"}

Waiting == \E f \in Files : item[f].status = "queued"

(* The queue never stops: an upload comes to its end, however it fails, and  *)
(* then the next file that waits is taken (the effect on activeUploadId).    *)
QueueMoves ==
  /\ upload.pc # "none" ~> upload.pc = "none"
  /\ Waiting ~> upload.pc # "none" \/ ~Waiting

(* An item whose document is not the selected one follows it to the end, or  *)
(* until it is selected (refreshProcessingStatuses).                        *)
UnselectedItemsSettle ==
  \A d \in Docs :
    LET Unattended == /\ d # selected /\ doc[d].status # "REMOVED"
                      /\ \E f \in Files : item[f] = [status |-> "processing", doc |-> d]
    IN Unattended ~> ~Unattended

(* The evidence of a file is its item's, unless the item was removed or the  *)
(* DELETE failed; and a new document is reserved when there is none.         *)
EvidenceIsTheItems ==
  /\ \A f \in Files : item[f].status # "removed" => Evidence(f) \ left \subseteq {item[f].doc}
  /\ upload.pc = "create" => Evidence(upload.file) \subseteq left

(* What an upload knows of its item.                                         *)
UploadOK ==
  /\ upload.pc # "none" => upload.file \in Files
  /\ upload.pc = "discard" => item[upload.file].doc \in Docs
  /\ upload.pc \in {"put", "complete"} =>
       /\ upload.doc \in Docs /\ doc[upload.doc].file = upload.file
       /\ item[upload.file].doc = upload.doc

(* A file becomes evidence once, and the item under upload is its own       *)
(* upload's, whatever replies are lost or late.                             *)
PanelInv ==
  PanelTypeOK /\ OneEvidencePerFile /\ UploadKeepsItsItem /\ EvidenceIsTheItems /\ UploadOK

(* Uploads come to an end, and the items that wait for the worker too.      *)
UploadsEnd == QueueMoves /\ UnselectedItemsSettle
=============================================================================
