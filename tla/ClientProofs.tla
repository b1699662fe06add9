----------------------------- MODULE ClientProofs ------------------------------
(* The web client: no order of clicks, replies and failures makes a file     *)
(* evidence twice, shows a person what another one asked for, leaves a packet  *)
(* unwatched or keeps a camera running.  Each component, and all of them.    *)
EXTENDS MCClient, FiniteSetTheorems, TLAPS

-----------------------------------------------------------------------------
(* The evidence panel.                                                      *)

ItemStates == [status : {"absent", "queued", "preparing", "uploading",
                         "processing", "processed", "failed", "removed"}, doc : MaybeDoc]
UploadStates == [pc : {"none", "discard", "create", "put", "complete", "list", "show"},
                 file : Files \cup {Null}, doc : MaybeDoc, seen : SUBSET (Docs \X OnServer)]
DocStates == [status : OnServer \cup {"ABSENT", "REMOVED"}, file : Files \cup {Null}]

Settling == {"PROCESSING"} \cup Ended
InFlight == {"discard", "create", "put", "complete"}

(* At most one, whether or not Docs is finite.                             *)
EvidenceIsOne == \A f \in Files : \A d, e \in Evidence(f) \ left : d = e

PanelOK == PanelInv /\ EvidenceIsOne

ViewOK ==
  /\ selected \in MaybeDoc /\ detail \in OnServer \cup {"NONE"} /\ opening \in BOOLEAN
  /\ queuePoll = Null \/ queuePoll \subseteq Docs \X OnServer
  /\ selectedPoll \in {"off", "on", "ended", "over"}

LEMMA AtMostOne ==
  ASSUME NEW S, \A x, y \in S : x = y
  PROVE  Cardinality(S) <= 1
<1>1. CASE S = {} BY <1>1, FS_EmptySet
<1>2. CASE S # {}
  <2>1. PICK x \in S : S = {x} BY <1>2
  <2> QED BY <2>1, FS_Singleton
<1> QED BY <1>1, <1>2

LEMMA PanelTyped ==
  ASSUME PanelOK
  PROVE  /\ item \in [Files -> ItemStates] /\ upload \in UploadStates /\ doc \in [Docs -> DocStates]
         /\ ViewOK /\ left \subseteq Docs
         /\ \A f \in Files : item[f] \in ItemStates
         /\ \A d \in Docs : doc[d] \in DocStates
BY DEF PanelOK, PanelInv, PanelTypeOK, ItemStates, UploadStates, DocStates, ViewOK

(* What a step must leave as it is, whatever else it does.                 *)
LEMMA PanelKept ==
  ASSUME PanelOK,
         item' \in [Files -> ItemStates], upload' \in UploadStates, doc' \in [Docs -> DocStates],
         ViewOK', left \subseteq left', left' \subseteq Docs,
         \A f \in Files : \/ item'[f].status = "removed"
                          \/ item'[f].doc = item[f].doc /\ item[f].status # "removed",
         \A d \in Docs : doc'[d].status \in Settling =>
                           doc[d].status \in Settling /\ doc'[d].file = doc[d].file,
         upload'.pc # "none" => upload'.file \in Files,
         upload'.pc \in InFlight =>
           /\ upload'.file = upload.file /\ upload'.doc = upload.doc
           /\ upload'.pc = upload.pc \/ (upload.pc = "put" /\ upload'.pc = "complete")
           /\ item'[upload.file] = item[upload.file]
           /\ upload.doc \in Docs => doc'[upload.doc].file = doc[upload.doc].file
  PROVE  PanelOK'
<1>1. PanelTypeOK'
  BY DEF PanelTypeOK, ViewOK, ItemStates, UploadStates, DocStates
<1>2. \A f \in Files : (Evidence(f) \ left)' \subseteq Evidence(f) \ left
  BY DEF Evidence, Settling
<1>3. EvidenceIsOne' BY <1>2 DEF PanelOK, EvidenceIsOne
<1>4. OneEvidencePerFile' BY <1>3, AtMostOne DEF EvidenceIsOne, OneEvidencePerFile
<1>5. UploadKeepsItsItem' BY DEF PanelOK, PanelInv, UploadKeepsItsItem, InFlight
<1>6. UploadOK' BY DEF PanelOK, PanelInv, UploadOK, InFlight
<1>7. EvidenceIsTheItems'
  <2>1. ASSUME NEW f \in Files, item'[f].status # "removed"
        PROVE  (Evidence(f) \ left)' \subseteq {item'[f].doc}
    BY <2>1, <1>2 DEF PanelOK, PanelInv, EvidenceIsTheItems
  <2>2. ASSUME upload'.pc = "create" PROVE Evidence(upload.file)' \subseteq left'
    <3>1. upload.pc = "create" /\ upload.file \in Files /\ upload'.file = upload.file
      BY <2>2 DEF InFlight, PanelOK, PanelInv, UploadOK
    <3>2. Evidence(upload.file) \subseteq left
      BY <3>1 DEF PanelOK, PanelInv, EvidenceIsTheItems
    <3>3. Evidence(upload.file)' = {d \in Docs : doc'[d].file = upload.file /\ doc'[d].status \in Settling}
      BY <3>1 DEF Evidence, Settling
    <3> QED BY <3>2, <3>3 DEF Evidence, Settling
  <2> QED BY <2>1, <2>2 DEF EvidenceIsTheItems, InFlight
<1> QED BY <1>1, <1>3, <1>4, <1>5, <1>6, <1>7 DEF PanelOK, PanelInv

(* News of documents changes the status of items that wait for it.         *)
LEMMA NewsIsOfProcessing ==
  ASSUME PanelOK, NEW seen, \A s \in seen : s[2] \in OnServer
  PROVE  /\ Synced(seen) \in [Files -> ItemStates]
         /\ \A f \in Files :
              /\ Synced(seen)[f].doc = item[f].doc
              /\ item[f].status # "processing" => Synced(seen)[f] = item[f]
              /\ item[f].status = "removed" \/ Synced(seen)[f].status # "removed"
<1>1. ASSUME NEW status \in OnServer PROVE ItemStatus(status) \in {"processing", "processed", "failed"}
  BY DEF ItemStatus, OnServer, Live, Ended
<1>2. ASSUME NEW f \in Files
      PROVE  /\ Synced(seen)[f] \in ItemStates /\ Synced(seen)[f].doc = item[f].doc
             /\ item[f].status # "processing" => Synced(seen)[f] = item[f]
             /\ item[f].status = "removed" \/ Synced(seen)[f].status # "removed"
  <2>1. item[f] \in ItemStates BY PanelTyped
  <2>2. CASE \E s \in seen : Follows(f, s[1])
    <3>1. PICK s \in seen : s = CHOOSE u \in seen : Follows(f, u[1]) BY <2>2
    <3>2. Synced(seen)[f] = [item[f] EXCEPT !.status = ItemStatus(s[2])] BY <2>2, <3>1 DEF Synced
    <3>3. ItemStatus(s[2]) \in {"processing", "processed", "failed"} BY <1>1
    <3>4. item[f].status = "processing" BY <2>2 DEF Follows
    <3> QED BY <2>1, <3>2, <3>3, <3>4 DEF ItemStates
  <2>3. CASE ~\E s \in seen : Follows(f, s[1])
    <3>1. Synced(seen)[f] = item[f] BY <2>3 DEF Synced
    <3> QED BY <2>1, <3>1
  <2> QED BY <2>2, <2>3
<1> QED BY <1>2 DEF Synced

LEMMA ShownIsThere ==
  ASSUME PanelOK, NEW seen \in SUBSET (Docs \X OnServer), NEW preferred, NEW d \in Shown(seen, preferred)
  PROVE  d \in MaybeDoc
BY DEF Shown, MaybeDoc

LEMMA SelectTyped ==
  ASSUME PanelOK, NEW d \in MaybeDoc, Select(d)
  PROVE  selected' \in MaybeDoc /\ detail' \in OnServer \cup {"NONE"} /\ opening' \in BOOLEAN
BY PanelTyped DEF Select, ViewOK

LEMMA RemountTyped ==
  ASSUME PanelOK, Remount
  PROVE  /\ queuePoll' = Null \/ queuePoll' \subseteq Docs \X OnServer
         /\ selectedPoll' \in {"off", "on", "ended", "over"}
BY PanelTyped DEF Remount, ViewOK

LEMMA ListingTyped ==
  /\ Listing \subseteq Docs \X OnServer
  /\ Listing' \subseteq Docs \X OnServer
BY DEF Listing

-----------------------------------------------------------------------------
(* Steps of the queue, one by one.                                         *)

LEMMA StartHolds ==
  ASSUME PanelOK, NEW f \in Files, StartUpload(f), ViewOK'
  PROVE  PanelOK'
<1>1. /\ upload.pc = "none" /\ item[f].status = "queued"
      /\ item' = [item EXCEPT ![f].status = "preparing"]
      /\ UNCHANGED <<doc, left>>
  BY DEF StartUpload
<1>2. /\ upload' \in UploadStates /\ upload'.file = f
      /\ upload'.pc = IF item[f].doc = Null THEN "create" ELSE "discard"
  BY DEF StartUpload, NoUpload, UploadStates, MaybeDoc
<1>3. /\ item' \in [Files -> ItemStates] /\ item'[f].status = "preparing"
      /\ \A g \in Files : item'[g].doc = item[g].doc /\ (g # f => item'[g] = item[g])
  BY <1>1, PanelTyped DEF ItemStates
<1>4. \A g \in Files : Evidence(g)' = Evidence(g)
  BY <1>1 DEF Evidence
<1>5. PanelTypeOK'
  BY <1>1, <1>2, <1>3, PanelTyped DEF PanelTypeOK, ViewOK, ItemStates, UploadStates, DocStates
<1>6. EvidenceIsOne' /\ OneEvidencePerFile'
  BY <1>1, <1>4, AtMostOne DEF PanelOK, EvidenceIsOne, OneEvidencePerFile
<1>7. UploadKeepsItsItem' BY <1>2, <1>3 DEF UploadKeepsItsItem
<1>8. UploadOK'
  <2>1. item[f].doc \in MaybeDoc BY PanelTyped DEF ItemStates
  <2> QED BY <1>2, <1>3, <2>1 DEF UploadOK, MaybeDoc
<1>9. EvidenceIsTheItems'
  <2>1. \A g \in Files : item[g].status # "removed" => Evidence(g) \ left \subseteq {item[g].doc}
    BY DEF PanelOK, PanelInv, EvidenceIsTheItems
  <2>2. \A g \in Files : item'[g].status # "removed" => Evidence(g)' \ left' \subseteq {item'[g].doc}
    BY <1>1, <1>3, <1>4, <2>1
  <2>3. item[f].doc = Null => Evidence(f) \subseteq left
    BY <1>1, <2>1, PanelAssumption DEF Evidence
  <2> QED BY <1>1, <1>2, <1>4, <2>2, <2>3 DEF EvidenceIsTheItems
<1> QED BY <1>5, <1>6, <1>7, <1>8, <1>9 DEF PanelOK, PanelInv

LEMMA DiscardHolds ==
  ASSUME PanelOK, Discard, ViewOK'
  PROVE  PanelOK'
<1>1. PICK f \in Files : f = upload.file /\ upload.pc = "discard"
  BY DEF Discard, PanelOK, PanelInv, UploadOK
<1>2. /\ item[f].status \in {"preparing", "uploading"} /\ item[f].doc \in Docs
      /\ Evidence(f) \ left \subseteq {item[f].doc}
  BY <1>1 DEF PanelOK, PanelInv, UploadOK, UploadKeepsItsItem, EvidenceIsTheItems
<1>3. /\ upload' \in UploadStates /\ upload'.file = f /\ upload'.pc = "create"
      /\ item' = item
  BY <1>1, PanelTyped DEF Discard, UploadStates
<1>4. /\ doc' \in [Docs -> DocStates] /\ left \subseteq left' /\ left' \subseteq Docs
      /\ \A d \in Docs : /\ doc'[d].file = doc[d].file
                         /\ doc'[d].status = doc[d].status \/ doc'[d].status = "REMOVED"
      /\ doc'[item[f].doc].status \in {"ABSENT", "REMOVED"} \/ item[f].doc \in left'
  <2>1. CASE doc' = Discarded(item[f].doc) /\ UNCHANGED left
    <3>1. doc[item[f].doc] \in DocStates BY <1>2, PanelTyped
    <3> QED BY <1>2, <2>1, <3>1, PanelTyped DEF Discarded, DocStates
  <2>2. CASE left' = left \cup {item[f].doc} /\ UNCHANGED doc BY <1>2, <2>2, PanelTyped
  <2> QED BY <1>1, <2>1, <2>2 DEF Discard
<1>5. \A g \in Files : (Evidence(g) \ left)' \subseteq Evidence(g) \ left
  BY <1>4 DEF Evidence, Ended
<1>6. Evidence(f)' \subseteq left'
  BY <1>2, <1>4, <1>5 DEF Evidence, Ended
<1>7. PanelTypeOK'
  BY <1>3, <1>4, PanelTyped DEF PanelTypeOK, ViewOK, ItemStates, UploadStates, DocStates
<1>8. EvidenceIsOne' BY <1>5 DEF PanelOK, EvidenceIsOne
<1>9. OneEvidencePerFile' BY <1>8, AtMostOne DEF EvidenceIsOne, OneEvidencePerFile
<1>10. UploadKeepsItsItem' /\ UploadOK'
  BY <1>2, <1>3 DEF UploadKeepsItsItem, UploadOK
<1>11. EvidenceIsTheItems'
  BY <1>3, <1>5, <1>6 DEF PanelOK, PanelInv, EvidenceIsTheItems
<1> QED BY <1>7, <1>8, <1>9, <1>10, <1>11 DEF PanelOK, PanelInv

LEMMA ReserveHolds ==
  ASSUME PanelOK, NEW d \in Docs, Reserve(d), ViewOK'
  PROVE  PanelOK'
<1>1. PICK f \in Files : f = upload.file /\ upload.pc = "create" /\ doc[d].status = "ABSENT"
  BY DEF Reserve, PanelOK, PanelInv, UploadOK
<1>2. /\ item[f].status \in {"preparing", "uploading"} /\ item[f] \in ItemStates
      /\ Evidence(f) \subseteq left
  BY <1>1, PanelTyped DEF PanelOK, PanelInv, UploadKeepsItsItem, EvidenceIsTheItems
<1>3. doc' = [doc EXCEPT ![d] = [status |-> "UPLOADED", file |-> f]] /\ UNCHANGED left
  BY <1>1 DEF Reserve
<1>4. /\ doc' \in [Docs -> DocStates] /\ doc'[d].status = "UPLOADED" /\ doc'[d].file = f
      /\ \A e \in Docs \ {d} : doc'[e] = doc[e]
  BY <1>3, PanelTyped DEF DocStates, OnServer, Live
<1>5. \A e \in Docs : doc'[e].status \in Settling => doc[e].status \in Settling /\ doc'[e].file = doc[e].file
  BY <1>4 DEF Settling, Ended
<1>6. CASE item' = [item EXCEPT ![f] = [status |-> "uploading", doc |-> d]]
           /\ upload' = [upload EXCEPT !.pc = "put", !.doc = d]
  <2>1. /\ item' \in [Files -> ItemStates] /\ item'[f].status = "uploading" /\ item'[f].doc = d
        /\ \A g \in Files \ {f} : item'[g] = item[g]
    BY <1>6, PanelTyped DEF ItemStates, MaybeDoc
  <2>2. upload' \in UploadStates /\ upload'.pc = "put" /\ upload'.doc = d /\ upload'.file = f
    BY <1>1, <1>6, PanelTyped DEF UploadStates, MaybeDoc
  <2>3. \A g \in Files : (Evidence(g) \ left)' \subseteq Evidence(g) \ left
    BY <1>3, <1>5 DEF Evidence, Settling
  <2>4. PanelTypeOK'
    BY <1>3, <1>4, <2>1, <2>2, PanelTyped DEF PanelTypeOK, ViewOK, ItemStates, UploadStates, DocStates
  <2>5. EvidenceIsOne' BY <2>3 DEF PanelOK, EvidenceIsOne
  <2>6. OneEvidencePerFile' BY <2>5, AtMostOne DEF EvidenceIsOne, OneEvidencePerFile
  <2>7. UploadKeepsItsItem' /\ UploadOK'
    BY <1>4, <2>1, <2>2 DEF UploadKeepsItsItem, UploadOK
  <2>8. EvidenceIsTheItems'
    <3>1. ASSUME NEW g \in Files, item'[g].status # "removed"
          PROVE  (Evidence(g) \ left)' \subseteq {item'[g].doc}
      <4>1. CASE g = f BY <1>2, <2>3, <4>1
      <4>2. CASE g # f BY <2>1, <2>3, <3>1, <4>2 DEF PanelOK, PanelInv, EvidenceIsTheItems
      <4> QED BY <4>1, <4>2
    <3> QED BY <2>2, <3>1 DEF EvidenceIsTheItems
  <2> QED BY <2>4, <2>5, <2>6, <2>7, <2>8 DEF PanelOK, PanelInv
<1>7. CASE item' = Failed /\ upload' = NoUpload
  <2>1. /\ item' \in [Files -> ItemStates]
        /\ \A g \in Files : item'[g].status = "removed" \/ (item'[g].doc = item[g].doc /\ item[g].status # "removed")
    BY <1>1, <1>2, <1>7, PanelTyped DEF Failed, ItemStates
  <2>2. upload' \in UploadStates /\ upload'.pc = "none"
    BY <1>7 DEF NoUpload, UploadStates, MaybeDoc
  <2>3. left \subseteq left' /\ left' \subseteq Docs BY <1>3, PanelTyped
  <2>4. upload'.pc \notin InFlight BY <2>2 DEF InFlight
  <2> QED BY <1>4, <1>5, <2>1, <2>2, <2>3, <2>4, PanelKept
<1> QED BY <1>1, <1>6, <1>7 DEF Reserve

LEMMA CompleteHolds ==
  ASSUME PanelOK, Complete, ViewOK'
  PROVE  PanelOK'
<1>1. PICK f \in Files, d \in Docs :
        /\ f = upload.file /\ d = upload.doc /\ upload.pc = "complete"
        /\ doc[d].file = f /\ item[f].doc = d
        /\ item[f].status \in {"preparing", "uploading"} /\ item[f] \in ItemStates
  BY PanelTyped DEF Complete, PanelOK, PanelInv, UploadOK, UploadKeepsItsItem
<1>2. /\ UNCHANGED left /\ left' \subseteq Docs
      /\ \A g \in Files : item[g].status # "removed" => Evidence(g) \ left \subseteq {item[g].doc}
  BY PanelTyped DEF Complete, PanelOK, PanelInv, EvidenceIsTheItems
<1>3. item' \in [Files -> ItemStates] /\ item'[f].status # "removed"
      /\ \A g \in Files : /\ item'[g].doc = item[g].doc
                          /\ g # f => item'[g] = item[g]
  <2>1. PICK status \in {"processing", "failed"} : item' = [item EXCEPT ![f].status = status]
    BY <1>1 DEF Complete, Failed
  <2> QED BY <1>1, <2>1, PanelTyped DEF ItemStates
<1>4. upload' \in UploadStates /\ upload'.pc \notin InFlight
      /\ (upload'.pc # "none" => upload'.file \in Files)
  BY <1>1, PanelTyped DEF Complete, NoUpload, UploadStates, MaybeDoc, InFlight
<1>5. CASE doc' = [doc EXCEPT ![d].status = "PROCESSING"]
  <2>1. /\ doc' \in [Docs -> DocStates] /\ \A e \in Docs : doc'[e].file = doc[e].file
        /\ \A e \in Docs \ {d} : doc'[e] = doc[e]
    BY <1>5, PanelTyped DEF DocStates, OnServer, Live
  <2>2. PanelTypeOK'
    BY <1>2, <1>3, <1>4, <2>1 DEF PanelTypeOK, ViewOK, ItemStates, UploadStates, DocStates
  <2>3. \A g \in Files \ {f} : Evidence(g)' \subseteq Evidence(g)
    BY <1>1, <2>1 DEF Evidence
  <2>4. (Evidence(f) \ left)' \subseteq {d}
    BY <1>1, <1>2, <2>1 DEF Evidence
  <2>5. EvidenceIsOne' BY <1>2, <2>3, <2>4 DEF PanelOK, EvidenceIsOne
  <2>6. OneEvidencePerFile' BY <2>5, AtMostOne DEF EvidenceIsOne, OneEvidencePerFile
  <2>7. UploadKeepsItsItem' /\ UploadOK'
    BY <1>4 DEF UploadKeepsItsItem, UploadOK, InFlight
  <2>8. ASSUME NEW g \in Files, item'[g].status # "removed"
        PROVE  (Evidence(g) \ left)' \subseteq {item'[g].doc}
    <3>1. CASE g = f BY <1>1, <1>3, <2>4, <3>1
    <3>2. CASE g # f BY <1>2, <1>3, <2>3, <2>8, <3>2
    <3> QED BY <3>1, <3>2
  <2>9. EvidenceIsTheItems' BY <1>4, <2>8 DEF EvidenceIsTheItems, InFlight
  <2> QED BY <2>2, <2>5, <2>6, <2>7, <2>9 DEF PanelOK, PanelInv
<1>6. CASE UNCHANGED doc
  <2>1. /\ doc' \in [Docs -> DocStates]
        /\ \A e \in Docs : doc'[e].status \in Settling => doc[e].status \in Settling /\ doc'[e].file = doc[e].file
    BY <1>6, PanelTyped
  <2>2. \A g \in Files : item'[g].status = "removed" \/ (item'[g].doc = item[g].doc /\ item[g].status # "removed")
    BY <1>1, <1>3
  <2>3. left \subseteq left' BY <1>2
  <2> QED BY <1>2, <1>3, <1>4, <2>1, <2>2, <2>3, PanelKept
<1> QED BY <1>1, <1>5, <1>6 DEF Complete

-----------------------------------------------------------------------------
(* The other steps keep what PanelKept asks for.                           *)

(* An upload that goes on, or is over.                                     *)
UploadGoesOn ==
  /\ upload' \in UploadStates
  /\ upload'.pc # "none" => upload'.file \in Files
  /\ upload'.pc \in InFlight =>
       /\ upload'.file = upload.file /\ upload'.doc = upload.doc
       /\ upload'.pc = upload.pc \/ (upload.pc = "put" /\ upload'.pc = "complete")

(* Documents that only lose their place, or are processed.                 *)
NoNewEvidence ==
  /\ doc' \in [Docs -> DocStates]
  /\ \A d \in Docs : /\ doc'[d].file = doc[d].file
                     /\ doc'[d].status \in Settling => doc[d].status \in Settling

LEMMA UploadStays == PanelOK /\ UNCHANGED upload => UploadGoesOn
BY PanelTyped DEF UploadGoesOn, PanelOK, PanelInv, UploadOK

LEMMA DocumentsStay == PanelOK /\ UNCHANGED doc => NoNewEvidence
BY PanelTyped DEF NoNewEvidence

(* The user queues, retries and removes items; a request fails.            *)
LEMMA ItemHolds ==
  ASSUME PanelOK, ViewOK', UploadGoesOn, NoNewEvidence, UNCHANGED left,
         NEW f \in Files, NEW row \in ItemStates, item' = [item EXCEPT ![f] = row],
         row.status = "removed" \/ (row.doc = item[f].doc /\ item[f].status # "removed"),
         upload'.pc \in InFlight => upload.file # f
  PROVE  PanelOK'
<1>1. /\ item' \in [Files -> ItemStates] /\ item'[f] = row
      /\ \A g \in Files \ {f} : item'[g] = item[g]
  BY PanelTyped
<1>2. /\ \A g \in Files : item'[g].status = "removed" \/ (item'[g].doc = item[g].doc /\ item[g].status # "removed")
      /\ left \subseteq left' /\ left' \subseteq Docs
  BY <1>1, PanelTyped
<1>3. /\ doc' \in [Docs -> DocStates]
      /\ \A d \in Docs : doc'[d].status \in Settling => doc[d].status \in Settling /\ doc'[d].file = doc[d].file
  BY DEF NoNewEvidence
<1>4. upload'.pc \in InFlight =>
        /\ upload'.file = upload.file /\ upload'.doc = upload.doc
        /\ upload'.pc = upload.pc \/ (upload.pc = "put" /\ upload'.pc = "complete")
        /\ item'[upload.file] = item[upload.file]
        /\ upload.doc \in Docs => doc'[upload.doc].file = doc[upload.doc].file
  <2>1. upload'.pc \in InFlight => upload.file \in Files
    BY DEF UploadGoesOn, InFlight
  <2> QED BY <1>1, <2>1 DEF UploadGoesOn, NoNewEvidence
<1> QED BY <1>1, <1>2, <1>3, <1>4, PanelKept DEF UploadGoesOn

(* Statuses are read, and items that are processing follow them.           *)
LEMMA NewsHolds ==
  ASSUME PanelOK, ViewOK', UploadGoesOn, NoNewEvidence, UNCHANGED left,
         UNCHANGED item \/ \E seen : (\A s \in seen : s[2] \in OnServer) /\ item' = Synced(seen)
  PROVE  PanelOK'
<1>1. /\ item' \in [Files -> ItemStates]
      /\ \A g \in Files : /\ item'[g].doc = item[g].doc
                          /\ item[g].status # "processing" => item'[g] = item[g]
                          /\ item[g].status = "removed" \/ item'[g].status # "removed"
  BY PanelTyped, NewsIsOfProcessing
<1>2. /\ \A g \in Files : item'[g].status = "removed" \/ (item'[g].doc = item[g].doc /\ item[g].status # "removed")
      /\ left \subseteq left' /\ left' \subseteq Docs
  BY <1>1, PanelTyped
<1>3. /\ doc' \in [Docs -> DocStates]
      /\ \A d \in Docs : doc'[d].status \in Settling => doc[d].status \in Settling /\ doc'[d].file = doc[d].file
  BY DEF NoNewEvidence
<1>4. upload'.pc \in InFlight =>
        /\ upload'.file = upload.file /\ upload'.doc = upload.doc
        /\ upload'.pc = upload.pc \/ (upload.pc = "put" /\ upload'.pc = "complete")
        /\ item'[upload.file] = item[upload.file]
        /\ upload.doc \in Docs => doc'[upload.doc].file = doc[upload.doc].file
  <2>1. upload'.pc \in InFlight => upload.file \in Files /\ item[upload.file].status # "processing"
    BY DEF UploadGoesOn, InFlight, PanelOK, PanelInv, UploadKeepsItsItem
  <2> QED BY <1>1, <2>1 DEF UploadGoesOn, NoNewEvidence
<1> QED BY <1>1, <1>2, <1>3, <1>4, PanelKept DEF UploadGoesOn

-----------------------------------------------------------------------------
(* What is on display is typed, whatever the step.                         *)
LEMMA ViewTyped ==
  ASSUME PanelOK, Remount,
         \/ UNCHANGED <<selected, detail, opening>>
         \/ \E d \in MaybeDoc : Select(d)
         \/ selected' = selected /\ detail' \in OnServer \cup {"NONE"} /\ opening' \in BOOLEAN
  PROVE  ViewOK'
<1>1. selected' \in MaybeDoc /\ detail' \in OnServer \cup {"NONE"} /\ opening' \in BOOLEAN
  BY PanelTyped, SelectTyped DEF ViewOK
<1> QED BY <1>1, RemountTyped DEF ViewOK

LEMMA UserHolds ==
  ASSUME PanelOK, UserStep, Remount
  PROVE  PanelOK'
<1>1. ASSUME NEW f \in Files, Enqueue(f) \/ Retry(f) PROVE PanelOK'
  <2>1. /\ item[f].status \in {"absent", "failed"} /\ item' = [item EXCEPT ![f].status = "queued"]
        /\ UNCHANGED <<upload, doc, selected, detail, opening, left>>
    BY <1>1 DEF Enqueue, Retry
  <2>2. item[f] \in ItemStates BY PanelTyped
  <2>3. PICK row \in ItemStates : row = [item[f] EXCEPT !.status = "queued"] BY <2>2 DEF ItemStates
  <2>4. row.doc = item[f].doc /\ item[f].status # "removed" BY <2>1, <2>2, <2>3 DEF ItemStates
  <2>5. item' = [item EXCEPT ![f] = row] BY <2>1, <2>3
  <2>6. upload'.pc \in InFlight => upload.file # f
    BY <2>1 DEF PanelOK, PanelInv, UploadKeepsItsItem, InFlight
  <2>7. ViewOK' /\ UploadGoesOn /\ NoNewEvidence BY <2>1, ViewTyped, UploadStays, DocumentsStay
  <2> QED BY <2>1, <2>4, <2>5, <2>6, <2>7, ItemHolds
<1>2. ASSUME NEW f \in Files, RemoveItem(f) PROVE PanelOK'
  <2>1. /\ upload.file # f /\ item' = [item EXCEPT ![f] = [status |-> "removed", doc |-> Null]]
        /\ UNCHANGED <<upload, doc, selected, detail, opening, left>>
    BY <1>2 DEF RemoveItem
  <2>2. PICK row \in ItemStates : row = [status |-> "removed", doc |-> Null] BY DEF ItemStates, MaybeDoc
  <2>3. row.status = "removed" /\ item' = [item EXCEPT ![f] = row] BY <2>1, <2>2
  <2>4. ViewOK' /\ UploadGoesOn /\ NoNewEvidence BY <2>1, ViewTyped, UploadStays, DocumentsStay
  <2> QED BY <2>1, <2>3, <2>4, ItemHolds
<1>3. ASSUME NEW d \in Docs, OpenVault(d) PROVE PanelOK'
  <2>1. Select(d) /\ UNCHANGED <<item, upload, doc, left>> BY <1>3 DEF OpenVault
  <2>2. ViewOK' BY <2>1, ViewTyped DEF MaybeDoc
  <2> QED BY <2>1, <2>2, UploadStays, DocumentsStay, NewsHolds
<1>4. ASSUME NEW d \in Docs, DeleteDocument(d) PROVE PanelOK'
  <2>1. /\ doc' = Discarded(d) /\ item' = Synced(Listing') /\ UNCHANGED <<upload, left>>
        /\ \E e \in Shown(Listing', Null) : Select(e)
    BY <1>4 DEF DeleteDocument
  <2>2. doc[d] \in DocStates BY PanelTyped
  <2>3. NoNewEvidence
    BY <2>1, <2>2, PanelTyped DEF NoNewEvidence, Discarded, DocStates, Settling, Ended
  <2>4. PICK seen \in SUBSET (Docs \X OnServer) : seen = Listing' BY ListingTyped
  <2>5. (\A s \in seen : s[2] \in OnServer) /\ item' = Synced(seen) BY <2>1, <2>4
  <2>6. ViewOK' BY <2>1, <2>4, ShownIsThere, ViewTyped
  <2> QED BY <2>1, <2>3, <2>5, <2>6, UploadStays, NewsHolds
<1>5. CASE Reprocess
  <2>1. /\ selected \in Docs /\ doc[selected].status \in Ended
        /\ doc' = [doc EXCEPT ![selected].status = "PROCESSING"]
        /\ item' = Synced(Listing') /\ detail' = "PROCESSING" /\ UNCHANGED <<upload, selected, opening, left>>
    BY <1>5, PanelTyped DEF Reprocess, ViewOK, MaybeDoc
  <2>2. doc[selected] \in DocStates BY <2>1, PanelTyped
  <2>3. NoNewEvidence
    BY <2>1, <2>2, PanelTyped DEF NoNewEvidence, DocStates, Settling, OnServer, Live
  <2>4. PICK seen \in SUBSET (Docs \X OnServer) : seen = Listing' BY ListingTyped
  <2>5. (\A s \in seen : s[2] \in OnServer) /\ item' = Synced(seen) BY <2>1, <2>4
  <2>6. selected' = selected /\ detail' \in OnServer \cup {"NONE"} /\ opening' \in BOOLEAN
    BY <2>1, PanelTyped DEF ViewOK, OnServer, Live
  <2>7. ViewOK' BY <2>6, ViewTyped
  <2> QED BY <2>1, <2>3, <2>5, <2>7, UploadStays, NewsHolds
<1> QED BY <1>1, <1>2, <1>3, <1>4, <1>5 DEF UserStep

LEMMA UploadHolds ==
  ASSUME PanelOK, UploadStep, Remount
  PROVE  PanelOK'
<1>1. ASSUME NEW f \in Files, StartUpload(f) PROVE PanelOK'
  <2>1. UNCHANGED <<selected, detail, opening>> BY <1>1 DEF StartUpload
  <2> QED BY <1>1, <2>1, ViewTyped, StartHolds
<1>2. ASSUME NEW d \in Docs, Reserve(d) PROVE PanelOK'
  <2>1. UNCHANGED <<selected, detail, opening>> BY <1>2 DEF Reserve
  <2> QED BY <1>2, <2>1, ViewTyped, ReserveHolds
<1>3. CASE Discard
  <2>1. UNCHANGED <<selected, detail, opening>> BY <1>3 DEF Discard
  <2> QED BY <1>3, <2>1, ViewTyped, DiscardHolds
<1>4. CASE Complete
  <2>1. UNCHANGED <<selected, detail, opening>> BY <1>4 DEF Complete
  <2> QED BY <1>4, <2>1, ViewTyped, CompleteHolds
<1>5. ASSUME upload.pc \in InFlight, item' = Failed, upload' = NoUpload,
             UNCHANGED <<doc, selected, detail, opening, left>>
      PROVE  PanelOK'
  <2>1. PICK f \in Files : f = upload.file /\ item[f].status # "removed" /\ item[f] \in ItemStates
    BY <1>5, PanelTyped DEF InFlight, PanelOK, PanelInv, UploadOK, UploadKeepsItsItem
  <2>2. PICK row \in ItemStates : row = [item[f] EXCEPT !.status = "failed"] BY <2>1 DEF ItemStates
  <2>3. row.doc = item[f].doc /\ item' = [item EXCEPT ![f] = row]
    BY <1>5, <2>1, <2>2 DEF Failed, ItemStates
  <2>4. UploadGoesOn /\ upload'.pc \notin InFlight
    BY <1>5 DEF UploadGoesOn, NoUpload, UploadStates, MaybeDoc, InFlight
  <2>5. ViewOK' /\ NoNewEvidence BY <1>5, ViewTyped, DocumentsStay
  <2> QED BY <1>5, <2>1, <2>3, <2>4, <2>5, ItemHolds
<1>6. CASE RefuseReservation
  BY <1>5, <1>6 DEF RefuseReservation, InFlight
<1>7. CASE PutFile
  <2>1. CASE upload' = [upload EXCEPT !.pc = "complete"] /\ UNCHANGED item
    <3>1. upload.pc = "put" /\ UNCHANGED <<doc, selected, detail, opening, left>> BY <1>7 DEF PutFile
    <3>2. UploadGoesOn
      BY <2>1, <3>1, PanelTyped DEF UploadGoesOn, UploadStates, PanelOK, PanelInv, UploadOK
    <3>3. ViewOK' /\ NoNewEvidence BY <3>1, ViewTyped, DocumentsStay
    <3> QED BY <2>1, <3>1, <3>2, <3>3, NewsHolds
  <2>2. CASE item' = Failed /\ upload' = NoUpload
    BY <1>5, <1>7, <2>2 DEF PutFile, InFlight
  <2> QED BY <1>7, <2>1, <2>2 DEF PutFile
<1>8. CASE ListDocuments
  <2>1. upload.pc = "list" /\ UNCHANGED <<item, doc, selected, detail, opening, left>>
    BY <1>8 DEF ListDocuments
  <2>2. upload.file \in Files BY <2>1 DEF PanelOK, PanelInv, UploadOK
  <2>3. UploadGoesOn
    <3>1. CASE upload' = [upload EXCEPT !.pc = "show", !.seen = Listing]
      BY <2>2, <3>1, PanelTyped, ListingTyped DEF UploadGoesOn, UploadStates, InFlight
    <3>2. CASE upload' = NoUpload
      BY <3>2 DEF UploadGoesOn, NoUpload, UploadStates, MaybeDoc, InFlight
    <3> QED BY <1>8, <3>1, <3>2 DEF ListDocuments
  <2>4. ViewOK' /\ NoNewEvidence BY <2>1, ViewTyped, DocumentsStay
  <2> QED BY <2>1, <2>3, <2>4, NewsHolds
<1>9. CASE ShowDocuments
  <2>1. /\ item' = Synced(upload.seen) /\ upload' = NoUpload /\ UNCHANGED <<doc, left>>
        /\ \E d \in Shown(upload.seen, upload.doc) : Select(d)
    BY <1>9 DEF ShowDocuments
  <2>2. upload.seen \in SUBSET (Docs \X OnServer) BY PanelTyped DEF UploadStates
  <2>3. UploadGoesOn BY <2>1 DEF UploadGoesOn, NoUpload, UploadStates, MaybeDoc, InFlight
  <2>4. ViewOK' BY <2>1, <2>2, ShownIsThere, ViewTyped
  <2>5. (\A s \in upload.seen : s[2] \in OnServer) /\ item' = Synced(upload.seen) BY <2>1, <2>2
  <2> QED BY <2>1, <2>3, <2>4, <2>5, DocumentsStay, NewsHolds
<1> QED BY <1>1, <1>2, <1>3, <1>4, <1>6, <1>7, <1>8, <1>9 DEF UploadStep

LEMMA ServerHolds ==
  ASSUME PanelOK, ShowDetail \/ (\E d \in Docs : ProcessDocument(d)), Remount
  PROVE  PanelOK'
<1>1. CASE ShowDetail
  <2>1. /\ selected' = selected /\ detail' \in OnServer \cup {"NONE"} /\ opening' = FALSE
        /\ UNCHANGED <<item, upload, doc, left>>
    BY <1>1 DEF ShowDetail
  <2>2. ViewOK' BY <2>1, ViewTyped
  <2> QED BY <2>1, <2>2, UploadStays, DocumentsStay, NewsHolds
<1>2. ASSUME NEW d \in Docs, ProcessDocument(d) PROVE PanelOK'
  <2>1. PICK status \in Ended : doc' = [doc EXCEPT ![d].status = status] BY <1>2 DEF ProcessDocument
  <2>2. doc[d].status = "PROCESSING" /\ doc[d] \in DocStates
        /\ UNCHANGED <<item, upload, selected, detail, opening, left>>
    BY <1>2, PanelTyped DEF ProcessDocument
  <2>3. NoNewEvidence
    BY <2>1, <2>2, PanelTyped DEF NoNewEvidence, DocStates, Settling, OnServer
  <2> QED BY <2>2, <2>3, ViewTyped, UploadStays, NewsHolds
<1> QED BY <1>1, <1>2

LEMMA PollHolds ==
  ASSUME PanelOK, PollStep
  PROVE  PanelOK'
<1>1. /\ UNCHANGED <<upload, doc, selected, opening, left>> /\ UploadGoesOn /\ NoNewEvidence
  BY UploadStays, DocumentsStay DEF PollStep, ReadQueue, ApplyQueue, PollSelected, SettleSelected
<1>2. CASE ReadQueue
  <2>1. queuePoll' \subseteq Docs \X OnServer /\ UNCHANGED <<item, selectedPoll, detail>>
    BY <1>2, ListingTyped DEF ReadQueue
  <2>2. ViewOK' BY <1>1, <2>1, PanelTyped DEF ViewOK
  <2> QED BY <1>1, <2>1, <2>2, NewsHolds
<1>3. CASE ApplyQueue
  <2>1. /\ queuePoll \subseteq Docs \X OnServer /\ item' = Synced(queuePoll)
        /\ queuePoll' = Null /\ UNCHANGED <<selectedPoll, detail>>
    BY <1>3, PanelTyped DEF ApplyQueue, ViewOK
  <2>2. ViewOK' BY <1>1, <2>1, PanelTyped DEF ViewOK
  <2>3. (\A s \in queuePoll : s[2] \in OnServer) /\ item' = Synced(queuePoll) BY <2>1
  <2> QED BY <1>1, <2>2, <2>3, NewsHolds
<1>4. CASE PollSelected \/ SettleSelected
  <2>1. /\ queuePoll' \in {Null, queuePoll} /\ selectedPoll' \in {"on", "ended", "over", "off"}
        /\ detail' \in OnServer \cup {"NONE"}
        /\ \/ UNCHANGED item
           \/ doc[selected].status \in OnServer /\ item' = Synced({<<selected, doc[selected].status>>})
    BY <1>4, PanelTyped DEF PollSelected, SettleSelected, ViewOK
  <2>2. ViewOK' BY <1>1, <2>1, PanelTyped DEF ViewOK
  <2>3. UNCHANGED item \/ \E seen : (\A s \in seen : s[2] \in OnServer) /\ item' = Synced(seen)
    <3>1. CASE doc[selected].status \in OnServer /\ item' = Synced({<<selected, doc[selected].status>>})
      <4>1. PICK seen : seen = {<<selected, doc[selected].status>>} OBVIOUS
      <4>2. \A s \in seen : s[2] \in OnServer BY <3>1, <4>1
      <4> QED BY <3>1, <4>1, <4>2
    <3> QED BY <2>1, <3>1
  <2> QED BY <1>1, <2>2, <2>3, NewsHolds
<1> QED BY <1>2, <1>3, <1>4 DEF PollStep

LEMMA PanelStarts == PanelInit => PanelOK
<1> SUFFICES ASSUME PanelInit PROVE PanelOK OBVIOUS
<1>1. PanelTypeOK
  BY DEF PanelInit, PanelTypeOK, NoUpload, MaybeDoc
<1>2. \A f \in Files : Evidence(f) = {} BY DEF PanelInit, Evidence, Ended
<1>3. EvidenceIsOne BY <1>2 DEF EvidenceIsOne
<1>4. OneEvidencePerFile BY <1>3, AtMostOne DEF EvidenceIsOne, OneEvidencePerFile
<1>5. UploadKeepsItsItem /\ UploadOK BY DEF PanelInit, NoUpload, UploadKeepsItsItem, UploadOK
<1>6. EvidenceIsTheItems BY <1>2 DEF EvidenceIsTheItems, PanelInit, NoUpload
<1> QED BY <1>1, <1>3, <1>4, <1>5, <1>6 DEF PanelOK, PanelInv

LEMMA PanelStands ==
  ASSUME PanelOK, UNCHANGED <<item, upload, doc, selected, detail, opening, queuePoll, selectedPoll, left>>
  PROVE  PanelOK'
<1>1. ViewOK' BY PanelTyped DEF ViewOK
<1> QED BY <1>1, UploadStays, DocumentsStay, NewsHolds

LEMMA PanelStep == PanelOK /\ [PanelNext]_panelVars => PanelOK'
<1> SUFFICES ASSUME PanelOK, [PanelNext]_panelVars PROVE PanelOK' OBVIOUS
<1>1. CASE UNCHANGED panelVars
  BY <1>1, PanelStands DEF panelVars
<1> QED BY <1>1, UserHolds, UploadHolds, ServerHolds, PollHolds DEF PanelNext

(* Whatever replies to uploads are lost, late or refused, and whatever the *)
(* user does meanwhile: a file becomes evidence once, unless the DELETE    *)
(* before a retry failed, and no news of an earlier document touches the   *)
(* item under upload (processItem, syncDocumentStatus), for any number of  *)
(* files and documents.                                                    *)
THEOREM PanelCorrect == PanelSpec => []PanelInv
<1>1. PanelOK => PanelInv BY DEF PanelOK
<1> QED BY <1>1, PanelStarts, PanelStep, PTL DEF PanelSpec

-----------------------------------------------------------------------------
(* The packet panel.                                                        *)

LookStates == [pc : {"idle", "sent", "read", "refresh"}, data : SUBSET Packets]
ListStates == [pc : {"idle", "sent", "read"}, data : SUBSET Packets]
AskStates == [pc : {"idle", "sent", "read"}, case : Appeals, data : SUBSET Packets]

PacketPanelOK == PacketPanelInv /\ IsFiniteSet(stored)

LEMMA QuietIs ==
  /\ Quiet \in LookStates /\ Quiet \in ListStates /\ Quiet.pc = "idle"
  /\ [Quiet EXCEPT !.pc = "sent"] \in ListStates
BY DEF Quiet, LookStates, ListStates

(* What is shown changes, and with it who watches it.                      *)
LEMMA RendersHolds ==
  ASSUME PacketPanelOK, NEW list \in SUBSET Packets, NEW c \in Appeals, NEW done \in SUBSET Looks,
         Renders(list, c, done), UNCHANGED stored,
         \A l \in done : look[l].pc = "refresh" => ~Generating(list),
         \/ Deps(list, c) # Deps(listed, facing)
         \/ "refresh" \in missed => "refresh" \in missed',
         listing' \in ListStates, asking' \in AskStates,
         missed' \subseteq {"list", "refresh"}, turns' \in 0..MaxTurns, losses' \in 0..MaxLosses
  PROVE  PacketPanelOK'
<1>1. look \in [Looks -> LookStates] /\ watching \in BOOLEAN
  BY DEF PacketPanelOK, PacketPanelInv, PacketPanelTypeOK, LookStates
<1>2. listed' = list /\ facing' = c BY DEF Renders
<1>3. /\ look' \in [Looks -> LookStates] /\ watching' \in BOOLEAN
      /\ \A l \in Looks : look'[l] = Quiet \/ look'[l] = look[l]
  BY <1>1, QuietIs DEF Renders, Generating
<1>4. PacketPanelTypeOK'
  BY <1>2, <1>3 DEF PacketPanelOK, PacketPanelInv, PacketPanelTypeOK, LookStates, ListStates, AskStates
<1>5. SomebodyWatches'
  <2> SUFFICES ASSUME Generating(list)
               PROVE  watching' \/ "refresh" \in missed' \/ \E l \in Looks : look'[l].pc = "refresh"
    BY <1>2 DEF SomebodyWatches, Generating
  <2>1. CASE Deps(list, c) # Deps(listed, facing) BY <2>1 DEF Renders
  <2>2. CASE Deps(list, c) = Deps(listed, facing)
    <3>1. watching' = watching /\ look' = [l \in Looks |-> IF l \in done THEN Quiet ELSE look[l]]
      BY <2>2 DEF Renders
    <3>2. Generating(listed) BY <2>2 DEF Deps, Generating
    <3>3. watching \/ "refresh" \in missed \/ \E l \in Looks : look[l].pc = "refresh"
      BY <3>2 DEF PacketPanelOK, PacketPanelInv, SomebodyWatches
    <3>4. ASSUME NEW l \in Looks, look[l].pc = "refresh" PROVE look'[l].pc = "refresh"
      BY <3>1, <3>4
    <3> QED BY <2>2, <3>1, <3>3, <3>4
  <2> QED BY <2>1, <2>2
<1>6. RefreshesWhatEnded'
  BY <1>3, QuietIs DEF PacketPanelOK, PacketPanelInv, RefreshesWhatEnded, Generating
<1>7. IsFiniteSet(stored)' BY DEF PacketPanelOK
<1> QED BY <1>4, <1>5, <1>6, <1>7 DEF PacketPanelOK, PacketPanelInv

(* What is shown stays.                                                    *)
LEMMA ShownStays ==
  ASSUME PacketPanelOK, UNCHANGED <<listed, facing>>,
         stored' \subseteq Packets, IsFiniteSet(stored'),
         listing' \in ListStates, asking' \in AskStates, watching' \in BOOLEAN,
         look' \in [Looks -> LookStates],
         missed' \subseteq {"list", "refresh"}, turns' \in 0..MaxTurns, losses' \in 0..MaxLosses,
         "refresh" \in missed => "refresh" \in missed',
         watching => watching' \/ \E l \in Looks : look'[l].pc = "refresh",
         \A l \in Looks : \/ look'[l] = look[l]
                          \/ look'[l].pc # "refresh" /\ (look[l].pc = "refresh" => "refresh" \in missed')
                          \/ look'[l].pc = "refresh" /\ ~Generating(look'[l].data)
  PROVE  PacketPanelOK'
<1>1. PacketPanelTypeOK'
  BY DEF PacketPanelOK, PacketPanelInv, PacketPanelTypeOK, LookStates, ListStates, AskStates
<1>2. SomebodyWatches'
  <2> SUFFICES ASSUME Generating(listed)
               PROVE  watching' \/ "refresh" \in missed' \/ \E l \in Looks : look'[l].pc = "refresh"
    BY DEF SomebodyWatches, Generating
  <2>1. watching \/ "refresh" \in missed \/ \E l \in Looks : look[l].pc = "refresh"
    BY DEF PacketPanelOK, PacketPanelInv, SomebodyWatches
  <2> QED BY <2>1
<1>3. RefreshesWhatEnded'
  BY DEF PacketPanelOK, PacketPanelInv, RefreshesWhatEnded, Generating
<1> QED BY <1>1, <1>2, <1>3 DEF PacketPanelOK, PacketPanelInv

LEMMA TypesAre ==
  ASSUME PacketPanelOK
  PROVE  /\ stored \subseteq Packets /\ IsFiniteSet(stored) /\ listed \subseteq Packets
         /\ facing \in Appeals /\ listing \in ListStates /\ asking \in AskStates
         /\ watching \in BOOLEAN /\ look \in [Looks -> LookStates]
         /\ missed \subseteq {"list", "refresh"} /\ turns \in 0..MaxTurns /\ losses \in 0..MaxLosses
BY DEF PacketPanelOK, PacketPanelInv, PacketPanelTypeOK, LookStates, ListStates, AskStates

LEMMA ListHolds ==
  ASSUME PacketPanelOK,
         (\E c \in Appeals : TurnTo(c)) \/ ListAnswered \/ PacketsArrive \/ ListFails
  PROVE  PacketPanelOK'
<1> USE TypesAre
<1>1. ASSUME NEW c \in Appeals, TurnTo(c) PROVE PacketPanelOK'
  <2>1. /\ c # facing /\ turns' \in 0..MaxTurns /\ Renders(listed, c, {}) /\ missed' = {}
        /\ listing' = [Quiet EXCEPT !.pc = "sent"] /\ UNCHANGED <<stored, asking, losses>>
    BY <1>1, PacketPanelAssumption DEF TurnTo
  <2>2. Deps(listed, c) # Deps(listed, facing) BY <2>1 DEF Deps
  <2>3. listing' \in ListStates BY <2>1, QuietIs
  <2> QED BY <2>1, <2>2, <2>3, RendersHolds
<1>2. CASE ListAnswered
  <2>1. /\ listing' = [pc |-> "read", data |-> Of(facing)]
        /\ UNCHANGED <<stored, listed, facing, watching, look, asking, missed, turns, losses>>
    BY <1>2 DEF ListAnswered
  <2>2. listing' \in ListStates BY <2>1 DEF ListStates, Of
  <2> QED BY <2>1, <2>2, ShownStays
<1>3. CASE PacketsArrive
  <2>1. /\ listing' = Quiet /\ Renders(listing.data, facing, {}) /\ Caught(listing.data, facing)
        /\ UNCHANGED <<stored, asking, turns, losses>>
    BY <1>3 DEF PacketsArrive
  <2>2. listing.data \in SUBSET Packets BY DEF ListStates
  <2>3. /\ missed' \subseteq {"list", "refresh"}
        /\ \/ Deps(listing.data, facing) # Deps(listed, facing)
           \/ "refresh" \in missed => "refresh" \in missed'
    BY <2>1 DEF Caught
  <2>4. /\ listing' \in ListStates /\ asking' \in AskStates /\ facing \in Appeals
        /\ turns' \in 0..MaxTurns /\ losses' \in 0..MaxLosses
    BY <2>1, QuietIs
  <2>5. {} \in SUBSET Looks /\ \A l \in {} : look[l].pc = "refresh" => ~Generating(listing.data)
    OBVIOUS
  <2>6. Renders(listing.data, facing, {}) /\ UNCHANGED stored BY <2>1
  <2> QED BY <2>2, <2>3, <2>4, <2>5, <2>6, RendersHolds
<1>4. CASE ListFails
  <2>1. /\ listing' = Quiet /\ losses' \in 0..MaxLosses /\ missed' = missed \cup {"list"}
        /\ UNCHANGED <<stored, listed, facing, watching, look, asking, turns>>
    BY <1>4, PacketPanelAssumption DEF ListFails, Loss
  <2> QED BY <2>1, QuietIs, ShownStays
<1> QED BY <1>1, <1>2, <1>3, <1>4

LEMMA LooksHold ==
  ASSUME PacketPanelOK, NEW l \in Looks, StartLook(l) \/ LookStep(l) \/ LookFails(l)
  PROVE  PacketPanelOK'
<1> USE TypesAre
<1>1. look[l] \in LookStates OBVIOUS
<1>2. look[l].data \in SUBSET Packets BY <1>1 DEF LookStates
<1>3. CASE StartLook(l)
  <2>1. PICK r \in LookStates : r = [look[l] EXCEPT !.pc = "sent"] BY <1>1 DEF LookStates
  <2>2. r.pc = "sent" BY <1>1, <2>1 DEF LookStates
  <2>3. /\ look' = [look EXCEPT ![l] = r] /\ look[l].pc = "idle"
        /\ UNCHANGED <<stored, listed, facing, listing, watching, asking, missed, turns, losses>>
    BY <1>3, <2>1 DEF StartLook
  <2> QED BY <2>2, <2>3, ShownStays
<1>4. CASE LookAnswered(l)
  <2> DEFINE r == [pc |-> "read", data |-> Of(facing)]
  <2>1. r \in LookStates /\ r.pc = "read" BY DEF LookStates, Of
  <2>2. /\ look' = [look EXCEPT ![l] = r] /\ look[l].pc = "sent"
        /\ UNCHANGED <<stored, listed, facing, listing, watching, asking, missed, turns, losses>>
    BY <1>4 DEF LookAnswered
  <2> HIDE DEF r
  <2> QED BY <2>1, <2>2, ShownStays
<1>5. CASE StillGenerating(l) \/ ShowResult(l)
  <2>1. /\ Renders(look[l].data, facing, {l}) /\ Caught(look[l].data, facing)
        /\ UNCHANGED <<stored, listing, asking, turns, losses>>
    BY <1>5 DEF StillGenerating, ShowResult
  <2>2. look[l].pc = "refresh" => ~Generating(look[l].data)
    BY DEF PacketPanelOK, PacketPanelInv, RefreshesWhatEnded
  <2>3. /\ missed' \subseteq {"list", "refresh"}
        /\ \/ Deps(look[l].data, facing) # Deps(listed, facing)
           \/ "refresh" \in missed => "refresh" \in missed'
    BY <2>1 DEF Caught
  <2> QED BY <1>2, <2>1, <2>2, <2>3, RendersHolds
<1>6. CASE StopWatching(l)
  <2>1. PICK r \in LookStates : r = [look[l] EXCEPT !.pc = "refresh"] BY <1>1 DEF LookStates
  <2>2. r.pc = "refresh" /\ r.data = look[l].data BY <1>1, <2>1 DEF LookStates
  <2>3. /\ look' = [look EXCEPT ![l] = r] /\ look[l].pc = "read" /\ ~Generating(look[l].data)
        /\ watching' = FALSE
        /\ UNCHANGED <<stored, listed, facing, listing, asking, missed, turns, losses>>
    BY <1>6, <2>1 DEF StopWatching
  <2>4. look'[l] = r /\ ~Generating(look'[l].data) BY <2>2, <2>3
  <2> QED BY <2>2, <2>3, <2>4, ShownStays
<1>7. CASE LookFails(l)
  <2>1. /\ look' = [look EXCEPT ![l] = Quiet] /\ losses' \in 0..MaxLosses
        /\ missed' \subseteq {"list", "refresh"} /\ missed \subseteq missed'
        /\ look[l].pc = "refresh" => "refresh" \in missed'
        /\ UNCHANGED <<stored, listed, facing, listing, watching, asking, turns>>
    BY <1>7, PacketPanelAssumption DEF LookFails, Loss
  <2> QED BY <2>1, QuietIs, ShownStays
<1> QED BY <1>3, <1>4, <1>5, <1>6, <1>7 DEF LookStep

LEMMA AsksHold ==
  ASSUME PacketPanelOK, AskForPacket \/ QueuePacket \/ ShowQueued \/ AskFails \/ FinishPacket
  PROVE  PacketPanelOK'
<1> USE TypesAre
<1>1. CASE AskForPacket
  <2>1. /\ asking' = [pc |-> "sent", case |-> facing, data |-> {}]
        /\ UNCHANGED <<stored, listed, facing, listing, watching, look, missed, turns, losses>>
    BY <1>1 DEF AskForPacket
  <2>2. asking' \in AskStates BY <2>1 DEF AskStates
  <2> QED BY <2>1, <2>2, ShownStays
<1>2. CASE QueuePacket
  <2> DEFINE mine == Of(asking.case)
             new == [case |-> asking.case, n |-> Cardinality(mine) + 1, status |-> "GENERATING"]
  <2>1. UNCHANGED <<listed, facing, listing, watching, look, missed, turns, losses>>
    BY <1>2 DEF QueuePacket
  <2>2. mine \subseteq stored BY DEF Of
  <2>3. Cardinality(mine) \in Nat BY <2>2, FS_Subset, FS_CardinalityType
  <2>4. asking.case \in Appeals BY DEF AskStates
  <2>5. CASE Generating(mine)
    <3> DEFINE found == {p \in mine : p.status = "GENERATING"}
    <3>1. found \in SUBSET Packets BY <2>2
    <3>2. UNCHANGED stored /\ asking' = [asking EXCEPT !.pc = "read", !.data = found]
      BY <1>2, <2>5 DEF QueuePacket
    <3> HIDE DEF found
    <3>3. asking' \in AskStates BY <3>1, <3>2 DEF AskStates
    <3> QED BY <2>1, <3>2, <3>3, ShownStays
  <2>6. CASE ~Generating(mine)
    <3>1. /\ Cardinality(mine) < MaxPackets /\ stored' = stored \cup {new}
          /\ asking' = [asking EXCEPT !.pc = "read", !.data = {new}]
      BY <1>2, <2>6 DEF QueuePacket
    <3>2. new \in Packets BY <2>3, <2>4, <3>1, PacketPanelAssumption DEF Packets
    <3> HIDE DEF new
    <3>3. stored' \subseteq Packets /\ IsFiniteSet(stored') BY <3>1, <3>2, FS_AddElement
    <3>4. asking' \in AskStates BY <3>1, <3>2 DEF AskStates
    <3> QED BY <2>1, <3>3, <3>4, ShownStays
  <2> QED BY <2>5, <2>6
<1>3. CASE ShowQueued
  <2>1. PICK q \in asking.data :
          LET list == {q} \cup {p \in listed : <<p.case, p.n>> # <<q.case, q.n>>}
          IN /\ Renders(list, facing, {})
             /\ missed' = IF Deps(list, facing) = Deps(listed, facing) THEN missed
                          ELSE missed \ {"refresh"}
    BY <1>3 DEF ShowQueued
  <2> DEFINE list == {q} \cup {p \in listed : <<p.case, p.n>> # <<q.case, q.n>>}
  <2>2. /\ Renders(list, facing, {})
        /\ missed' = IF Deps(list, facing) = Deps(listed, facing) THEN missed
                     ELSE missed \ {"refresh"}
    BY <2>1
  <2>3. asking.data \in SUBSET Packets /\ asking.case \in Appeals BY DEF AskStates
  <2>4. list \in SUBSET Packets BY <2>3
  <2> HIDE DEF list
  <2>5. asking' = [asking EXCEPT !.pc = "idle", !.data = {}] /\ UNCHANGED <<stored, listing, turns, losses>>
    BY <1>3 DEF ShowQueued
  <2>6. asking' \in AskStates BY <2>5 DEF AskStates
  <2>7. /\ missed' \subseteq {"list", "refresh"}
        /\ \/ Deps(list, facing) # Deps(listed, facing)
           \/ "refresh" \in missed => "refresh" \in missed'
    BY <2>2
  <2>8. /\ listing' \in ListStates /\ facing \in Appeals /\ UNCHANGED stored
        /\ turns' \in 0..MaxTurns /\ losses' \in 0..MaxLosses
    BY <2>5
  <2>9. {} \in SUBSET Looks /\ \A l \in {} : look[l].pc = "refresh" => ~Generating(list)
    OBVIOUS
  <2>10. Renders(list, facing, {}) BY <2>2
  <2> QED BY <2>4, <2>6, <2>7, <2>8, <2>9, <2>10, RendersHolds
<1>4. CASE AskFails
  <2>1. /\ asking' = [asking EXCEPT !.pc = "idle", !.data = {}] /\ losses' \in 0..MaxLosses
        /\ UNCHANGED <<stored, listed, facing, listing, watching, look, missed, turns>>
    BY <1>4, PacketPanelAssumption DEF AskFails, Loss
  <2>2. asking' \in AskStates BY <2>1 DEF AskStates
  <2> QED BY <2>1, <2>2, ShownStays
<1>5. CASE FinishPacket
  <2>1. PICK p \in stored, status \in {"READY", "FAILED"} :
          stored' = (stored \ {p}) \cup {[p EXCEPT !.status = status]}
    BY <1>5 DEF FinishPacket
  <2>2. PICK r \in Packets : r = [p EXCEPT !.status = status] BY DEF Packets
  <2>3. IsFiniteSet(stored \ {p}) BY FS_RemoveElement
  <2>4. stored' \subseteq Packets /\ IsFiniteSet(stored') BY <2>1, <2>2, <2>3, FS_AddElement
  <2>5. UNCHANGED <<listed, facing, listing, watching, look, asking, missed, turns, losses>>
    BY <1>5 DEF FinishPacket
  <2> QED BY <2>4, <2>5, ShownStays
<1> QED BY <1>1, <1>2, <1>3, <1>4, <1>5

LEMMA PacketPanelStep == PacketPanelOK /\ [PacketPanelNext]_packetPanelVars => PacketPanelOK'
<1> SUFFICES ASSUME PacketPanelOK, [PacketPanelNext]_packetPanelVars PROVE PacketPanelOK' OBVIOUS
<1>1. CASE UNCHANGED packetPanelVars
  <2>1. UNCHANGED <<stored, listed, facing, listing, watching, look, asking, missed, turns, losses>>
    BY <1>1 DEF packetPanelVars
  <2> QED BY <2>1, TypesAre, ShownStays
<1> QED
  BY <1>1, ListHolds, LooksHold, AsksHold DEF PacketPanelNext, ListStep, AskStep

LEMMA PacketPanelStarts == PacketPanelInit => PacketPanelOK
<1> SUFFICES ASSUME PacketPanelInit PROVE PacketPanelOK OBVIOUS
<1>1. PICK first \in {{}} \cup {{[case |-> c, n |-> 1, status |-> "GENERATING"]} : c \in Appeals} :
        stored = first
  BY DEF PacketPanelInit
<1>2. 1 \in 1..MaxPackets BY PacketPanelAssumption
<1>3. stored \subseteq Packets BY <1>1, <1>2 DEF Packets
<1>4. IsFiniteSet(stored) BY <1>1, FS_EmptySet, FS_Singleton
<1>5. look \in [Looks -> LookStates] /\ \A l \in Looks : look[l].pc = "idle"
  BY QuietIs DEF PacketPanelInit
<1>6. listing \in ListStates BY QuietIs DEF PacketPanelInit
<1>7. asking \in AskStates BY DEF PacketPanelInit, AskStates
<1>8. /\ listed = {} /\ facing \in Appeals /\ watching = FALSE /\ missed = {}
      /\ turns \in 0..MaxTurns /\ losses \in 0..MaxLosses
  BY PacketPanelAssumption DEF PacketPanelInit
<1>9. PacketPanelTypeOK
  BY <1>3, <1>5, <1>6, <1>7, <1>8 DEF PacketPanelTypeOK, LookStates, ListStates, AskStates
<1>10. SomebodyWatches /\ RefreshesWhatEnded
  BY <1>5, <1>8 DEF SomebodyWatches, RefreshesWhatEnded, Generating
<1> QED BY <1>4, <1>9, <1>10 DEF PacketPanelOK, PacketPanelInv

(* While a packet is shown as being generated somebody watches it, or a    *)
(* refresh has failed, for any number of polls, cases and packets.         *)
THEOREM PacketPanelCorrect == PacketPanelSpec => []PacketPanelInv
<1>1. PacketPanelSpec => []PacketPanelOK BY PacketPanelStarts, PacketPanelStep, PTL DEF PacketPanelSpec
<1> QED BY <1>1, PTL DEF PacketPanelOK

-----------------------------------------------------------------------------
(* The tab.                                                                 *)

Fetches == [kind : Kinds, pc : {"sent", "ok", "error"}, case : MaybeRecord,
            by : People \cup {Null}, data : SUBSET Records]

Named(r) == r.kind \in {"sync", "changed", "open"} \cup Archiving => r.case \in Records

(* A request that begins.                                                  *)
LEMMA AsksIs ==
  ASSUME NEW kind \in Kinds, NEW c \in MaybeRecord,
         kind \in {"sync", "changed", "open"} \cup Archiving => c \in Records
  PROVE  /\ [Silent EXCEPT !.kind = kind, !.case = c] \in Fetches
         /\ Named([Silent EXCEPT !.kind = kind, !.case = c])
         /\ Silent \in Fetches /\ Named(Silent)
BY DEF Silent, Fetches, Named, Kinds, MaybeRecord, Archiving

LEMMA ArchivingIs ==
  ASSUME NEW kind \in Archiving, NEW c \in Records, NEW data \in SUBSET Records
  PROVE  /\ [Silent EXCEPT !.kind = kind, !.case = c, !.data = data] \in Fetches
         /\ Named([Silent EXCEPT !.kind = kind, !.case = c, !.data = data])
BY DEF Silent, Fetches, Named, Kinds, MaybeRecord, Archiving

LEMMA LoginIs ==
  ASSUME NEW u \in People
  PROVE  /\ [Silent EXCEPT !.kind = "login", !.by = u] \in Fetches
         /\ Named([Silent EXCEPT !.kind = "login", !.by = u])
BY DEF Silent, Fetches, Named, Kinds, MaybeRecord, Archiving

LEMMA FirstIs ==
  ASSUME NEW data \in SUBSET Records
  PROVE  First(data) \in MaybeRecord /\ (data # {} => First(data) \in Records)
BY DEF First, MaybeRecord

(* One request changes, and with it what it may change.                    *)
LEMMA OneFetch ==
  ASSUME WorkspaceInv, NEW s \in Slots, NEW r \in Fetches, Named(r),
         fetch' = [fetch EXCEPT ![s] = r],
         user' \in People \cup {Null}, cookie' \in People \cup {Null}, cached' \subseteq Records,
         chosen' \in MaybeRecord, route' \in MaybeRecord, timer' \in BOOLEAN,
         archived' \subseteq Records, gestures' \in 0..MaxGestures, timer' => route' # Null
  PROVE  WorkspaceInv'
<1>1. fetch \in [Slots -> Fetches] /\ \A p \in Slots : Named(fetch[p])
  BY DEF WorkspaceInv, WorkspaceTypeOK, RequestsNameTheirCase, Fetches, Named
<1>2. fetch' \in [Slots -> Fetches] /\ \A p \in Slots : Named(fetch'[p])
  BY <1>1
<1>3. WorkspaceTypeOK' BY <1>2 DEF WorkspaceTypeOK, Fetches
<1>4. RequestsNameTheirCase' BY <1>2 DEF RequestsNameTheirCase, Named
<1> QED BY <1>3, <1>4 DEF WorkspaceInv

LEMMA BeginHolds ==
  ASSUME WorkspaceInv, Begin
  PROVE  WorkspaceInv'
<1>1. /\ user \in People \cup {Null} /\ cookie \in People \cup {Null} /\ cached \subseteq Records
      /\ chosen \in MaybeRecord /\ route \in MaybeRecord /\ timer \in BOOLEAN
      /\ archived \subseteq Records /\ gestures \in 0..MaxGestures /\ (timer => route # Null)
      /\ fetch \in [Slots -> Fetches] /\ \A p \in Slots : Named(fetch[p])
  BY DEF WorkspaceInv, WorkspaceTypeOK, RequestsNameTheirCase, Fetches, Named
<1>2. gestures' \in 0..MaxGestures BY <1>1, WorkspaceAssumption DEF Begin, Gesture
<1>3. timer' = IF <<user', route', chosen'>> = <<user, route, chosen>> THEN timer
               ELSE user' # Null /\ route' # Null /\ route' # chosen'
  BY DEF Begin, FollowPath
<1>4. timer' \in BOOLEAN /\ (timer' => route' # Null) BY <1>1, <1>3
<1>5. ASSUME NEW c \in MaybeRecord, Navigate(c) PROVE WorkspaceInv'
  <2>1. UNCHANGED <<user, cookie, cached, chosen, fetch, archived>> /\ route' = c
    BY <1>5 DEF Navigate
  <2>2. WorkspaceTypeOK' BY <1>1, <1>2, <1>4, <2>1 DEF WorkspaceTypeOK, Fetches
  <2>3. RequestsNameTheirCase' BY <1>1, <1>4, <2>1 DEF RequestsNameTheirCase, Named
  <2> QED BY <2>2, <2>3 DEF WorkspaceInv
<1>6. ASSUME NEW s \in Slots, NEW c \in Records, OpenCase(s, c) \/ CaseChanged(s, c)
      PROVE  WorkspaceInv'
  <2>1. PICK kind \in {"open", "changed"} : Sent(s, kind, c) BY <1>6 DEF OpenCase, CaseChanged
  <2>2. kind \in Kinds /\ c \in MaybeRecord BY DEF Kinds, MaybeRecord
  <2>3. PICK r \in Fetches : r = [Silent EXCEPT !.kind = kind, !.case = c] /\ Named(r)
    BY <2>2, AsksIs
  <2>4. fetch' = [fetch EXCEPT ![s] = r] BY <2>1, <2>3 DEF Sent
  <2>5. UNCHANGED <<user, cookie, cached, route, archived>> /\ chosen' \in {chosen, c}
    BY <1>6 DEF OpenCase, CaseChanged
  <2>6. chosen' \in MaybeRecord BY <1>1, <2>2, <2>5
  <2> QED BY <1>1, <1>2, <1>4, <2>3, <2>4, <2>5, <2>6, OneFetch
<1>7. ASSUME NEW s \in Slots, NEW c \in Records, ArchiveRecord(s, c) PROVE WorkspaceInv'
  <2>1. PICK kind \in Archiving : fetch' = [fetch EXCEPT ![s] =
          [Silent EXCEPT !.kind = kind, !.case = c, !.data = cached \ {c}]]
    BY <1>7 DEF ArchiveRecord, Archiving
  <2>2. cached \ {c} \in SUBSET Records BY <1>1
  <2>3. PICK r \in Fetches :
          r = [Silent EXCEPT !.kind = kind, !.case = c, !.data = cached \ {c}] /\ Named(r)
    BY <2>2, ArchivingIs
  <2>4. fetch' = [fetch EXCEPT ![s] = r] BY <2>1, <2>3
  <2>5. UNCHANGED <<user, cookie, cached, chosen, route, archived>> BY <1>7 DEF ArchiveRecord
  <2> QED BY <1>1, <1>2, <1>4, <2>3, <2>4, <2>5, OneFetch
<1>8. ASSUME NEW s \in Slots, NEW u \in People, SignIn(s, u) PROVE WorkspaceInv'
  <2>1. PICK r \in Fetches : r = [Silent EXCEPT !.kind = "login", !.by = u] /\ Named(r) BY LoginIs
  <2>2. fetch' = [fetch EXCEPT ![s] = r] /\ UNCHANGED <<user, cookie, cached, chosen, route, archived>>
    BY <1>8, <2>1 DEF SignIn
  <2> QED BY <1>1, <1>2, <1>4, <2>1, <2>2, OneFetch
<1>9. ASSUME NEW s \in Slots, SignOut(s) PROVE WorkspaceInv'
  <2>1. "logout" \in Kinds /\ Null \in MaybeRecord
          /\ "logout" \notin {"sync", "changed", "open"} \cup Archiving
    BY DEF Kinds, MaybeRecord, Archiving
  <2>2. PICK r \in Fetches : r = [Silent EXCEPT !.kind = "logout", !.case = Null] /\ Named(r)
    BY <2>1, AsksIs
  <2>3. fetch' = [fetch EXCEPT ![s] = r] /\ UNCHANGED <<user, cookie, cached, chosen, route, archived>>
    BY <1>9, <2>2 DEF SignOut, Sent
  <2> QED BY <1>1, <1>2, <1>4, <2>2, <2>3, OneFetch
<1> QED BY <1>5, <1>6, <1>7, <1>8, <1>9 DEF Begin

LEMMA LoadRouteHolds ==
  ASSUME WorkspaceInv, NEW s \in Slots, LoadRoute(s)
  PROVE  WorkspaceInv'
<1>1. /\ user \in People \cup {Null} /\ cookie \in People \cup {Null} /\ cached \subseteq Records
      /\ chosen \in MaybeRecord /\ route \in MaybeRecord /\ timer \in BOOLEAN
      /\ archived \subseteq Records /\ gestures \in 0..MaxGestures /\ (timer => route # Null)
  BY DEF WorkspaceInv, WorkspaceTypeOK, RequestsNameTheirCase
<1>2. /\ timer /\ timer' = FALSE /\ Sent(s, "sync", route)
      /\ UNCHANGED <<user, cookie, cached, chosen, route, archived, gestures>>
  BY DEF LoadRoute
<1>3. "sync" \in Kinds /\ route \in Records BY <1>1, <1>2 DEF Kinds, MaybeRecord
<1>4. PICK r \in Fetches : r = [Silent EXCEPT !.kind = "sync", !.case = route] /\ Named(r)
  BY <1>1, <1>3, AsksIs
<1>5. fetch' = [fetch EXCEPT ![s] = r] BY <1>2, <1>4 DEF Sent
<1> QED BY <1>1, <1>2, <1>4, <1>5, OneFetch

LEMMA ServesHolds ==
  ASSUME WorkspaceInv, NEW s \in Slots, Serves(s)
  PROVE  WorkspaceInv'
<1>1. /\ user \in People \cup {Null} /\ cookie \in People \cup {Null} /\ cached \subseteq Records
      /\ chosen \in MaybeRecord /\ route \in MaybeRecord /\ timer \in BOOLEAN
      /\ archived \subseteq Records /\ gestures \in 0..MaxGestures /\ (timer => route # Null)
      /\ fetch \in [Slots -> Fetches] /\ Named(fetch[s]) /\ fetch[s] \in Fetches
  BY DEF WorkspaceInv, WorkspaceTypeOK, RequestsNameTheirCase, Fetches, Named
<1>2. UNCHANGED <<user, cached, chosen, route, timer, gestures>> /\ fetch[s].kind # "none"
  BY DEF Serves
<1>3. fetch[s].kind \in Kinds BY <1>1 DEF Fetches
<1>4. Open(cookie) \subseteq Records BY <1>1, WorkspaceAssumption DEF Open
<1>5. \E ok \in BOOLEAN, data \in SUBSET Records : Answered(s, ok, data)
  <2>1. CASE fetch[s].kind \in {"sync", "changed", "open"}
    <3>1. {fetch[s].case} \in SUBSET Records BY <1>1, <2>1 DEF Named
    <3>2. Answered(s, Granted(s), {fetch[s].case}) BY <2>1 DEF Serves, Archiving
    <3>3. Granted(s) \in BOOLEAN BY DEF Granted
    <3> QED BY <3>1, <3>2, <3>3
  <2>2. CASE fetch[s].kind = "list"
    <3>1. Answered(s, cookie # Null, Open(cookie)) BY <2>2 DEF Serves, Archiving
    <3> QED BY <1>4, <3>1
  <2>3. CASE fetch[s].kind \in {"login", "logout"}
    <3>1. Answered(s, TRUE, {}) BY <2>3 DEF Serves, Archiving
    <3> QED BY <3>1
  <2>4. CASE fetch[s].kind \in Archiving
    <3>1. Answered(s, Granted(s), fetch[s].data) BY <2>4 DEF Serves, Archiving
    <3>2. Granted(s) \in BOOLEAN /\ fetch[s].data \in SUBSET Records BY <1>1 DEF Granted, Fetches
    <3> QED BY <3>1, <3>2
  <2> QED BY <1>2, <1>3, <2>1, <2>2, <2>3, <2>4 DEF Kinds, Archiving
<1>6. cookie' \in People \cup {Null} /\ archived' \subseteq Records
  <2>1. CASE fetch[s].kind \in {"sync", "changed", "open", "list"}
    BY <1>1, <2>1 DEF Serves, Archiving
  <2>2. CASE fetch[s].kind \in {"login", "logout"}
    <3>1. fetch[s].by \in People \cup {Null} BY <1>1 DEF Fetches
    <3> QED BY <1>1, <2>2, <3>1 DEF Serves, Archiving
  <2>3. CASE fetch[s].kind \in Archiving
    <3>1. fetch[s].case \in Records BY <1>1, <2>3 DEF Named
    <3>2. UNCHANGED cookie /\ archived' \in {archived, archived \cup {fetch[s].case}}
      BY <2>3 DEF Serves, Archiving
    <3> QED BY <1>1, <3>1, <3>2
  <2> QED BY <1>2, <1>3, <2>1, <2>2, <2>3 DEF Kinds, Archiving
<1>7. PICK ok \in BOOLEAN, data \in SUBSET Records : Answered(s, ok, data) BY <1>5
<1>8. PICK p \in {"ok", "error"} : p = IF ok THEN "ok" ELSE "error" OBVIOUS
<1>9. PICK r \in Fetches : r = [fetch[s] EXCEPT !.pc = p, !.data = data] BY <1>1 DEF Fetches
<1>10. r.kind = fetch[s].kind /\ r.case = fetch[s].case BY <1>1, <1>9 DEF Fetches
<1>11. Named(r) BY <1>1, <1>10 DEF Named
<1>12. fetch' = [fetch EXCEPT ![s] = r] BY <1>1, <1>7, <1>8, <1>9 DEF Answered
<1> QED BY <1>1, <1>2, <1>6, <1>11, <1>12, OneFetch

LEMMA ArrivesHolds ==
  ASSUME WorkspaceInv, NEW s \in Slots, Arrives(s)
  PROVE  WorkspaceInv'
<1>1. /\ user \in People \cup {Null} /\ cookie \in People \cup {Null} /\ cached \subseteq Records
      /\ chosen \in MaybeRecord /\ route \in MaybeRecord /\ timer \in BOOLEAN
      /\ archived \subseteq Records /\ gestures \in 0..MaxGestures /\ (timer => route # Null)
      /\ fetch[s] \in Fetches
  BY DEF WorkspaceInv, WorkspaceTypeOK, RequestsNameTheirCase, Fetches
<1>2. timer' = IF <<user', route', chosen'>> = <<user, route, chosen>> THEN timer
               ELSE user' # Null /\ route' # Null /\ route' # chosen'
  BY DEF Arrives, FollowPath
<1>3. timer' \in BOOLEAN /\ (timer' => route' # Null) BY <1>1, <1>2
<1>4. UNCHANGED <<cookie, archived, gestures>> BY DEF Arrives
<1>5. /\ fetch[s].case \in MaybeRecord /\ fetch[s].data \in SUBSET Records
      /\ fetch[s].by \in People \cup {Null}
      /\ First(fetch[s].data) \in MaybeRecord /\ Null \in MaybeRecord
      /\ fetch[s].data # {} => First(fetch[s].data) \in Records
  BY <1>1, FirstIs DEF Fetches, MaybeRecord
<1>6. \E r \in Fetches : Named(r) /\ fetch' = [fetch EXCEPT ![s] = r]
  <2>1. ASSUME Hush(s) PROVE \E r \in Fetches : Named(r) /\ fetch' = [fetch EXCEPT ![s] = r]
    <3>1. Silent \in Fetches /\ Named(Silent)
      BY DEF Silent, Fetches, Named, Kinds, MaybeRecord, Archiving
    <3> QED BY <2>1, <3>1 DEF Hush
  <2>2. ASSUME NEW kind \in {"changed", "list"}, NEW c \in MaybeRecord, Ask(s, kind, c),
               kind = "changed" => c \in Records
        PROVE  \E r \in Fetches : Named(r) /\ fetch' = [fetch EXCEPT ![s] = r]
    <3>1. kind \in Kinds /\ (kind \in {"sync", "changed", "open"} \cup Archiving => c \in Records)
      BY <2>2 DEF Kinds, Archiving
    <3>2. PICK r \in Fetches : r = [Silent EXCEPT !.kind = kind, !.case = c] /\ Named(r)
      BY <3>1, AsksIs
    <3> QED BY <2>2, <3>2 DEF Ask
  <2>3. CASE DetailArrives(s) \/ DetailFails(s) \/ SignedOut(s)
    BY <2>1, <2>3 DEF DetailArrives, DetailFails, SignedOut
  <2>4. CASE ListArrives(s)
    <3>1. Hush(s) \/ (fetch[s].data # {} /\ Ask(s, "changed", First(fetch[s].data)))
      BY <2>4 DEF ListArrives
    <3> QED BY <1>5, <2>1, <2>2, <3>1
  <2>5. CASE SignedIn(s)
    <3>1. Ask(s, "list", Null) BY <2>5 DEF SignedIn
    <3> QED BY <1>5, <2>2, <3>1
  <2>6. CASE ArchivedCase(s)
    <3>1. \/ Hush(s)
          \/ First(fetch[s].data) # Null /\ Ask(s, "changed", First(fetch[s].data))
      BY <2>6 DEF ArchivedCase
    <3>2. First(fetch[s].data) # Null => First(fetch[s].data) \in Records BY <1>5 DEF First
    <3> QED BY <1>5, <2>1, <2>2, <3>1, <3>2
  <2> QED BY <2>3, <2>4, <2>5, <2>6 DEF Arrives
<1>7. /\ user' \in People \cup {Null} /\ cached' \subseteq Records
      /\ chosen' \in MaybeRecord /\ route' \in MaybeRecord
  <2>1. CASE DetailArrives(s) BY <1>1, <1>5, <2>1 DEF DetailArrives
  <2>2. CASE DetailFails(s) BY <1>1, <1>5, <2>2 DEF DetailFails
  <2>3. CASE ListArrives(s) BY <1>1, <1>5, <2>3 DEF ListArrives
  <2>4. CASE SignedIn(s) BY <1>1, <1>5, <2>4 DEF SignedIn
  <2>5. CASE SignedOut(s) BY <1>5, <2>5 DEF SignedOut
  <2>6. CASE ArchivedCase(s) BY <1>1, <1>5, <2>6 DEF ArchivedCase
  <2> QED BY <2>1, <2>2, <2>3, <2>4, <2>5, <2>6 DEF Arrives
<1>8. PICK r \in Fetches : Named(r) /\ fetch' = [fetch EXCEPT ![s] = r] BY <1>6
<1> QED BY <1>1, <1>3, <1>4, <1>7, <1>8, OneFetch

LEMMA TabStep == WorkspaceInv /\ [WorkspaceNext]_workspaceVars => WorkspaceInv'
<1> SUFFICES ASSUME WorkspaceInv, [WorkspaceNext]_workspaceVars PROVE WorkspaceInv' OBVIOUS
<1>1. CASE UNCHANGED workspaceVars
  BY <1>1 DEF workspaceVars, WorkspaceInv, WorkspaceTypeOK, RequestsNameTheirCase
<1> QED BY <1>1, BeginHolds, LoadRouteHolds, ServesHolds, ArrivesHolds DEF WorkspaceNext

LEMMA TabStarts == WorkspaceInit => WorkspaceInv
<1> SUFFICES ASSUME WorkspaceInit PROVE WorkspaceInv OBVIOUS
<1>1. Silent \in Fetches /\ Silent.kind = "none"
  BY DEF Silent, Fetches, Kinds, MaybeRecord
<1>2. WorkspaceTypeOK
  <2>1. fetch \in [Slots -> Fetches] BY <1>1 DEF WorkspaceInit
  <2>2. gestures \in 0..MaxGestures BY WorkspaceAssumption DEF WorkspaceInit
  <2>3. /\ user \in People \cup {Null} /\ cookie \in People \cup {Null} /\ cached \subseteq Records
        /\ chosen \in MaybeRecord /\ route \in MaybeRecord /\ timer \in BOOLEAN
        /\ archived \subseteq Records
    BY DEF WorkspaceInit, MaybeRecord
  <2> QED BY <2>1, <2>2, <2>3 DEF WorkspaceTypeOK, Fetches
<1>3. RequestsNameTheirCase BY <1>1 DEF WorkspaceInit, RequestsNameTheirCase, Archiving
<1> QED BY <1>2, <1>3 DEF WorkspaceInv

(* Every request for a case names one, whatever order the replies came in, *)
(* for any number of requests, accounts and cases.                         *)
THEOREM TabCorrect == WorkspaceSpec => []WorkspaceInv
<1> QED BY TabStarts, TabStep, PTL DEF WorkspaceSpec

-----------------------------------------------------------------------------
(* The camera.                                                              *)

CallStates == [pc : {"none", "asking", "granted", "playing", "done"}, facing : Cameras]

LEMMA UnaskedIs == Unasked \in CallStates /\ Unasked.pc = "none"
BY CameraAssumption DEF Unasked, CallStates

(* The clean-up of the effect leaves no run with a stream but one that has *)
(* yet to attach it.                                                       *)
LEMMA ReleasedIs ==
  ASSUME CameraInv
  PROVE  /\ Released \in [Calls -> CallStates]
         /\ \A j \in Calls : Released[j].pc # "playing"
<1>1. openCall \in [Calls -> CallStates] BY DEF CameraInv, CameraTypeOK, CallStates
<1>2. ASSUME NEW j \in Calls PROVE Released[j] \in CallStates /\ Released[j].pc # "playing"
  <2>1. openCall[j] \in CallStates /\ (openCall[j].pc = "playing" => held = j)
    BY <1>1 DEF CameraInv, HeldIsPlayed
  <2>2. CASE j = held
    <3>1. Released[j] = [openCall[j] EXCEPT !.pc = "done"] BY <2>2 DEF Released
    <3> QED BY <2>1, <3>1 DEF CallStates
  <2>3. CASE j # held
    <3>1. Released[j] = openCall[j] BY <2>3 DEF Released
    <3> QED BY <2>1, <2>3, <3>1
  <2> QED BY <2>2, <2>3
<1> QED BY <1>2 DEF Released

(* One run moves on, and holds a stream only as its step says.             *)
LEMMA OneCallMoves ==
  ASSUME CameraInv, NEW k \in Calls, NEW r \in CallStates, openCall' = [openCall EXCEPT ![k] = r],
         held' \in {held, active}, held' # held => held' = k,
         active' = active, shownAs' \in {"requesting", "ready", "unavailable"},
         UNCHANGED <<taken, captured>>,
         r.pc = "playing" => held' = k /\ active = k,
         r.pc = "granted" => held # k /\ held' # k,
         held' = k => r.pc \in {"playing", "done"},
         active # NoCall /\ shownAs' = "ready" => held' = active
  PROVE  CameraInv'
<1>1. openCall \in [Calls -> CallStates] BY DEF CameraInv, CameraTypeOK, CallStates
<1>2. openCall'[k] = r /\ \A j \in Calls : j # k => openCall'[j] = openCall[j] BY <1>1
<1>3. CameraTypeOK' BY <1>1, <1>2 DEF CameraInv, CameraTypeOK, CallStates
<1>4. \A j \in Calls : held = j => j = active
  BY DEF CameraInv, NoStrayStream, Running
<1>5. HeldIsPlayed'
  <2>1. ASSUME NEW j \in Calls
        PROVE  /\ openCall'[j].pc = "playing" => held' = j
               /\ held' = j => openCall'[j].pc \in {"playing", "done"}
    <3>1. CASE j = k BY <1>2, <3>1
    <3>2. CASE j # k
      <4>1. openCall'[j] = openCall[j] /\ (openCall[j].pc = "playing" => held = j)
              /\ (held = j => openCall[j].pc \in {"playing", "done"})
        BY <1>2, <3>2 DEF CameraInv, HeldIsPlayed
      <4>2. held = j => held' = held BY <1>4, <3>2
      <4>3. held' = j => held = j BY <3>2
      <4> QED BY <4>1, <4>2, <4>3
    <3> QED BY <3>1, <3>2
  <2> QED BY <2>1 DEF HeldIsPlayed
<1>6. NoStrayStream'
  <2>1. ASSUME NEW j \in Calls, openCall'[j].pc \in {"granted", "playing"} \/ held' = j
        PROVE  j = active \/ (openCall'[j].pc = "granted" /\ held' # j)
    <3>1. CASE j = k
      <4>1. held' = k => k = active BY <1>4
      <4> QED BY <1>2, <2>1, <3>1, <4>1
    <3>2. CASE j # k
      <4>1. openCall'[j] = openCall[j] /\ (held' = j => held = j) BY <1>2, <3>2
      <4>2. j = active \/ (openCall[j].pc = "granted" /\ held # j)
        BY <2>1, <4>1 DEF CameraInv, NoStrayStream, Running
      <4> QED BY <4>1, <4>2
    <3> QED BY <3>1, <3>2
  <2> QED BY <2>1 DEF NoStrayStream, Running
<1>7. ReadyMeansLive' BY DEF CameraInv, ReadyMeansLive
<1> QED BY <1>3, <1>5, <1>6, <1>7 DEF CameraInv

LEMMA CallSteps ==
  ASSUME CameraInv, NEW k \in Calls, GrantStream(k) \/ DenyStream(k) \/ AttachStream(k) \/ PlayStream(k)
  PROVE  CameraInv'
<1>1. openCall \in [Calls -> CallStates] /\ openCall[k] \in CallStates
      /\ held \in Calls \cup {NoCall} /\ shownAs \in {"requesting", "ready", "unavailable"}
  BY DEF CameraInv, CameraTypeOK, CallStates
<1>2. \A p \in {"granted", "playing", "done"} :
        [openCall[k] EXCEPT !.pc = p] \in CallStates /\ [openCall[k] EXCEPT !.pc = p].pc = p
  BY <1>1 DEF CallStates
<1>3. /\ held = k => openCall[k].pc \in {"playing", "done"}
      /\ openCall[k].pc = "playing" => held = k
      /\ held = k => k = active
      /\ active # NoCall /\ shownAs = "ready" => held = active
  BY DEF CameraInv, HeldIsPlayed, NoStrayStream, Running, ReadyMeansLive
<1>4. CASE GrantStream(k)
  <2>1. PICK r \in CallStates : r = [openCall[k] EXCEPT !.pc = "granted"] BY <1>2
  <2>2. r.pc = "granted" BY <1>2, <2>1
  <2>3. openCall' = [openCall EXCEPT ![k] = r] /\ UNCHANGED <<active, held, shownAs, taken, captured>>
          /\ held # k
    BY <1>3, <1>4, <2>1 DEF GrantStream
  <2> QED BY <1>1, <1>3, <2>2, <2>3, OneCallMoves
<1>5. CASE DenyStream(k)
  <2>1. PICK r \in CallStates : r = [openCall[k] EXCEPT !.pc = "done"] BY <1>2
  <2>2. r.pc = "done" BY <1>2, <2>1
  <2>3. openCall' = [openCall EXCEPT ![k] = r] /\ UNCHANGED <<active, held, taken, captured>>
          /\ shownAs' \in {shownAs, "unavailable"}
    BY <1>5, <2>1 DEF DenyStream
  <2> QED BY <1>1, <1>3, <2>2, <2>3, OneCallMoves
<1>6. CASE AttachStream(k)
  <2>1. UNCHANGED <<active, shownAs, taken, captured>> /\ held # k BY <1>3, <1>6 DEF AttachStream
  <2>2. CASE active = k
    <3>1. PICK r \in CallStates : r = [openCall[k] EXCEPT !.pc = "playing"] BY <1>2
    <3>2. r.pc = "playing" BY <1>2, <3>1
    <3>3. openCall' = [openCall EXCEPT ![k] = r] /\ held' = k BY <1>6, <2>2, <3>1 DEF AttachStream
    <3> QED BY <1>1, <1>3, <2>1, <2>2, <3>2, <3>3, OneCallMoves
  <2>3. CASE active # k
    <3>1. PICK r \in CallStates : r = [openCall[k] EXCEPT !.pc = "done"] BY <1>2
    <3>2. r.pc = "done" BY <1>2, <3>1
    <3>3. openCall' = [openCall EXCEPT ![k] = r] /\ held' = held BY <1>6, <2>3, <3>1 DEF AttachStream
    <3> QED BY <1>1, <1>3, <2>1, <3>2, <3>3, OneCallMoves
  <2> QED BY <2>2, <2>3
<1>7. CASE PlayStream(k)
  <2>1. PICK r \in CallStates : r = [openCall[k] EXCEPT !.pc = "done"] BY <1>2
  <2>2. r.pc = "done" BY <1>2, <2>1
  <2>3. openCall' = [openCall EXCEPT ![k] = r] /\ UNCHANGED <<active, held, taken, captured>>
          /\ shownAs' \in {"ready", "unavailable"} /\ held = k /\ active = k
    BY <1>3, <1>7, <2>1 DEF PlayStream
  <2> QED BY <1>1, <2>2, <2>3, OneCallMoves
<1> QED BY <1>4, <1>5, <1>6, <1>7

LEMMA CameraStepHolds == CameraInv /\ [CameraNext]_cameraVars => CameraInv'
<1> SUFFICES ASSUME CameraInv, [CameraNext]_cameraVars PROVE CameraInv' OBVIOUS
<1>1. /\ Released \in [Calls -> CallStates] /\ \A j \in Calls : Released[j].pc # "playing"
  BY ReleasedIs
<1>2. ASSUME NEW k \in Calls, GrantStream(k) \/ DenyStream(k) \/ CameraStep(k) PROVE CameraInv'
  BY <1>2, CallSteps DEF CameraStep
<1>3. ASSUME NEW k \in Calls, NEW camera \in Cameras, OpenCamera(k, camera) PROVE CameraInv'
  <2>1. PICK p \in {"asking", "done"} :
          /\ openCall' = [Released EXCEPT ![k] = [pc |-> p, facing |-> camera]]
          /\ shownAs' \in {"requesting", "unavailable"}
    BY <1>3 DEF OpenCamera
  <2> DEFINE r == [pc |-> p, facing |-> camera]
  <2>2. r \in CallStates /\ r.pc = p BY DEF CallStates
  <2> HIDE DEF r
  <2>3. /\ openCall' \in [Calls -> CallStates] /\ openCall'[k] = r
        /\ \A j \in Calls : openCall'[j].pc # "playing"
    BY <1>1, <2>1, <2>2 DEF r
  <2>4. held' = NoCall /\ active' = k /\ UNCHANGED <<taken, captured>> BY <1>3 DEF OpenCamera
  <2>5. CameraTypeOK' BY <2>1, <2>3, <2>4 DEF CameraInv, CameraTypeOK, CallStates
  <2>6. NoStrayStream' /\ HeldIsPlayed'
    BY <2>2, <2>3, <2>4, CameraAssumption DEF NoStrayStream, Running, HeldIsPlayed
  <2>7. ReadyMeansLive' BY <2>1, <2>4 DEF CameraInv, ReadyMeansLive
  <2> QED BY <2>5, <2>6, <2>7 DEF CameraInv
<1>4. CASE LeaveCamera
  <2>1. /\ openCall' = Released /\ held' = NoCall /\ active' = NoCall
        /\ UNCHANGED <<shownAs, taken, captured>>
    BY <1>4 DEF LeaveCamera
  <2>2. CameraTypeOK' BY <1>1, <2>1 DEF CameraInv, CameraTypeOK, CallStates
  <2>3. NoStrayStream' /\ HeldIsPlayed'
    BY <1>1, <2>1, CameraAssumption DEF NoStrayStream, Running, HeldIsPlayed
  <2>4. ReadyMeansLive' BY <2>1 DEF CameraInv, ReadyMeansLive
  <2> QED BY <2>2, <2>3, <2>4 DEF CameraInv
<1>5. CASE TakeFrame \/ HandOver \/ UNCHANGED cameraVars
  <2>1. UNCHANGED <<openCall, active, held, shownAs>> BY <1>5 DEF TakeFrame, HandOver, cameraVars
  <2>2. /\ taken' \in Calls \cup {NoCall} /\ captured' \subseteq Calls
    BY <1>5 DEF TakeFrame, HandOver, cameraVars, CameraInv, CameraTypeOK
  <2>3. CameraTypeOK' BY <2>1, <2>2 DEF CameraInv, CameraTypeOK
  <2>4. NoStrayStream' /\ HeldIsPlayed' BY <2>1 DEF CameraInv, NoStrayStream, Running, HeldIsPlayed
  <2>5. ReadyMeansLive'
    BY <2>1, <2>2, CameraAssumption DEF CameraInv, ReadyMeansLive
  <2> QED BY <2>3, <2>4, <2>5 DEF CameraInv
<1> QED BY <1>2, <1>3, <1>4, <1>5 DEF CameraNext

LEMMA CameraStarts == CameraInit => CameraInv
BY UnaskedIs, CameraAssumption
DEF CameraInit, CameraInv, CameraTypeOK, CallStates, NoStrayStream, Running, ReadyMeansLive,
    HeldIsPlayed

(* No camera runs unattended and what is shown as ready is live, for any   *)
(* number of runs of the effect and any order of the browser's answers.    *)
THEOREM CameraCorrect == CameraSpec => []CameraInv
<1>1. CameraInit => CameraInv BY CameraStarts
<1>2. CameraInv /\ [CameraNext]_cameraVars => CameraInv' BY CameraStepHolds
<1> QED BY <1>1, <1>2, PTL DEF CameraSpec

-----------------------------------------------------------------------------
(* All of them, one at a time.                                             *)

ClientOK ==
  /\ part \in {"panel", "tab", "packets", "camera"}
  /\ PanelOK /\ PacketPanelOK /\ WorkspaceInv /\ CameraInv

LEMMA ClientStarts ==
  ASSUME Focus \subseteq {"panel", "tab", "packets", "camera"}, MCInit
  PROVE  ClientOK
BY PanelStarts, PacketPanelStarts, TabStarts, CameraStarts DEF MCInit, ClientOK

LEMMA ClientStep ==
  ASSUME ClientOK, [MCNext]_all
  PROVE  ClientOK'
<1>1. part' = part BY DEF MCNext, all
<1>2. [PanelNext]_panelVars \/ (UNCHANGED panel)
  BY DEF MCNext, all, panel, panelVars
<1>3. PanelOK'
  <2>1. CASE [PanelNext]_panelVars BY <2>1, PanelStep DEF ClientOK
  <2>2. CASE UNCHANGED panel
    <3>1. UNCHANGED <<item, upload, doc, selected, detail, opening, queuePoll, selectedPoll, left>>
      BY <2>2 DEF panel
    <3> QED BY <3>1, PanelStands DEF ClientOK
  <2> QED BY <1>2, <2>1, <2>2
<1>4. PacketPanelOK'
  <2>1. [PacketPanelNext]_packetPanelVars BY DEF MCNext, all
  <2> QED BY <2>1, PacketPanelStep DEF ClientOK
<1>5. WorkspaceInv'
  <2>1. CASE [WorkspaceNext]_workspaceVars BY <2>1, TabStep DEF ClientOK
  <2>2. CASE UNCHANGED tab
    BY <2>2 DEF tab, ClientOK, WorkspaceInv, WorkspaceTypeOK, RequestsNameTheirCase
  <2>3. [WorkspaceNext]_workspaceVars \/ UNCHANGED tab
    BY DEF MCNext, all, tab, workspaceVars
  <2> QED BY <2>1, <2>2, <2>3
<1>6. CameraInv'
  <2>1. [CameraNext]_cameraVars BY DEF MCNext, all
  <2> QED BY <2>1, CameraStepHolds DEF ClientOK
<1> QED BY <1>1, <1>3, <1>4, <1>5, <1>6 DEF ClientOK

(* The web client as one: however clicks, replies and failures come, each  *)
(* of its components keeps its promise (the evidence panel, the packet     *)
(* export panel, the workspace's tab and the camera).                      *)
THEOREM ClientCorrect ==
  ASSUME Focus \subseteq {"panel", "tab", "packets", "camera"}
  PROVE  MCSpec => []ClientInv
<1>1. MCInit => ClientOK BY ClientStarts
<1>2. ClientOK /\ [MCNext]_all => ClientOK' BY ClientStep
<1>3. ClientOK => ClientInv BY DEF ClientOK, ClientInv, PanelOK, PacketPanelOK
<1> QED BY <1>1, <1>2, <1>3, PTL DEF MCSpec
=============================================================================
