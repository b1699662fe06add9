# ProofPilot: a TLA+ model of what happens concurrently

ProofPilot helps creators whose social-media account was suspended to gather
evidence, arrange it into a case and share the resulting packet.  It is a pnpm
monorepo: a Next.js client (`apps/web`), a NestJS API (`apps/api`), a BullMQ
worker (`apps/worker`) and shared packages (`packages/database`, `storage`,
`types`).  State lives in PostgreSQL (through Prisma), private objects in S3,
jobs in Redis (BullMQ).  API and worker may run as several processes, and the
client holds state of its own between a request and its reply.

This directory holds TLA+ modules translated from that code, TLC instances that
check them, and theorems about them checked by TLAPS.

## 1. Inventory

| Component | State | Operations | Talks to | Hard behaviour | Correct when |
|---|---|---|---|---|---|
| Evidence uploads, API | `Document` row, staging and verified object | create, import, complete, reprocess, remove | S3, ClamAV, `document-processing` queue | requests interleave at every await; a presigned URL stays valid; every call can fail; processes die | only scanned bytes are promoted, queued, extracted |
| Abandoned-upload cleanup, worker | same | select, claim, delete, remove | S3 | batches overlap; rows change between select and claim | only abandoned rows expire, and all of them do |
| Document processing, worker | same | find, start, extract, finish, fail | queue, S3, checklist | at-least-once delivery, lost locks, writes by id | jobs settle, nothing stays PROCESSING |
| Email outboxes, worker | `PacketShareEmailDelivery`, `Notification` | select, lease, suppress, send, record | Resend | leases that expire under a send; lost answers; crashes | one writer, bounded attempts, true and final results |
| Reminders, worker and API | `Reminder` | claim; reschedule, complete, delete | notifications | selection and claim are two steps | each schedule alerts once, and does |
| Packet sharing, API | `PacketShare`, challenges | create, revoke; ask for a code, verify, read, comment | outbox, mailer | concurrent guesses and verifications, revocation | codes earn one token; closed stays closed |
| Accounts, API | password, sessions, reset links | login, logout, revoke, change, forgot, reset | mailer | slow comparisons; requests act on what they read | links are spent once; old sessions and links die |
| Collaboration, API | `CaseCollaborator` | invite, renew, accept, decline, withdraw, remove | mailer | mails fail late; tokens are replaced | tokens decide once; the last invitation works |
| Packet generation, API and worker | `CasePacket`, job | generate, render, record | queue, S3 | stalls, lost locks, failed writes | a READY packet has a file, none stays GENERATING |
| Demo workspaces, API and worker | demo `User` and copies | start, reset, clean up | S3 | serializable transactions retried; cleanup by halves | capacity, one to a visitor, nothing that rows name is left behind |
| Case progress, API and worker | status, checklist, rounds | submit, update, analyse, tick, delete | each other | all write `Case.status` from stale reads | checklist and status say what evidence and rounds say |
| Timeline, API | `CaseEvent` | create, edit, remove, reorder, analyse | evidence | positions are shifted by overlapping requests | order and manual entries are kept |
| Tasks, API and web | `CaseTask`; the board, its editor | list, create, update, delete, toggle | each other | an update is computed from what was read; replies meet the load | status, progress and date agree; the board is current |
| Inbox and support, API and web | read state; list, selection, detail | list, open, mark, reply, create | notifications | two loads and marks in any order | list, detail and rows agree; every wait ends |
| Completeness and proof map, API and web | none: computed from the case | score, caps, claims, gaps | all records of a case | weights, caps and roundings that disagree | work never sets a case back; what is ready is reviewed |
| Statements, API and web | versions; draft in the browser | save, generate, restore, summarize | each other | version numbers collide; replies for another case | nothing acknowledged is lost; texts stay in their case |
| Evidence panel, web | upload queue, two polls | enqueue, upload, retry, poll | API | lost replies, stale news of documents | one evidence per file, the queue moves |
| Packet panel, web | list of packets, polls, interval | load, generate, poll, refresh | API | polls overlap, cases change meanwhile | it catches up with what is generated |
| Camera capture, web | stream, request for it | open, switch, capture, leave | the browser's devices | a stream is granted after the camera was left | no stream is left running |
| Workspace tab, web | session, cached cases, selection, path | navigate, open, archive, sign in and out | API | replies in any order | the selection comes back to the path |

Components that are not modelled are listed in section 8 and, with their files,
in `PROJECT.json`.  Its `hazards` list every place where this code can go wrong in
a way a test would hardly reach, with the property that would notice.

## 2. Plan

The modules were written in this order: the evidence pipeline; the outbox
protocol with the two compositions that implement it; reminders; then what an
owner decides against requests in flight (shares, accounts, team); what the
worker brings to an end (packets, demo workspaces); the records of a case; the
browser.  `Delivery`, the abstract specification of a message, came after the
outbox it abstracts.  Proofs followed the model checking of each protocol.

What is left, in the order of its worth: an abstract life cycle of a document that
`EvidencePipeline` implements; the public packet page of the browser against
`PacketShareAccess`.

## 3. Modules

| Module | Models | State |
|---|---|---|
| `EvidenceDocument` | what the evidence components share | `row`, `store` (the two private keys), `queue` (jobs), `clock`, `signatures`, `passed` (history: what the scanner let through) |
| `DocumentUploads` | `DocumentUploadsService`, `DocumentUploadSecurityService`, `DocumentRecordsService.remove`, the client's PUT | `req[r]`: operation, step, snapshot |
| `UploadCleanup` | `expireAbandonedUploadBatch` | `cleaner[c]` |
| `DocumentProcessing` | `processUploadedDocument`, BullMQ's delivery | `worker[w]` |
| `EvidencePipeline` | their composition, properties, inductive invariants | all of them |
| `Environment` | what the other protocols share: NULL, a clock, faults | `clock` |
| `Delivery` | abstract: one message is announced, attempted, settled | `state`, `since`, `attempts`, `taken` |
| `EmailOutbox` | both outbox batches up to their reasons to suppress; implements `Delivery` | `delivery` (one row), `batch[b]`, `accepted` |
| `PacketShareEmails` | the outbox with `PacketSharingService.create` and `revoke` | `share`, `revoker[o]` |
| `NotificationEmails` | the outbox with notifications, settings, archiving, `markRead` | `wanted`, `reader[r]` |
| `ReminderDelivery` | `deliverDueReminderBatch`, `updateReminder`, `deleteReminder` | `reminder`, `pass[b]`, `editor[e]`, `handled` (history) |
| `PacketShareAccess` | `PacketShareAccessService` | `share`, `code[c]`, `visitor[v]`, `accessTokens`, `granted` and `served` (history) |
| `Accounts` | `AuthService`, `SecurityService`, the guard | `user`, `session[s]`, `link[t]`, `request[q]` |
| `Collaboration` | invitations, decisions, removal | `member[p]`, `dialog[d]`, `tokens`, `fate` (history) |
| `PacketGeneration` | `generate`, `generateCasePacket`, BullMQ | `packet[k]`, `call[c]`, `renderer[w]`, `disturbed` (history) |
| `DemoWorkspaces` | `PortfolioDemoWorkspaceService`, its cleanup, what is stored and named meanwhile | `workspace[w]` with its `objects` (named by a row or not), `created`, `start[q]`, `cleanup[b]` |
| `DemoClone` | `cloneUserData` | `template`, `copy` |
| `CaseProgress` | submissions, checklist and its analyses, `Case.status` | `appeal`, `ready`, `deleted`, `checklist`, `matches`, `round`, `edit[q]` |
| `CaseTimeline` | `CaseTimelineService` and its analysis | `events`, `readable`, `change[q]` |
| `CaseStatements` | `CaseStatementsService` | `versions`, `newest`, `summary`, `writer[w]` |
| `StatementBuilder` | `useStatementBuilder` against `CaseStatements` and a colleague | `shown`, `known`, `editor`, `load`, `task` |
| `CaseReadiness` | `calculateCaseCompleteness`, `getCaseNextActions`, the proof map | `file`, `item`, `mark`, `moment`, `untracked` (a submission that "Track submission" warns of) and the rest of what they read |
| `TaskBoard` | `TasksService`, `useTasksPanel`, the editor | `kept`, `board`, `boardLoad`, `open`, `send[k]` |
| `InboxPanel` | `InboxService`, read state of `SupportService`, `useInboxPanel` | `talk`, `line`, `sheet`, `listAsk`, `sheetAsk`, `marking[k]` |
| `EvidencePanel` | the upload queue and both polls | `item[f]`, `upload`, `doc[d]`, `selected`, `detail`, polls |
| `PacketPanel` | `PacketExportPanel` and what the API answers | `packet[p]`, `listed`, `facing`, `watching`, `look[l]`, `missed` |
| `CameraCapture` | `EvidenceCameraCapture` and the browser's streams | `openCall[k]`, `active`, `held`, `shownAs`, `captured` |
| `Workspace` | session, cases, selection, path | `user`, `cookie`, `cached`, `chosen`, `route`, `fetch[s]` |
| `MCEvidence`, `MCDecisions`, `MCRecords`, `MCBuilder`, `MCWorker`, `MCClient` | instances for TLC | `part` |
| `EvidencePipelineProofs`, `EmailOutboxProofs`, `ShareEmailProofs`, `NotificationEmailProofs` | proofs of the evidence pipeline, the outbox and its two compositions | |
| `WorkerProofs`, `DecisionProofs`, `RecordsProofs`, `ClientProofs` | proofs of reminders, packets and demo workspaces; of shares, accounts and teams; of the records of a case, with the statement builder; of the browser | |

How they compose: `EvidencePipeline` composes three modules over one document;
`PacketShareEmails` and `NotificationEmails` put their owners around the outbox;
`StatementBuilder` composes a browser with the server it talks to.  An `MC`
module of several components lets one of them run (`part \in Focus`) while the
others keep their initial state.  They share nothing but the clock, so an
interleaving of two would show nothing that one alone does not; each has its own
fairness while it is the one that runs.

How code becomes actions:

* Every awaited call is one action; a Prisma `$transaction` is one action, or
  several where PostgreSQL's READ COMMITTED lets others commit between its
  statements and that matters (`CaseStatements`, `CaseTimeline`, `CaseProgress`).
  In `DemoWorkspaces` a transaction is serializable: it commits only if nothing it
  read was changed, and is retried once, as in the code.
* A program counter (`pc`) names the call that comes next; the other fields of a
  request's record are exactly what the handler has read and still uses.
* `updateMany` with a condition writes if the condition holds when it is
  executed and does nothing otherwise; `update` by id throws when the row is gone.
* A call that can throw has a second disjunct, enabled by its kind of fault in
  `Faults`; a write that throws may have been performed where the answer, not the
  write, is what was lost.
* One document, message, reminder, share, account or case: rows of different
  ones share no statement.  Where rows of one kind compete (codes, links,
  workspaces, seats) there are several.
* A date is a tick of `clock`.  `version` stands for `updatedAt` where a statement
  compares it; two writes within one millisecond are not modelled.
* Bytes are opaque: `ValidBytes` match the reservation's size and type,
  `ThreatBytes` a signature, now or after `UpdateSignatures`.
* BullMQ, ClamAV, S3, Resend, the mailer and the clock are external and modelled
  from how the code uses them: a lock that is not renewed (`LoseLock`), a stalled
  job (`StallCheck`, `RecoverStalled`), a provider that took a message although its
  answer was lost (`accepted`).
* The server of `EvidencePanel` and of `Workspace` is what the browser sees of it;
  the modules of the API say why it may be seen so.

The operators whose comment says "Mutation" are not part of any specification:
each is a plausible bug, and with it in place of the definition next to it the
property it is aimed at fails.  A property with several named parts has a mutant
for most of them.

## 4. Properties and runs

| Run | Checks | What it shows |
|---|---|---|
| `EvidenceSafety` | `TypeOK`, `CompletionIsExclusive`, `VerifiedBytesAreSafe`, `OnlySecuredIsQueued`, `ExtractsScannedBytes` | one completion at a time; only scanned, valid bytes are promoted, queued and extracted; the pipeline fails closed |
| `EvidenceDelivery` | `CompletedLeavesNothingProcessing` | duplicated delivery and reprocessing leave no document PROCESSING, where the database answers and no process dies |
| `EvidenceExpiry` | `ExpiredStaysFailed`, `PromotedHasObject`, `OnlyAbandonedExpire`, `ProcessingEnds` | cleanup, completion and removal racing for one reservation |
| `EvidenceRecovery` | `JobsSettle`, `AbandonedAreReclaimed` | with crashes, jobs settle and abandoned reservations are removed |
| `WorkerSettles` | `OutboxInv`, `KeepsPromise`, `RevocationIsHonoured`, `InvitationSettles`, `OncePerSchedule`, `EveryScheduleIsHandled`, `PacketInv`, `PacketSettles`, `DemoInv`, `WorkspacesAreReclaimed` | what the worker has to bring to an end by itself (invitations to a share, reminders, packets, demo workspaces), it does, and not twice; the outbox, under a share, implements `Delivery` |
| `OwnersDecisions` | `AccessInv`, `DeadCodeStaysDead`, `ClosedShareStaysClosed`, `AccountInv`, `TeamInv`, `DeadTokenDecidesNothing`, `OptOutIsHonoured` | what was withdrawn stays withdrawn, what is used once is used once |
| `CaseRecords` | `RecordsInv`, `TimelineIsKept`, `OnlyLateWritesUndo` | overlapping changes of one case leave its checklist, status, timeline, tasks and inbox consistent, and only a write from a read that was overtaken undoes a tick or an outcome; a demo copy refers to nothing outside itself |
| `StatementBuilder` | `StatementsInv`, `BuilderInv`, `ReadinessInv`, `ReadinessNeverDrops` | two writers lose no acknowledged version; late replies do not move a text to another case; work on a case never lowers what it shows of itself |
| `WebClient` | `ClientInv`, `WaitsEnd`, `SelectionFollowsPath` | upload queue, packet panel, camera and tab under lost and late replies |

Properties with named parts:

* `OutboxInv`: types, what the row's status says (`RowOK`), what a batch that
  selected (`ClaimerOK`) or claimed (`HolderOK`) may rely on, and
  `FenceIsExclusive`.
* `KeepsPromise` is `Delivery!Spec` under a mapping that turns a row's status,
  `lastAttemptAt` and `attemptCount` into `state`, `since` and `attempts`: a
  message is sent only if the provider took it, a settled one is never attempted
  again, attempts begin in order and wait for the one before, and only the limit
  gives up.
* `InvitationSettles`: once nothing fails every delivery ends, sent, suppressed, given
  up or deleted; and one whose share was revoked before the provider had it is never
  sent.
* `AccessInv`: `OneAccessPerCode` and `AccessIsEarned` with what they rest on.
  `AccountInv`: `LinkIsSpentOnce` (in `LinkOK`), `NoLinkOutlivesReset`,
  `NoSessionOutlivesPassword`.  `TeamInv`: `TokenDecidesOnce`,
  `LastInvitationWorks`.
* `PacketInv`: `ReadyHasExport`.  `DemoInv`: `CapacityHolds`,
  `OneWorkspacePerVisitor`, `OwnWorkspace`, `NothingIsLeftBehind` (of what was stored
  while the workspace was active, nothing that its rows name at the end; what no row
  names is the subject of `DemoLeavesPdf` below).
* `RecordsInv` is the invariant of the component that runs: `ProgressInv`,
  `TimelineInv`, `CopyIsFaithful`, `TaskInv`, `InboxInv`.
  `ProgressInv`: `FoundItemHasMatch`, `ChecklistIsCurrent`, `LatestOutcomeStands`;
  the last two except everything after a first stale write, so `OnlyLateWritesUndo`
  says of each single step, whatever came before, which write may undo what.
  `TimelineInv`: `ReadsInOrder`.  `TimelineIsKept`: `CustomOrderIsStable`,
  `ManualEntriesArePreserved`.  `CopyIsFaithful`: `CopyStandsAlone`,
  `CopyIsComplete`.  `TaskInv`: `TaskStateAgrees`, `BoardIsCurrent`.  `InboxInv`:
  `SpinnerIsAnswered`, `SheetIsPicked`, `ListIsCurrent`.
* `StatementsInv`: `AcknowledgedVersionIsKept`, `HistoryHasNoGaps`.  `BuilderInv`:
  `WhatLooksSavedIsSaved`, and `SavedUnderItsOwnCase` (in `TextsOK`) where refreshes
  do not fail.  `ReadinessInv`: `ReadyMeansReviewed` (a packet that is
  offered as ready leaves no warning but a timeline that was never started and a
  submission that is not recorded), `SupportedClaimsLead`.
* `ClientInv` is the invariant of the component that runs: `PanelInv`
  (`OneEvidencePerFile`, `UploadKeepsItsItem`), `PacketPanelInv`
  (`SomebodyWatches`), `CameraInv` (`NoStrayStream`, `ReadyMeansLive`) and
  `WorkspaceInv` (`RequestsNameTheirCase`).  `WaitsEnd`: `QueueMoves`,
  `UnselectedItemsSettle`, `PanelCatchesUp`.

Most of these invariants also hold what the requests under way know (`SendOK`,
`SheetAskOK`, `EditsOK`, `ChangesOK`, `UploadOK` and the like), so that they are
inductive: TLC checks in a run exactly what section 5 proves.

Three runs end in a violation: something the documentation says and the code does
not do.

| Run | Property | What happens |
|---|---|---|
| `EvidenceReplaced` | `PromotedIsImmutable` | B reads an UPLOADED row with its staging key.  A completes and promotes it, then `queue.add` throws and A releases the claim.  The client PUTs other bytes to the still-valid URL.  B claims, scans and copies them, under the stale staging key, over the verified object. |
| `ReminderRescheduled` | `ClaimsAreDue` | A batch selects a due reminder, a member moves it to a later date (which clears `sentAt`), the batch claims it: the new schedule is used up before its date. |
| `DemoLeavesPdf` | `NoStorageOutlivesWorkspace` | The PDF of a packet is stored while a demo workspace is active; the transaction that would name its key has not run (or fails).  The workspace expires, the cleanup collects the keys that rows name, finds none of the PDF, and deletes the rows. |

### Bounds

* Actors: two of a kind that race (batches, visitors, requests, workers), three
  requests where a third creates what two race for (evidence, case records).
  Each request of the evidence pipeline, a case or a timeline runs once; batches,
  visitors and account requests begin again as often as time allows.
* Bytes: at most three kinds, two good ones where replacement matters.
* `MaxClock` 0 to 3 ticks.  Leases, lifetimes and delays are 1 or 2 ticks, and
  limits 1 or 2 instead of 3 or 5: the protocols compare these values and do
  nothing else with them.  Two ticks let a lease expire and a retry fall due, three
  a reservation be abandoned, expired and its cleanup retried.
* `Repaired` is the tick from which nothing fails any more; without it no
  liveness holds of code that depends on others.  Safety runs have faults for part
  of their time only where time passes at all.
* `MaxTouches`, `MaxEpoch`, `MaxTokens`, `MaxRounds`, `MaxVersions`, `MaxSummaries`,
  `MaxGestures`, `MaxTurns`, `MaxPackets`, `MaxLosses`, `MaxLoads` and `Slots` bound counters.  Those of the shares in
  `WorkerSettles` and of `WebClient` also end the disturbance by others, without which a claim could be
  outrun, or the selection moved, for ever.
* Symmetry is used only in runs without liveness, over requests, people, codes,
  words and documents that the actions do not tell apart.  `TimelineIsKept` has
  action parts but no liveness.  `StatementBuilder` has it over the
  moments of a timeline.  In `WebClient`, which has liveness, `MCClient` names
  the document that is reserved first `d1` (`InOrder`) and the case that the packet
  panel shows first `caseA`; every other behaviour is one of these under other names.
* `MCWorker` lets a share expire only before its last tick (`EarlyExpiry`): an
  earlier one shows the same, with time left for batches after it.
* The panel of `WebClient` has one file, which competes for the queue with its own
  retry only; `PanelCorrect` is proved for any number of files.
* `CHECK_DEADLOCK FALSE`: once all requests have returned, all jobs are settled
  and the clock has stopped, nothing more happens.

### Fairness

Weak fairness of what runs by itself: an awaited call settles, a batch's next
step (BullMQ's scheduler starts one every minute or hour), a worker that polls its
queue, BullMQ's stalled-job check, a poll's timer in the browser, and time.
Nothing obliges a user to begin anything, and no fairness is assumed of failures,
crashes or the client's PUT.

* `ProcessingEnds` is checked without crashes: a process that dies between the
  promotion and the enqueue does leave a document PROCESSING (see the hazards).
* `PacketSettles` excepts a packet whose run was hit where nothing records it
  (a crash, a lost job, a failing database, an archived case: `disturbed`).
* `SelectionFollowsPath` says again and again, not for ever: a late reply does
  select another case until the effect that follows the path has loaded it anew.

## 5. Proofs

All theorems hold for any number of actors, any delays and any combination of
faults; they assume only the named assumptions next to the constants
(`OutboxAssumption`, `AccessAssumption`, `AccountsAssumption`,
`EnvironmentAssumption` and so on: positive lifetimes, natural bounds, special
values that are none of the ordinary ones).

### Evidence pipeline

`IInv` strengthens the safety properties with what the position of each actor
says about the row:

* `ClaimShows`: while a request holds the completion claim the status is not
  UPLOADED, so nobody else can claim, and only the holder's `Release` changes that.
* `RequestOK`: the key only moves from staging to verified, so a snapshot of a
  verified key implies a promoted row; after the scan the recorded ETag is of
  bytes that passed, so `Copy`, whose source must match it, promotes nothing else.
  It also shows why `reprocess()` never marks a row it did not secure: its
  `version` is older than the row's.
* `WorkerOK`: jobs are only queued for secured documents, and the row of one
  cannot be expired any more.
* `CleanerOK`: a first claim that finds the row unchanged finds it abandoned.

`RowMovesForward`, `StatusChanges`, `QueueKeeps` and `HolderCauses` carry the
induction.  `ObjectInv` adds that the verified object exists before the row points
to it and that only a quarantine or `remove()` deletes it.  Theorems:
`TypeCorrect`, `ExclusiveCompletion`, `SafeBytes`, `FailClosed`,
`FingerprintedResults`, `ScannedExtraction`, `ExpiryIsFinal`, `ObjectIsKept`,
`ExpiryIsJustified`, `PromotedIsSpared`.

`DeliveryInv` says who owes a document its next status (`ProcessingIsOwned`): while
there is no job, a completion that holds its claim (`ClaimIsHeld`); once there is
one, a worker that still has a status to write or a job that was not completed
(`JobIsOwed`, which is about UPLOADED too, since a claim may be released and taken
again after the job was added).  A job is completed by a worker that reports
success; `ReportIsTrue` and `QuarantineCloses` say that the document is then
settled, or still another worker's.  Theorems: `ProcessingHasOwner`, and from it
`CompletedCorrect`.  Both suppose that no process dies and the database answers
(section 7 says what happens otherwise); locks, storage, scanner and queue may fail.

### Outbox

`OutboxInv` is the argument for a fence that is a date and not a unique token: a
selected row whose version has not moved is due by this batch's `now` and was last
attempted before it, so a claim moves `lastAttemptAt` strictly forward
(`ClaimerOK`); a batch past its claim has a `now` no later than `lastAttemptAt`, and
when another batch claims, the row leaves it behind for good (`HolderOK`).  Hence
one batch at most can write the row's result.

From it follow `FenceCorrect`, `SentCorrect`, `FinalCorrect`, `AttemptsCorrect` and
`PromiseKept`, the refinement of `Delivery`: every step of the outbox maps to a step
of the message or to a stutter.  Both compositions take outbox steps or none
(`ShareImplementsOutbox`, `NotificationImplementsOutbox`) and inherit the theorems; a
short argument of their own gives `RevocationCorrect` and `OptOutCorrect`.

### Worker

Reminders: `ClaimedInOrder` says that the schedule in force is marked as sent from
its claim until a new date starts the next one (`OncePerScheduleCorrect`).

Packets: `PacketInv` is inductive.  `RunOK` ties a run to the object it has
written, `JobOK` says that a job has one holder of its lock at most, and `CallOK`
what a request that has created its row may still write.  `PacketCorrect` holds for
stalls, lost locks, crashes and failed writes alike.

Demo workspaces: `DemoInv` is inductive (`DemoCorrect`).  `StartOK` is what
serializability gives a start: as long as nothing it read was changed its view is
the database's, so counting before creating keeps the capacity, also after the
retry.  `CleanupOK` says that a batch has listed, and deleted before it goes on to the row,
what rows named when the workspace ended.  Capacity is a cardinality, so the set of workspaces is assumed to be finite.

### Packet shares

`AccessInv` is inductive.  `VisitorOK` says what a request at each step knows: the
one that creates a code is alone with it, the one that consumes a code answered it
and it was mailed, the one that signs has spent it and no other request signs for
it.  `CodeOK` bounds the attempts and ties the tokens that were granted to
`consumed`.  The conditional update `Consumable` is where two verifications are told
apart, and `DeadCodesStayDead` and `ClosedSharesStayClosed` look at its conditions
and at the reload of the share.

### Accounts

`AccountInv` is inductive: `RequestOK` (a request about to write has what it
writes), `LinkOK` (a link that was not used changed no password), and the two
properties about links older than a reset and sessions older than a password.
Both rest on one transaction: a reset claims its link by a conditional update,
spends all others and revokes the sessions; a change of the password revokes all
sessions but its own.  `LinksAreSpentOnce`, `ResetsEndLinks` and
`PasswordsEndSessions` follow.

### Teams

`TeamInv` is inductive.  `MemberOK` relates a row to what became of its token,
`DialogOK` says what each request and mail in flight still knows of the row it
read, and `TokensDiffer` that a token names one invitation.  `TeamCorrect` and
`DeadTokensDecideNothing` (an action property: a token that was replaced, withdrawn
or used decides nothing) follow.

### Records of a case

Each component has an inductive invariant, and `RecordsCorrect` and
`TimelineKeptTogether` put them together for the composition that the run checks.

* Statements and builder: `StatementsCorrect` is about the API alone.  The editor
  is one of its writers, so the builder's invariant is inductive only together with
  it (`BuilderCorrect`: `StatementsInv /\ BuilderInv`).  A reply is told by `TaskOK`
  and `LoadOK`: what was asked, for which case, and what of it is still shown.
* Progress: what is written from a view that is no longer so is marked `stale`, and
  `RecordsAgree` says the rounds are numbered without gaps.  `LateWritesAlone` needs no
  assumption on faults and no history variable in its statement: each step that undoes
  a tick or an outcome is by a request whose view or latest round was overtaken.
  `ProgressCorrect` and `RecordsCorrect` suppose that the database rolls
  back no analysis (`"analysis" \notin Faults`), since the analysis a deletion owes
  (`ChecklistIsOwed`) is not repeated when it is lost.
* Timeline: `TimelineOK` adds to `TimelineInv` that positions are natural numbers
  with a last one, which is where finiteness of the dated documents is used, and
  that every event was made by a request that has ended.  `TimelineKept` proves both
  action properties.
* Tasks and inbox: an update, a toggle or a mark under way is described by what it
  has read and will write (`SendOK`, `SheetAskOK`, `ListOK`).  The board and the list
  are current where no two writes crossed (`AloneOK`, `crossed`).
* Clone and readiness: `CloneCorrect` counts what was copied by a bijection between
  the template's records and the copy's; `ReadinessCorrect` compares the weights of
  claims, which are sums of a few conditions.

### Browser

* Evidence panel (`PanelCorrect`): what of a file's evidence is not left behind is
  its item's document, and nothing is when a new reservation is created
  (`EvidenceIsTheItems`, `UploadOK`).  Documents need not be finite in number, so the
  proof keeps "at most one" without a cardinality (`EvidenceIsOne`).
* Packet panel (`PacketPanelCorrect`): while something is shown as being generated
  an interval runs, a refresh is under way, or one was missed.  The argument is that
  only a poll which saw everything ended stops the interval (`RefreshesWhatEnded`);
  it also needs that the rows of the server are finite in number.
* Camera (`CameraCorrect`): every stream that runs is the one on show, since a run
  that finds itself left stops what it was given (`HeldIsPlayed`).
* Tab (`TabCorrect`): a request that selects a case names one.

`ClientCorrect` composes the four: a step of one leaves the others' state alone.

### Assumptions

The named assumptions are the ones the code justifies: null is none of the ordinary
values (`PacketAssumption`, `BuilderAssumption`, `PanelAssumption`,
`ProgressAssumption`, `TimelineAssumption`), rows that are counted are finite in
number (`DemoAssumption`, `ReadinessAssumption`, `CloneAssumption`,
`TimelineAssumption`), limits are positive, a browser has some camera to ask for.
TLC evaluates each of them on the instances of the runs.

### Only model-checked

* All liveness: fairness and ENABLED are out of the prover's reach.
* `ReadinessNeverDrops`: the score is a sum over a set, and that adding a document
  does not lower it needs induction over the data.

## 6. Fault model

| Faults | Where |
|---|---|
| a statement fails, or its answer is lost | all protocols with a database |
| a process dies between two steps | evidence, outboxes, reminders, packets, cleanup |
| storage or scanner fails | evidence, packets, demo cleanup |
| enqueueing fails after the job reached Redis | evidence, packets |
| a lock is lost, a job stalls, attempts run out | evidence, packets |
| the provider or mailer fails, or takes the message without saying so | outboxes, shares, accounts, team |
| replies are lost, late or in another order | browser |

## 7. Further differences

They follow from the same definitions; no run repeats them.

Evidence:

* A quarantine that falls between the worker's read and its status write is
  overwritten by id (`StartProcessing`), against `docs/operations.md:100`.
* `remove()` that read the staging key while a completion promotes leaves the
  verified object behind, against `document-records.service.ts:160`.
* A worker that lost its lock may write PROCESSING after another has processed the
  document and completed the job.  If it dies before its next write, or that write
  fails, the document stays PROCESSING, and its own failure is not retried: hence
  the suppositions of `CompletedCorrect`.
* Two `reprocess()` requests that read PROCESSED both queue a job, although
  `documents.service.spec.ts:590` speaks of no duplicate processing for an active
  document: neither takes a claim.

Messages and reminders:

* A share that expires while its batch is sending is still mailed
  (`docs/operations.md:89`): expiry is compared with the batch's start, which also
  dates the ten-minute lease of `docs/operations.md:80`.
* Claim, crash, lease expiry, claim exceeds the five attempts of
  `docs/architecture.md:68`: the limit is only looked at when a failure is recorded.
* A reminder whose case is archived after the selection still alerts
  (`docs/architecture.md:66`).
* A batch takes its 50 oldest rows (`packet-share-email.processor.ts:83`); their
  order and number are not modelled.

Accounts, shares and team:

* A login that compared the old password before a change or reset opens its
  session after it (`docs/architecture.md:39`): `NoSessionOutlivesPassword` dates a
  session by the password in force when its row was written.
* Two requests for a reset link that overlap leave two live links
  (`docs/deployment.md:140`); spending one ends the other.
* Two requests for an access code within the cooldown both mail one: the search
  for a recent challenge and the creation are two statements.
* Concurrent invitations exceed the ten seats of `docs/architecture.md:80`.
* Renewing an invitation writes by id and can turn a member who accepted
  meanwhile back to PENDING.

Packets and demo workspaces:

* A packet whose last run dies, whose job is lost, or whose failure cannot be written
  stays GENERATING and blocks every later one (`CasePacketsService.generate`);
  `PacketSettles` excepts it (`disturbed`).
* What is stored or named after a demo workspace has ended, by a request that was
  admitted before, may stay behind as well (`docs/architecture.md:118`); `Objects`
  counts only what was stored while it was active.

Cases:

* What an analysis writes from a view that is no longer so stays until the next
  one, manual completions included (`docs/api-map.md:119`); `ChecklistIsCurrent` and
  `LatestOutcomeStands` except it (`stale`), `OnlyLateWritesUndo` names the write.
* A request admitted before a case was archived moves it out of ARCHIVED.
* A generated timeline event that was edited is lost at the next analysis, since
  editing leaves the confidence by which generated events are found.
* `FoundItemHasMatch` is about items with a requirement.
* `TasksService.update` computes status, progress and completion from what it
  read, so a change of the title alone can undo a completion made meanwhile; of two
  completions the later one sets `completedAt` again.
* A case without a required checklist item is capped below 80, the score of
  "Ready" (`CaseReadiness!Caps`).  Confirming a claim in need of review that has no
  source lowers its strength from 38 to 26, which is why `Gained` excepts it.  A
  weak claim with two kinds of source shows no gap.

Browser:

* A draft is saved under another case when the request of the summary or the
  refresh after it fails while the other case is shown: `SavedUnderItsOwnCase` is
  stated without these two failures.
* A background refresh that changes the case drops an unsaved draft.
* In the inbox, a conversation that leaves the filtered list before its detail
  arrived (UNREAD, marked as read) leaves the detail loading until another is
  opened; a detail that was read before its mark was written shows unread next to
  a list that shows read; "mark all read" marks notifications that were never
  listed; a reply sent during a reload can be shown twice.
* On the task board a save's reply closes the editor whatever it shows by then,
  and a task created while the list is loaded may vanish from it.
* The packet panel clears its interval before it awaits the refresh of the case:
  when that fails the packet stays "generating" and Generate disabled until the case
  changes, although the panel says it "will refresh this panel automatically"
  (`SomebodyWatches`).  It is not keyed by case: if the load of the next case fails,
  the packets of the last one stay.
* When `play()` fails the camera stream keeps running under "unavailable"; a frame
  may be handed over after going back.

## 8. Not modelled

* Rendering: pages, forms and panels that show one reply and send the next
  request on a click, the shared packet page, navigation; the layout of PDFs.  The
  API, which is modelled, decides what these requests may do.  They are most of the
  repository's lines, with the rows of the demo template (`seed.ts`).
* Single statements on rows of one user: profile, registration, connections,
  sharing settings, roles, the texts of support requests.  Nothing that happens in
  between matters to them.
* Reads: search, reports, billing, health and queue statistics.  The assistant
  appends a question and its answer in one transaction.
* In what is modelled: access control of cases except where a decision races with
  it, audit and processing logs, validation of inputs, counters, batch sizes, the
  scan mode `disabled` (production startup refuses it), the log mode of mails, the
  guidance answers of a statement, evidence links of a timeline event, the
  restoration of a browser's session at boot, the change of case under the evidence
  panel.
