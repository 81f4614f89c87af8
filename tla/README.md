# Verification of Mindwtr's store, sync and capture queue

Mindwtr (`todo-moe`) is a local-first task manager: a TypeScript core
(`packages/core/src`) under a desktop app (Tauri), a mobile app (Expo), a
self-hosted sync server (`apps/cloud`) and an MCP server. There is no central
authority. Every device owns a full copy of the document, edits it in memory,
saves it behind the user's back and exchanges it with the others through one
shared file. What can go wrong is in the order of things: saves that overlap
and fail, edits that land in the middle of a sync, devices that merge the same
copies in different orders, runs that are killed, skipped or retried.

This project models that part: the save queue, the merge rules, the
convergence of devices, the sync cycle between its awaits, the lease that keeps
clients apart on the remote, the triggers and timers that start a sync, the
switch from one backend to another, the queue of captures made outside the app
and the delivery of what was made on the Watch.

## 1. Inventory

| Component | State it keeps | Operations | What is hard | What makes it correct |
|---|---|---|---|---|
| Save queue (`store.ts`, `store-tasks.ts`) | queue of snapshots, version counters, row writes in flight, debounce timer, failure banner | edit by snapshot or by row, flush (several at once), retry, replay of a capture | overlapping flushes, a failed row write that comes back late, a full queue, retries running out in another call | no edit is lost silently, storage never goes back, a flush that resolves tells the truth |
| Storage (`sqlite-adapter.ts`) | rows with revisions | revision-guarded upsert of one row or of the whole document | row writes and whole-document writes of store and sync race on one row | a later revision is never overwritten by an earlier one |
| Merge rules (`sync.ts`, `sync-revision.ts`, `sync-signatures.ts`) | none | winner of two copies, next revision | tombstones against live copies, the ambiguous window, clamped and missing times, saturating revisions | the winner does not depend on the side that merges; a local write wins over what it was made on |
| Convergence of devices | one copy per device and the shared one | edit, delete, restore, sync | the order of syncs decides which copies meet | all devices come to hold the same copy |
| Sync cycle (`sync-run.ts`, `sync.ts`) | snapshot and its change stamp, the cached remote document, markers of an unfinished remote write (in the settings), the recorded pair of fingerprints | fast check, unread upload, read check, merge, three local writes, remote write, refresh, reload | every await: edits, other devices, lost requests, lost leases, a killed app | no saved edit is lost, the remote never regresses, skipping is sound, edits reach everybody |
| Remote mutation fence (`sync-remote-fence.ts`) | lease record on the provider, the holder's cadence, one operation at a time | acquire, reclaim, confirm, heartbeat, renew, `assertHeld`, release | a holder that sleeps past its lease; answers that are old when they come; requests that arrive after they were given up | two clients never have the right to mutate at the same time |
| Store reload (`store-settings.ts`) | store, change stamp | `fetchData` from storage or with a document | edits during the flush or the read | an edit is not replaced by an older copy |
| Sync orchestrator, auto-sync controller (`sync-orchestrator.ts`, `auto-sync-controller.ts`, and the apps' hooks) | run in flight, queued request, timers, cooldown, remembered request | request, follow-up, debounce, throttle, heartbeat, focus, suspend, resume, dispose | a trigger that arrives while another is being absorbed; one timer with two meanings | every change leads to a run; one run at a time; a failure is retried, but not at once |
| Data transfer transaction (`data-transfer-transaction.ts`, `async-queue.ts`, `sync-cycle.ts`) | document lane, writer tickets | import, restore, sync | a writer that outlives its ticket | one writer at a time, no lost restore |
| Sync configuration transaction (`sync-configuration-transaction.ts`) | settings stored one by one, the backend as activation flag | commit, verify, roll back, restore | a step that fails half-way, or whose answer is lost | the backend in use was proven; what is said to be restored is restored |
| Native Dropbox credentials (`sync.rs`) | token bundle, promotion journal, staged authorizations, resolved handles | stage, promote, roll back, finalize, discard, disconnect, recover | a crash between journal, bundle and backend | a bundle is replaced only when the one before can be brought back |
| Pending captures (`pending-captures.ts`, native writers) | queue files, recordings, check-offs of the widget | write, drain, transcribe, flush, delete; tap, undo, sweep | kills and failures between apply, flush and delete; overlapping drains; an undo against a drain | nothing is lost in silence, repeats are bounded, an undo is honoured |
| Watch companion (`MindwtrWatchConnectivityReceiver.swift`, `WatchOutbox.swift`) | outbox, journal of receipts, stages, recordings | save, send three ways, receive, stage, publish, acknowledge, recover | duplicates and reordering, a kill between any two file operations | every item is published exactly once and the Watch keeps it until then |
| Tombstones and compaction | tombstones, purge times | purge, compact | a device that was away longer than the retention | a forgotten tombstone does not bring a task back |
| Attachments | files, references, pending deletions | upload, download, clean up | references change while bytes move | no live reference to deleted bytes |
| Settings merge, recurrence, importers, Pomodoro phases, UI, MCP | - | - | formats and dates rather than interleavings | covered by the unit tests |

The components interact by calls inside one JavaScript thread: an edit changes
the store, stamps `lastDataChangeAt` and queues a save; a sync run flushes,
copies the store, reads storage and the backend, and writes both; between any
two awaits the user, the timers and the storage answers run. The controller and
the sync service each have an orchestrator; the configuration transaction calls
native commands that exclude each other; native code and app share files. Devices
interact only through the backend. `PROJECT.json` lists every component with its status
and every hazard at its line.

## 2. Modules

| Module | Models | Composes |
|---|---|---|
| `SaveQueue` | the save queue and the upserts of storage | - |
| `SaveQueueProofs` | its inductive invariant and theorems | `SaveQueue` |
| `SyncMerge` | the winner between two copies of an entity | - |
| `SyncConvergence` | devices that edit offline and sync in one step | `SyncMerge` |
| `SyncMergeProofs` | theorems about the winner and about the devices | `SyncConvergence` |
| `SyncCycle` | the sync run of the mobile app between its awaits, with store, storage, backend, fence and server | `SyncMerge` |
| `SyncCycleProofs` | its three invariants (recorded pairs, local writes, saved edits) and theorems | `SyncCycle` |
| `MutationWindows` | abstract: windows of different leases never overlap | - |
| `RemoteFence` | the lease record and its clients | implements `MutationWindows` |
| `RemoteFenceProofs` | its inductive invariant, theorems and the refinement | `RemoteFence` |
| `SyncOrchestrator` | the orchestrator, as operators on its state | - |
| `AutoSync` | controller, its triggers and timers, the service and its runs | two instances of `SyncOrchestrator` |
| `AutoSyncProofs` | its inductive invariant and theorems | `AutoSync` |
| `DropboxCredentials` | the native commands, as sets of outcomes | - |
| `SyncConfiguration` | the transaction and what happens between transactions | `DropboxCredentials` |
| `SyncConfigurationProofs` | what each command and step does, its invariants (journal, active backend, torn journals), theorems | `SyncConfiguration` |
| `PendingCaptures` | the capture queue, its writers, the check-off store and the drain | the save queue seen from outside |
| `PendingCapturesProofs` | its inductive invariant and theorems | `PendingCaptures` |
| `ExactlyOnceQueue` | abstract: an item is published once, and kept until then | - |
| `WatchDelivery` | outbox, transports, journal and receiver | implements `ExactlyOnceQueue` |
| `WatchDeliveryProofs` | its inductive invariant, theorems and the refinement | `WatchDelivery` |
| `MC...` | instances for TLC | |

`PROJECT.json` maps every definition to the lines it stands for. In all modules
one step is one stretch of JavaScript between two awaits (or one atomic
operation of storage or of the backend), and the order of the code inside that
stretch is not visible to anybody else.

### SaveQueue

A row is its revision and 0 is a row that does not exist; a snapshot is a
function from rows to revisions. That is all the queue can tell apart, because
every edit raises a revision. `EditSnapshot` and `EditRow` are the two ways an
edit is persisted (`debouncedSave`, and the immediate row write of
`updateTask`). `FlushLoop` is the body of `flushPendingSave` from the head of
its loop to the next await, with its four exits: row writes are awaited, a
snapshot in flight is awaited, there is nothing newer to write, or the newest
snapshot is handed to storage. `FlushEnter`, `FlushTimer` and `FlushContinue`
are the ways into it. `storageQueue` is the FIFO the adapter works through, so
answers come in the order of the calls. Failures are always possible.

### SyncMerge

`Winner` is the decision of `mergeEntitiesWithStats`: deletion against live
copy, revisions, or times alone for clients that stamp no revision. Content is
a number whose order is that of the content signatures, so that the
deterministic tie-break is the code's. A missing or malformed value is what
the code reads it as (revision 0, `NoOne`, `Invalid`). Attachment lists,
references between entities and statistics are left out, and so are the repairs
made on a winner: the recorded content conflict, and the series identity that a
recurring task takes from the copy that has one (`sync.ts:287`), which writes a new
revision. The task of the model does not recur.

### SyncConvergence

One task, known to all devices. `Sync` is a whole cycle in one step: the local
copy and the shared copy are replaced by the winner. `Ahead` is how far a
device's clock is in front. `base` is a history variable: the shared copy of
the last sync.

### SyncCycle

The document is one task, so that "document", "row" and "copy" coincide.
`memory` is the store, `disk` the SQLite file, `remote` the shared document
with its version (ETag, or the server's fingerprint). `cycle[d]` is the run:
its `pc` is the await it will come back from, its other fields are
`SharedSyncRunState` and the locals of `performSyncCycleUnlocked`.

| Steps of the model | Code |
|---|---|
| `Edit`, `Delete`, `Flush` | the store actions, and the save queue seen from outside |
| `Start`, `StampLocal`, `ReadLocal` | `runPhases`, `readLocalDataForSyncCycle` |
| `CheckStale`, `CheckSideEffects`, `FastSkip`, `ArmLocalOnlyUpload`, `ReadCheck` | the three checks before the merge phase |
| `MergeReadLocal`, `NothingPending`, `PendingBackoff`, `RetryPending`, `AcquireFence`, `FenceBusy`, `ReadRemote` | the first half of `performSyncCycleUnlocked` |
| `WriteLocal`, `Persist`, `AbortClear` | `writeLocal`, `persistLocalDataWithTracking`, `clearPendingRemoteWriteAfterLocalAbort` |
| `WriteRemote`, `Upload`, `UploadSkipped`, `UploadConflict`, `UploadFails`, `UploadLeaseLost` | `writeRemote`, `writeRemoteForCycle`, with `Put` as the backend's part |
| `RecordFast`, `Refresh`, `RefreshSkipped`, `RefreshAtOnce`, `Apply`, `FinishStale` | the end of `runMergePhase`, `finalizeSuccess`, `fetchData` with a document |
| `ReloadStart`, `Reload` | `finalizeErrorStatus`, `fetchData` from storage |
| `Crash`, `LeaseExpires`, `LeaseLapses`, `BackoffEnds`, `Tick` | the environment |

Abstractions, all of them on data or time: `lastDataChangeAt` is the flag
`stale` of the run; the markers of a pending remote write are two flags
(`pendingRemoteWriteAt` is set; the retry time is still ahead), the attempt
counter only stretches the time `BackoffEnds` takes. A row write of the store
leaves the settings alone and a snapshot writes the store's own markers, so
`Flush` may do either. Asking for the lease and the request that follows are
one step for the remote write, because the code asks for a lease that outlasts
the request; for local writes nothing is made of that. `Fenced = TRUE` is
WebDAV with strong ETags, `Fenced = FALSE` the self-hosted server, which has no
fence, merges every upload and says whether it contributed. Manual runs and
failing fingerprint requests are the freedom to take `ReadCheck` although a fast
path is open. `fetchData` skips the reload while an editor holds the edit lock
(`store-settings.ts:168`); only the desktop's task editor takes that lock
(`lockEditing`, `TaskItem.tsx`), never the mobile app, whose cycle this is.

### RemoteFence and MutationWindows

One record on the provider, replaced by compare-and-swap. `st[c]` is what client
`c` is doing: acquiring, holding, or one serialized operation of a held lease.
Every request is asked, served at one moment by the provider and answered later;
the answer to a timed read carries the provider's time of that moment, and its age
(`ReadAge`) counts against the lease. A write whose answer is lost may still take
effect (`Unanswered`, `Arrives`). `CheckAnswered` is `assertHeld`: what it grants
is a window, and `windows` are the windows granted so far. `MutationWindows` is
what callers rely on: windows of different leases do not overlap.

Assumed: the provider's clock does not go back; two records with the same content
may share a version (a provider with counters tells more apart); the answer of an
untimed read is handled when it is served, since only the conditional write after
it uses it, which may be delayed as well; a mutation takes effect within the
horizon asked for, and a lease is released after its mutations were answered.

### SyncOrchestrator and AutoSync

`SyncOrchestrator` has the operations of one orchestrator on a record (`busy`,
`queued`, `arg`, `timer`); `AutoSync` keeps two, `ctl` for the controller and `svc`
for the sync service, which every caller shares. `version` is the local data,
`covered` what a completed run had read. `Trigger` is `requestAutoSync`; `Begin` is
the start of a cycle, which may find that it is not its time yet; `AfterResult` is
what follows a result. Times are deadlines: the cooldown is running or over, the
last run is recent or not. The interval that `Resumed` waits for
(`foregroundMinIntervalMs`) is no shorter than the controller's own, so that a run may
still count as recent there. `platform` chooses the options the desktop and the
mobile app pass.

| Steps of the model | Code |
|---|---|
| `DataChange`, `DebounceFires`, `CadenceRead`, `InitialFires`, `PeriodicFires`, `FocusOrBlur`, `RequestSync`, `ExternalRequest`, `ThrottleFires` | triggers and timers of the controller |
| `Background`, `Foreground`, `Resumed` | `handleAppStateChange` with `handleSuspend`, `handleResume` and `abortMobileSync` |
| `GatePasses`, `GateRefuses`, `PerformSync`, `CycleSucceeds`, `CycleFails`, `CycleIgnored` | the controller's cycle between its awaits |
| `RunReads`, `RunChecks`, `RunStale`, `RunAborted`, `RunBusy`, `RunFails`, `RunSucceeds`, `FollowUpFires` | a run of the service (`SyncCycle` from outside) |

### DropboxCredentials and SyncConfiguration

A setting is the number of the candidate it came from, and `Mixed` when only half
of it (setting or secret) was written. A native command is the set of its
outcomes: what it answers, what is durable, what native memory holds, and whether
a fault was needed; an outcome that stops early is also what a crash leaves.
`tx.pc` is the step of `commitProvenSyncConfiguration` and its rollback, each of
them one write, one read or one command. A write may fail before it, after it,
half-way, or be lost unnoticed, which is what the code reads back for. `Reload`
forgets the page, `Crash` and `Start` the native memory as well. `proven` is a
history variable: the transports an activation probe has shown to work.

The keyring and its fallback file are one store, and the backend and its marker
one value. A promotion over an unreadable keyring, the refresh of tokens and the
carrying forward of secrets are left out.

### PendingCaptures

Queue files are numbers in the order of their names, each of one kind. The store
is what the queue can change: how many tasks each capture became, which of them
were deleted, and status and start date of the one task that commands are about.
The save queue is `SaveQueue` from outside: a row in flight, a queued snapshot,
the failure banner. `drain` is the pass of `ingestPendingCaptures`: `Take...` is the
stretch up to the first await of an item, then transcription, flush, deletion. What
a pass still has to do are two sets, the listed places and the Watch commands held
back; `Follows` is the order in which it takes them.
`Batches` are the sets of items that one behaviour sees together.

`widget` is the check-off store for one task: a pending tap or the name of the
committed file, and two histories. `wish` is the user's last word, done or not;
`stray` are the completions of which the store has lost track, because `sweep` was
killed between its three writes, because an undo could not delete the file
(`CheckoffStore.undo` ignores the answer of `deleteQueued` and clears the entry), or
because `prune` forgot it. `undone` are the completions that the user took back, by
undo or by un-marking a pending tap, before the app had read them. Committed entries
without a file name, from older builds, are left out. `Refused` is an `addTask` or
`updateTask` that answers with a failure: the item stays in the queue.

### WatchDelivery and ExactlyOnceQueue

`Texts` go by user info, `Commands` by message with user info as fallback,
`Recordings` by file transfer. The Watch keeps `outbox`; the phone keeps, as files,
`receipt` (the journal), `stage`, `queue`, `original` and `waves`. `work` is the one
job of the receiver's serial queue, and each of its steps is one durable file
operation, in the order of the code; a kill between any two of them is
`PhoneKilled`, after which the launch goes over the journal. `container` is the
directory of the app, which an update moves: the queue file of a recording names
its WAV by an absolute path. The drain is `Consume` and `RemoveWave`. The abstract
queue has four places for an item (new, saved, queued, consumed) and the set the
Watch keeps; the refinement mapping is `Place`.

## 3. Runs

| Run | Question | Result |
|---|---|---|
| `save_queue` | do overlapping flushes, row writes, failures, retries and a full queue keep `NoSilentLoss`, `NoSilentStall`, `QueueOrdered`, `FlushReports`, `DiskNeverRegresses`, and does storage always catch up or the user learn of the failure (`EditReachesDisk`)? | holds |
| `sync_convergence_two` | do two devices agree, in whatever order they edit, delete, restore and sync, without losing a live edit to a near-simultaneous deletion? | holds |
| `sync_convergence_edits` | do three devices that only edit agree, with one clock ahead and at the largest revision? | holds |
| `sync_cycle_fenced` | is what a run shows and records what its last local write left on storage, with a lapsed lease anywhere and edits that overtake a run? | holds |
| `sync_cycle_pairs` | does a recorded pair tell the truth about the shared document, and do the devices catch up although runs are skipped, aborted and refused, with a lost request and a crash? | holds |
| `sync_cycle_server` | does the winning edit survive on the merging server and get there, with a lost request or answer? | holds |
| `sync_cycle_lost` | is a saved edit safe when the fence does not answer during an abort? | violated |
| `remote_fence` | does the record cover what `assertHeld` grants (`HorizonCovered`), is no holder reclaimed before the end of what it was granted (`PeerSafe`), and do windows exclude each other (`WindowsExclusive`, the refinement)? | holds |
| `auto_sync` | is every queued follow-up owned, does the cooldown keep automatic runs out, is a failure retried, and on the desktop is every change synced? | holds |
| `sync_configuration` | is the backend in use proven, does an open journal fit it, is a restored configuration exactly the old one, and is a bundle replaced only under a journal? | holds |
| `pending_captures` | does nothing leave the queue too early (`AckSafe`), come twice without a fault, or stay forever, is a recording one task with its WAV, is a check-off kept until it is taken back (`CheckoffKept`), also over a kill inside `sweep`, and is taking it back honoured (`UndoHonoured`)? | holds |
| `watch_delivery` | is every item published exactly once (the refinement), playable, and delivered in the end? | holds |

### What the violation means

**Lost edit** (`sync_cycle_lost`): an edit saved while the merged document is
written is overwritten on storage at the same revision and survives in the store.
The abort saves it again - unless confirming the lease fails, in which case the
error path reloads the store from storage. `PROJECT.json` quotes the test this
contradicts.

### Behaviours worth knowing

The models have the following behaviours. Each was seen in a counterexample while a
property was being stated; the properties of the passing runs are worded, and their
instances chosen, so that they claim what holds beside them.

Store and sync:

* *Replay*: a replayed capture queues its snapshot and flushes; another flush may
  take the snapshot, exhaust its retries and throw to its own caller. The replay's
  flush finds an empty queue and resolves, although `store-tasks.ts:599` asks that
  it "must durably retry". The failure is on display meanwhile, and `FlushReports`
  and `AckSafe` allow it only then.
* *Three devices*: inside the ambiguous window the revision decides, outside it the
  time, and between live copies the revision again. Three copies, one of them a
  tombstone, can beat each other in a circle, and devices that sync in turn then
  replace the shared copy forever (`sync.ts:573`, against
  `docs/adr/0003-revision-aware-sync.md:28`). `Converges` is checked for two devices
  with deletions and for three that only edit.
* *Unread upload*: the fingerprint pair is recorded before the store takes the merged
  copy over (`sync-run.ts:1887`). An edit made on the old copy gets the merged copy's
  revision, replaces it on storage and aborts the run; the next run sees "remote as
  recorded, local changed" and uploads. The copy it overwrites may be the winner; its
  author uploads it again at the next run.
* *Pair on the server*: without an upload the version of the pair is asked for after
  the document was read (`sync-run.ts:1340`). On the self-hosted server a write in
  between is recorded as seen, until a manual sync or a local edit.
* *Deletion by time*: the merge lets a later deletion with a lower revision win, and
  the upsert refuses it by its revision (`sqlite-adapter.ts:201`). The live row stays
  on storage, the tombstone is uploaded and shown.
* *Clock skew*: a deletion or restoration by a device whose clock is behind by
  more than the ambiguous window loses to the copy it was made on
  (`sync.ts:591`), so `LocalWritesMoveForward` needs clocks that agree.
* *Stale store*: after an aborted run storage can have the winner while the
  store does not; every later run ends as unchanged and does not refresh the
  store (`sync-run.ts:1313`). An edit or a restart heals it.
* *Refresh*: an edit made between the last freshness check and the take-over
  is replaced in the store (`sync-run.ts:1893`); storage has it, and it comes
  back with the next run that reconciles.
* *Backoff*: the path without a local write saves the retry time of a failed
  write without the marker that makes the next run look at it (`sync.ts:1503`).

Triggers:

* A success disarms the shared timer with the remark that the cycle "already includes
  the pending local work" (`auto-sync-controller.ts:326`); a trigger absorbed by that
  timer may be newer than what the cycle had read. The heartbeat of the desktop app
  heals it, and `EveryChangeSynced` rests on the heartbeat. Mobile has none, and
  `EveryChangeSynced` is about the desktop only.
* On mobile, a request remembered while the app was suspended is dropped when the
  cycle that was running ends (`:356`), and the request made on resuming still sees the
  old app state; `:115` says "Mobile runs it on the next foreground".
* A failure counted as ignorable (offline) arms no retry on mobile.

Switching backends:

* With three faults in one transaction - the answer to the activating write is lost
  and both attempts to switch off fail - the transaction reports that sync is disabled
  although Dropbox is the committed backend. A request for an access token then settles
  the journal, while native memory keeps the promotion. A second attempt with the same
  authorization is refused, its rollback writes the stale previous bundle, and the
  backend is switched on again with the credentials of the earlier account, while the
  error says that the configuration was restored; `sync-configuration-transaction.ts:470`
  says that "the prior complete snapshot is restored and verified after every failed
  write". `RestoredExactly` holds for two faults.
* Another path of three faults needs two transactions: a promotion fails after it has
  replaced the tokens, its rollback fails, and the next Dropbox transaction fails before
  its own promotion. It found sync off, so that there is nothing to switch on again, and
  ends as restored with the bundle of the first attempt still in use under an open
  journal; the next recovery brings back the bundle that was found.
* The same three faults are what `ActiveIsProven` and `CredentialsJournaled` cannot
  bear: the transaction has given up with sync on, and the next one, told that a
  promotion is under way, rolls the tokens back under a backend that stays in use.
  `SyncConfigurationProofs` shows that this is the only way to lose them.
* By the same faults `SyncConfigurationDisabledError` may be thrown with sync switched
  on, against the comment at `apps/desktop/src/lib/sync-service.ts:2131` ("left sync
  durably off").

Captures:

* A completion or a defer whose save was exhausted counts as already done in the next
  drain, and its file goes although nothing is durable; `pending-captures.ts:439` says
  "At-least-once". The banner is on display meanwhile, and `AckSafe` allows it only then.
* A flush that fails without a kill leaves the text capture in the store and its file in
  the queue: every return to the foreground repeats it. `OneCopyPerFault` bounds the
  copies by the faults.
* A defer that was retained is applied again over a newer one.
* A kill between the file and the preferences in `sweep` leaves a completion the widget
  does not know of: neither un-marking the tap nor a later undo takes it back. The same
  goes for a file that an undo could not delete, although the row is un-struck
  (`CheckoffStore.kt:81`). `UndoHonoured` names these files (`stray`) as its exceptions.
  Taking a check-off back after the app has read its file is too late as well;
  `UndoHonoured` speaks of files not yet read.
* A Pomodoro session that cannot be read counts as none, so that an older Watch command
  replaces a newer session.

Watch:

* A kill between the stage and the prepared receipt of a recording, and then an update
  that moves the container: the stage holds the old absolute path, every redelivery is
  refused as a collision, the recording is never published and the Watch sends it
  forever. `MindwtrWatchConnectivityReceiver.swift:320` says that "a redelivery with the
  same id safely resumes". `Delivered` names this state (`Stranded`) and allows it;
  nothing else keeps an item from being delivered.

### Bounds

* *SaveQueue*: two rows and two flushes are the least for a row write to race a
  snapshot and a flush to wait for another. The queue holds two snapshots and a
  snapshot is tried twice, so overflow, retry and giving up all happen within
  four versions. (No symmetry: the run has a liveness property.)
* *SyncConvergence*: the window is one time unit and time runs to 2, so that two
  operations can be equal, inside and outside the window. Three devices are
  needed for a circle. `sync_convergence_edits` stops revisions at 4, with six
  edits: they saturate.
* *SyncCycle*: two devices; one edit each is enough for every race between a run
  and an edit on the same device and for every race between devices; a second
  edit on one of them (`sync_cycle_fenced`) lets an upload without a read meet a
  write it did not see. One failed request, one crash and one lapsed lease each
  put the fault at every possible place. The versions of the shared document are
  not bounded: they grow only with uploads, which the edits bound. Time stands
  still in runs without deletions: equal times are the case in which revisions
  and device ids decide. Removals and time 1 or 2 are in the runs about
  tombstones.
* *RemoteFence*: two clients and three leases, so that a lease is followed by one of
  the other client and by one of the same. A lease lives for 3 ticks, a heartbeat is 1,
  one missed heartbeat and a margin of 1 make a holder silent, and callers ask for a
  horizon of 2: renewing is needed, and both ways to lose a lease (expiry and silence)
  fall within 4 ticks. One write is given up by its client and may arrive at any later
  time. `Prior` has a record without heartbeat and one from an impossible future.
* *AutoSync*: both platforms; one change and one fault suffice for every race between
  a trigger and a running cycle, because triggers without a change are not bounded.
* *SyncConfiguration*: five kinds of candidates over every prior backend with readable
  and unreadable secrets; three candidates or authorizations; two faults, which is part
  of the claim of `RestoredExactly`, `ActiveIsProven` and `CredentialsJournaled` (see
  above), and one reload or crash at any step.
* *PendingCaptures*: ten items, at least one of every kind, in eight batches that put
  together what can interact: two captures of different kinds, a check-off and a
  command or a text, two check-offs, commands whose names and times disagree. One
  failure and one kill at any step; three taps are a check-off, its undo, and a second
  check-off after it.
* *WatchDelivery*: a command alone, which has three ways to the phone; a text and a
  recording, which compete for the worker. Two kills, so that a recovery is killed as
  well, one failing operation and one move of the container.

`MaxVersion`, `Edits`, `Removals`, `MaxTime`, `MaxFailures`, `MaxFaults`, `MaxCrashes`,
`MaxLapses`, `MaxLate`, `MaxChanges`, `MaxCandidates`, `MaxTaps`, `MaxMoves`, `Batches`,
`Lease` and `Items` are bounds of the checks and appear as guards; the other constants
are constants of the code. Deadlock checking is off for `SaveQueue`, `SyncConvergence`,
`RemoteFence` and `AutoSync`, where the user may stop, the app be disposed of and the
bounds run out; in the other modules something can always go on, and deadlock is
checked. Symmetry is used in `remote_fence` only, over the clients and the leases that
no prior record names; its properties are safety properties.

### Fairness

* `SaveQueue`: timers fire, storage answers and continuations run
  (`WF` on each); users are not obliged to edit, and storage may fail every time.
* `SyncConvergence`: every device goes on syncing; the auto-sync timers of the
  apps rearm as long as the app runs.
* `SyncCycle`: the same, `WF` on the run of each device (awaits return, and the
  timers and `requestFollowUp` start the next run), on flushing saves, on the end
  of a backoff time and on the expiry of an abandoned lease (which is by server
  time). Nothing is assumed of failures, crashes, lapses or the user. Weak
  fairness suffices: runs do not depend on winning the fence infinitely often,
  because a refused run ends and the next one asks again.
* `AutoSync`: armed timers fire, deadlines pass, cycles and runs get answers (`WF`
  on each). The user owes nothing; `EveryChangeSynced` supposes, in its statement,
  that the app goes on running and no editor stays open for good (its heartbeat
  pauses meanwhile).
* `PendingCaptures`: the user comes back to the app (`AskDrain`), the drain goes on,
  storage answers.
* `WatchDelivery`: the Watch app comes to the front again and again, the worker goes
  on, answers arrive. `SF` on the receipt of user info and of files: the system
  delivers these transfers in turn, also when the phone is busy again and again.
  Messages get no such promise: they are interactive and may fail.
* `RemoteFence` and `SyncConfiguration` state safety only.

### Properties and what breaks them

Every property of a passing run has a mutant: a definition with a plausible
mistake (the upsert without its guard, a tie that favours the local copy, a
write that does not move the change stamp, a fast check that compares only one
side, a retry that is swallowed, an old answer taken for a fresh one, a flush that
is not awaited, a rename done again...) under which TLC finds the property
violated. The mutants stand in the modules next to what they mutate. The `TypeOK` of
`RemoteFence`, `AutoSync`, `SyncConfiguration`, `PendingCaptures` and `WatchDelivery`
declares the values of the variables for the reader; no run lists it, and a theorem of each module
proves it.

## 4. Proofs

TLAPS proves the following for every value of the constants, under the `ASSUME` of
each module and nothing else: limits and bounds are natural numbers, the queue and the
attempts are not limited to 0, device ids are neither "nobody" nor the marker of a
backup restore, the kinds of Watch items are disjoint, every capture has a kind, a
lease outlives what callers ask of it (`FenceAssumption`), and what other clients left
on the provider are records (`PriorAssumption`). TLC evaluates these assumptions on
every run. Where a theorem has a condition on the behaviour (no lease lapses, nothing is
deleted, nobody gives up, no torn journal is undone over), it is in the statement as
`[]Condition`, and TLC has behaviours with and without it (for the configuration without
it only once `MaxFaults` is 3, one more than in its run).

Every inductive invariant was checked by TLC on the instances of the runs before it was
proved. In each module there is one lemma per action or group of actions, and a frame
lemma for what an actor cannot disturb of the others.

**SaveQueueProofs**: `TypeCorrect`, `SilentLossNever`, `QueueIsOrdered` and
`DiskMonotone` for any set of rows, any number of overlapping flushes, any cap
and any number of attempts. `NoSilentLoss` is not inductive: it says nothing
about states with work under way. `IInv` adds

* `Covered`: an unsaved revision is in the newest snapshot that waits, in flight
  or in a row write, or the failure is shown;
* `Monotone`: a snapshot of a later version has no earlier revision, and none is
  ahead of memory;
* `Sorted`, `Drawn`, `RetryAtFront`: versions grow along the queue, were drawn,
  are newer than what was saved, and only the front of the queue is a retry;
* `Anchored`: no snapshot lacks a row that storage has or is about to have.
  Writing a snapshot removes the rows it lacks, so without this a snapshot
  could delete a row that a row write has just put there.

`StallsAreVisible` and `ResolvedMeansSaved` are about the calls. `FInv`, inductive once
`IInv` holds, says that a write under way has an owner who will continue it or report it
(`Owned`), that a snapshot that waits has the timer, a flush or the banner
(`NoSilentStall`), and keeps for every flush what its caller had edited (`Goals`): once
it has resolved, that is on storage, or the failure is on display and every write that
could take the display down carries it (`Reported`). The last clause is the one that
makes it inductive: a later, successful save clears the banner of an earlier failure, and
it is right to do so only because its snapshot includes what was lost.

`Cap` and the queue are reasoned about as sets of snapshots rather than by index.

**SyncMergeProofs**: `WinnerSymmetric` (the winner of two copies does not
depend on which side merges, for all entities, clocks and limits, with or
without revisions), `TypeCorrect`, `DevicesMergeAlike` (from it, in every
reachable state) and `LocalWritesWin`: if all clocks agree and no revision has
reached its maximum, the merge keeps a device's own writes when nobody else has
written since its last sync. This is what the unread upload calls its hard
dependency. Its invariant `ForwardInv` says that a device's copy is the shared
copy of its last sync, or has more revisions and no earlier operation time, and
that no time lies ahead. Both assumptions are needed: see the
clock skew above for the first; at the maximum a write no longer gets a higher
revision.

`sync_convergence_two` checks `LocalWritesMoveForward` in the case the theorem
covers.

`LiveEditsSurvive`: `ClocksWithinSkew` gives `LiveEditSurvives`, for any devices, windows,
thresholds and limits. Two live copies, or two tombstones, are decided elsewhere; of a live
copy and another device's tombstone the merge takes the tombstone only with a higher revision
or when it was deleted more than `DeleteVsLiveWindow` later (`TombstoneWins`). That is a
statement about the two copies as the merge sees them: times from the future are clamped to
the device's own clock first. `CredibleInv` says that there are none, neither in the shared
document nor on a device. The assumption is needed: with four devices, one of them
four units ahead of two others, a threshold of 2 and no window, TLC finds an edit that a lagging
device counts as made now, that a second edit of the same revision then replaces by device id,
and a tombstone of an earlier time that replaces the second. In the code the threshold is five
minutes and the window 30 seconds (`sync-types.ts:83`, `87`), so it takes a clock that is off
by more than five minutes.

**SyncCycleProofs**: `CycleTypeCorrect`, for any number of devices and either backend;
besides `TypeOK` it needs to know where a read of the local data returns to.

`PairsAreSound`: `Fenced` and `[]NoLapse` give `[]FastPairSound`. With a lapsed lease it
is false: another device may write between a run's last request and the version it asks
for. `PInv` follows a lease. A run writes only under its lease and the record names it
(`Guarded`), so from the read of the shared document to the record of the pair nobody else
writes; what was read is therefore still there before the upload (`Compared`), what was
merged is there after it (`Placed`), and nothing counts as written before (`Unwritten`).
The crash of a run leaves its lease in the record, which is why an abandoned lease
needs no condition: its owner is not writing.

`MergedIsStored`: `[]NoDeletion` gives `MergedIsPersisted` on both backends and with
lapses, failures and crashes. Storage replaces a row unless the stored one has the higher
revision, so a run must never merge to less than what storage has. `MInv` says that all
copies are live and that a fresh run's snapshot, and then its merged document, has at
least the revision of store and storage (`Ahead`): of two live copies the winner has the
highest revision, and an edit makes the run stale before it is saved. With deletions the
winner may have the lower revision, which is the "deletion by time" above.

`EditsAreKept`: `~Fenced`, `[]NoDeletion` and `[]NoCrash` give `[]NoLostEdit`, for any
devices, edits, times and failed requests, also once revisions have reached their maximum.
On a fenced backend it is false (`sync_cycle_lost`), and a killed app may lose an edit that
a run overwrote (section 6). Copies that only edits have made are in a total order
by revision, time and device (`Below`), and `Winner` takes the later one (`WinnerIsTop`), so
the shared document only grows. The order alone is not enough: storage compares revisions
only, and an edit of an older copy may get the revision that storage has already. `LInv` says
in addition that

* a copy a device did not make itself is in the shared document (`Imported`). Of the
  unshared ones, all its own, an edit that is unsaved or that a run has not seen is the
  newest by time (`Newest`), so that its save replaces no unshared copy it does not cover;
* what a run is about to replace on storage is shared, in the store or in what the run has
  read (`Kept`), although an edit may have been saved after the read;
* what it is about to replace in the store is in the merged document while the run is fresh,
  and on storage once it is stale or has failed (`Covered`), which is why the refresh with an
  edit behind its last check (section 3) loses nothing;
* a run reloads the store only after a local write and is aborted only by an edit (`Ordered`).

Every action is then a step of one device that carries its two copies on (`KeepsStep`).

**RemoteFenceProofs**: `FenceTypeCorrect`, `FenceCoversHorizons` (`HorizonCovered`),
`FencePeerSafe` and `FenceImplementsWindows` (`Spec => Windows!Spec`), for any clients,
leases, cadence, prior records and any number of requests that arrive late. What has to be
known in addition:

* `Stored`, `Unique`: what is on the provider is a prior record or one that a client of
  the protocol wrote no later than now, and a lease belongs to one client;
* `LeaseOK`, `CadenceOK`, `SnapOK`: a client's own idea of its lease is never ahead of
  the record's, its records advertise no longer a cadence than it keeps, and what it read
  is at most as old as it says;
* `ReqOK`, `LateOK`: a request on its way, or given up and still able to arrive, is a claim
  that expects nothing, a record whose authority is over for good, or a renewal of the
  record it expects. So a delayed write finds a version that is gone, or does no harm;
* `WindowsOK`: a window that was granted ends before the authority of the lease.

**AutoSyncProofs**: `AutoSyncTypeCorrect`, `FollowUpsAreOwned` and `CooldownIsRespected`
for any number of changes and faults on both platforms. `Paired` ties the controller's
orchestrator to its cycle and `Served` the service's to its run (a follow-up waits for the
run or for the timer, never for both); a cycle past the cooldown's check was not started
in one, also when it was queued before the failure (`Cooled`).

**SyncConfigurationProofs**: first what each native command may answer, then what each step
of the transaction does with its records. `JInv` needs no condition on faults and gives
`ConfigurationTypeCorrect` and `JournalIsDecided` (`JournalMatchesBackend`): an open journal
is that of the candidate in use, or sync is off. `GaveUp` is the state of a transaction that
ends with promoted credentials and sync on; `GivingUpTakesThree` shows that it takes three
faults. `AInv`, inductive relative to `JInv` as long as nobody has given up, gives
`ActiveUnlessGivenUp` and `JournaledUnlessGivenUp` for any number of faults, and with the
former `ActiveWithinTwoFaults` and `JournaledWithinTwoFaults`, which is what the run checks.

`RestoredExactly` needs more, because a journal can be left torn, open with the new bundle in
use (`Torn`). What a transaction finds is read after a recovery; `SettledOK` says that the
bundle a recovery would bring back stays the one it found, and `OutcomeOK` that only a bundle
known to be restored is switched on again. The exception is `TornUndone`, the second path of
section 3: a transaction that ends as restored before it has promoted anything, over the torn
journal of an earlier one. `RestoredUnlessTorn` proves the property for any number of faults
while nobody gives up and no torn journal is undone over. `CountInv` counts the faults behind
a torn journal (one breaks its promotion, one the rollback, one the next transaction), which
gives `TornTakesThree`, and so `RestoredWithinTwoFaults`. Both exceptions are needed: TLC
reaches `TornUndone` with three faults, and `SettledOK` fails with four once a transaction has
given up. The conjuncts held in TLC with three faults, and with four where nobody gives up,
before they were proved.

**PendingCapturesProofs**: `CapturesTypeCorrect`, `RecordingBecomesOneTask` (`AudioOnce`),
`QueuedRecordingKept` (`WavKept`), `UndoIsHonoured` (`UndoHonoured`), `CheckoffsAreKept`
(`CheckoffKept`) and `NothingLostInSilence` (`AckSafe`), for any items, batches, failures
and kills. The
invariant says what the drain still holds of the files it has listed (`DrainOK`; only a
check-off can be gone meanwhile), that a task marked done was wanted by a completion that
was read (`DoneOK`), that the widget knows of every queued completion or has lost track of
it, so that one taken back is gone or stray (`NativeOK`), and how store, row write, snapshot and storage
follow each other, so that a file goes only when its effect is on storage or the banner is
up.

`RepeatsHaveTheirFault` (`OneCopyPerFault`) is about repetitions, each a capture with the
ordinal of a task beyond its first. It is not inductive: a capture whose flush has failed is
still in the queue, and the fault is there before the second task is. `CopyInv` therefore
counts what is owed, the tasks there will be of a capture once its file is drained (`Owed`;
an item the drain has at hand is made already). Making a task moves it from owed to made, a
deletion takes the file and leaves the debt as it is, and only a failed call or a kill, which
drops the item at hand with its file still queued, adds one pair (`OneElementMore`). What
the drain holds is still queued (`QueuedOK`), and storage has no more of a capture than the
store (`MadeOK`), so that a reload after a kill adds none either.

**WatchDeliveryProofs**: `TypeCorrect`, `QueuedAudioPlayable` and
`DeliveryImplementsExactlyOnce`, for any sets of items and any number of kills,
failures and updates. The last says `Spec => Exactly!Spec`: the initial state maps
to the initial state of `ExactlyOnceQueue` and every step to one of its steps or to
a stutter. What has to be known for that is in `IInv`, beyond the types:

* `Traced`: whatever is on its way, in the journal or at hand was made on the Watch;
* `WorkOK`: what the worker has established at each of its steps (at "prepare" there
  is a stage, at "drop" the receipt is prepared and the stage gone...);
* `FilesOK`: journal and files agree. A stage and a queue file never coexist, a queued
  item is published in the sense of `IsPublished`, a staged or queued recording has its
  WAV, and only what has left the queue loses it. This is what makes the missing
  stage of a prepared receipt a durable mark of publication;
* `ToldOK`: an acknowledgement or a positive reply, however late, is about a published
  item, and the Watch has forgotten only such items.

There is one lemma per action, each with a step per conjunct. In the refinement
almost every step stutters; `Publish` maps to the abstract `Publish` or to a stutter,
depending on the stage, `Consume` to `Consume`, `Save` to `Save`, and `Acknowledged`
and `Reply` to `Forget`.

**Only model-checked**: liveness (`EditReachesDisk`, `Converges`, `EditsReachRemote`,
`DevicesCatchUp`, `FailureIsRetried`, `EveryChangeSynced`, `Drained`, `Delivered`), because
the prover has neither fairness nor `ENABLED`. `NoLostEdit` with deletions is model-checked
as well: the winner of a deletion and an edit is not in an order. The modules use no `RECURSIVE`
operator.

## 5. Plan

What is left, in this order.

1. The self-hosted cycle as an implementation of `SyncConvergence` for edits.
2. `DataTransfer`: the document lane and its tickets, with restore and sync as
   clients; mutual exclusion as the abstract specification.
3. `StoreReload`: `fetchData` against the save queue after a terminal save
   failure, when memory is ahead of storage for good; what the store shows after
   aborted and refreshed sync runs (the stale store and the refresh above).
4. Tombstones: purge and compaction against a device that was away.
5. Attachments: transfer and cleanup against merges that change references.

## 6. Not modelled

Encryption, formats, importers, recurrence, the user interface, HTTP routing and
limits: their difficulty is not in states and orders. By far the most lines of the
repository are of this kind (locales, views, parsers, generated notices, native
storage commands, Markdown), and a state model of them would say nothing.

Of the fence: the encoding of the record and the probe of a provider's capabilities.
Of the controller: the lengths of intervals, adaptive pacing and the growth of the
cooldown. Of the configuration: the mobile port of the transaction, OAuth, the
refresh of tokens and the promotion over an unreadable keyring. Of the captures: how
a text becomes a task, and the iOS Shortcut, which writes the same files. Of the
Watch: the application context and the validation of payloads. Of the sync cycle: the
attachment phases and external calendars (more documents moved at the same
points), the activation probe (writes nothing), the carried idle snapshot (an
optimisation of the local read that is validated against the recorded pair),
the lifecycle abort (ends a run like a failure, without the reload), the file
backend and its lock, CloudKit, the legacy WebDAV mode without ETags, failing
storage writes during sync, a fence that cannot be released (its lease expires
like a crashed one's) and the desktop's hooks, which refresh the store at every
local write. An edit that a run overwrote on storage at the same revision and
whose app is then killed is lost; no property claims otherwise, since
`NoLostEdit` is checked and proved without crashes. `EditsReachRemote` is checked on the
merging server only: on the fenced backend it fails when a request fails, for
the reason `sync_cycle_lost` shows.
