----------------------------- MODULE SyncCycle -----------------------------
(***************************************************************************)
(* The sync cycle of the mobile app between its awaits: the shared run     *)
(* machine (packages/core/src/sync-run.ts) around performSyncCycleUnlocked *)
(* (sync.ts), with the user editing, storage failing, the app being killed *)
(* and other devices writing at every await.  The document is one task.    *)
(*                                                                         *)
(* Each device has the task in memory (the store) and on disk (SQLite),    *)
(* with the markers of an unfinished remote write that live in the         *)
(* settings.  The shared document is on a backend with conditional writes  *)
(* and a mutation fence (WebDAV, Fenced = TRUE) or on the self-hosted      *)
(* server, which merges every upload (Fenced = FALSE).                     *)
(***************************************************************************)
EXTENDS SyncMerge

CONSTANTS
    Device,      \* the devices; their order is the order of the device ids
    Fenced,      \* conditional writes under a fence, or a merging server
    Edits,       \* bound: the edits each device makes
    Removals,    \* bound: the deletions each device makes
    MaxTime,     \* bound: the time stops here
    MaxFailures, \* bound: requests to the backend that fail
    MaxCrashes,  \* bound: times an app is killed
    MaxLapses    \* bound: leases lost by a device that is still syncing

ASSUME CycleAssumption ==
    /\ Device \subseteq Nat \ {NoOne, BackupRestore}
    /\ Fenced \in BOOLEAN
    /\ Edits \in [Device -> Nat]
    /\ Removals \in [Device -> Nat]
    /\ {MaxTime, MaxFailures, MaxCrashes, MaxLapses} \subseteq Nat

VARIABLES
    clock,   \* the time
    memory,  \* what the store of each device holds
    disk,    \* what its storage holds
    dirty,   \* has the store unsaved changes?
    fast,    \* the recorded pair of document and remote version (FastSyncState)
    cycle,   \* the run of the sync machine on each device
    remote,  \* the shared document and its version
    holder,  \* whose lease the fence record holds
    best,    \* history: the winner of all copies that were saved by an edit
    budget   \* what is left of the bounds

data == <<memory, disk, dirty, fast>>
rest == <<clock, remote, best, budget>>
vars == <<data, cycle, holder, rest>>

Created == [rev |-> 1, revBy |-> NoOne, updated |-> 0,
            deleted |-> FALSE, deletedAt |-> Invalid, content |-> 0]

(***************************************************************************)
(* pendingRemoteWriteAt, and whether pendingRemoteWriteRetryAt is still in *)
(* the future.                                                             *)
(***************************************************************************)
Pending == [at : BOOLEAN, retry : BOOLEAN]
NoPending == [at |-> FALSE, retry |-> FALSE]
Document == [item : Entity, pending : Pending]
FastPair == [local : SUBSET Entity, remote : Nat]

\* Where a run stands: the next await it comes back from.
Step == {"idle", "setup", "readLocal", "check", "merge", "pending", "retryRead",
         "readRemote", "writeLocal", "persist", "writeRemote", "upload",
         "abortClear", "finish", "refresh", "apply", "error", "reload"}

\* SyncRunState and the locals of performSyncCycleUnlocked.
Cycle == [pc : Step,
          next : Step,                \* where the read of the local data returns to
          stale : BOOLEAN,            \* lastDataChangeAt moved past the snapshot
          snapshot : Entity,          \* localDataCache
          pending : Pending,          \*   and its markers
          matchesDisk : BOOLEAN,      \* localSnapshotMatchesDisk
          marked : BOOLEAN,           \* pendingRemoteWriteMeta
          armed : BOOLEAN,            \* localOnlyUploadFingerprint
          held : SUBSET Entity,       \* readCheckRemoteData
          lease : BOOLEAN,            \* remoteMutationFence
          seen : Nat,                 \* the version a write is conditional on
          compare : SUBSET Entity,    \* remoteDataForCompare
          merged : Entity,            \* finalData
          direct : BOOLEAN,           \* the local write is skipped
          write : {"pending", "retry", "clear"},  \* which writeLocal comes next
          wroteLocal : BOOLEAN,
          wrote : Nat,                \* lastRemoteWriteFingerprint
          serverMerged : BOOLEAN]     \* lastRemoteWriteMergedServerData

Idle == [pc |-> "idle", next |-> "check", stale |-> FALSE, snapshot |-> Created,
         pending |-> NoPending, matchesDisk |-> FALSE, marked |-> FALSE,
         armed |-> FALSE, held |-> {}, lease |-> FALSE, seen |-> 0,
         compare |-> {}, merged |-> Created, direct |-> FALSE,
         write |-> "pending", wroteLocal |-> FALSE, wrote |-> 0,
         serverMerged |-> FALSE]

TypeOK ==
    /\ clock \in 0..MaxTime
    /\ memory \in [Device -> Document]
    /\ disk \in [Device -> Document]
    /\ dirty \in [Device -> BOOLEAN]
    /\ fast \in [Device -> FastPair]
    /\ cycle \in [Device -> Cycle]
    /\ \A d \in Device : cycle[d].pc = "idle" => cycle[d] = Idle
    /\ remote \in [item : Entity, version : Nat]
    /\ holder \in Device \union {NoOne}
    /\ best \in Entity
    /\ budget \in [edits : [Device -> Nat], removals : [Device -> Nat],
                   failures : Nat, crashes : Nat, lapses : Nat]

\* A task that every device has synced before, with no record of it.
Init ==
    /\ clock = 0
    /\ memory = [d \in Device |-> [item |-> Created, pending |-> NoPending]]
    /\ disk = memory
    /\ dirty = [d \in Device |-> FALSE]
    /\ fast = [d \in Device |-> [local |-> {}, remote |-> 0]]
    /\ cycle = [d \in Device |-> Idle]
    /\ remote = [item |-> Created, version |-> 1]
    /\ holder = NoOne
    /\ best = Created
    /\ budget = [edits |-> Edits, removals |-> Removals, failures |-> MaxFailures,
                 crashes |-> MaxCrashes, lapses |-> MaxLapses]

-----------------------------------------------------------------------------
(***************************************************************************)
(* The store and its storage.                                              *)
(***************************************************************************)
Stamp(e, d) == [e EXCEPT !.rev = NextRevision(@), !.revBy = d, !.updated = clock]

\* Mutant of Change: the write does not move lastDataChangeAt.
ChangeUnnoticed(d, item) ==
    /\ memory' = [memory EXCEPT ![d].item = Stamp(item, d)]
    /\ dirty' = [dirty EXCEPT ![d] = TRUE]
    /\ UNCHANGED <<clock, disk, fast, cycle, remote, holder, best>>

\* The store changes the task; a running cycle's snapshot is stale from now on.
Change(d, item) ==
    /\ memory' = [memory EXCEPT ![d].item = Stamp(item, d)]
    /\ dirty' = [dirty EXCEPT ![d] = TRUE]
    /\ cycle' = [cycle EXCEPT ![d].stale = cycle[d].pc # "idle"]
    /\ UNCHANGED <<clock, disk, fast, remote, holder, best>>

Edit(d) ==
    /\ budget.edits[d] > 0
    /\ ~memory[d].item.deleted
    /\ Change(d, [memory[d].item EXCEPT !.content = d])
    /\ budget' = [budget EXCEPT !.edits[d] = @ - 1]

Delete(d) ==
    /\ budget.removals[d] > 0
    /\ ~memory[d].item.deleted
    /\ Change(d, [memory[d].item EXCEPT !.deleted = TRUE, !.deletedAt = clock])
    /\ budget' = [budget EXCEPT !.removals[d] = @ - 1]

\* Mutant of Upsert: a row of the same revision is not replaced.
UpsertHigher(old, new) == IF old.rev >= new.rev THEN old ELSE new

\* A row is replaced unless the stored one has the higher revision.
Upsert(old, new) == IF old.rev > new.rev THEN old ELSE new

Store(d, item, pending) ==
    disk' = [disk EXCEPT ![d] = [item |-> Upsert(@.item, item), pending |-> pending]]

\* Unsaved changes are written: the row alone, or a snapshot with the settings.
Flush(d) ==
    /\ dirty[d]
    /\ \E pending \in {disk[d].pending, memory[d].pending} :
          Store(d, memory[d].item, pending)
    /\ dirty' = [dirty EXCEPT ![d] = FALSE]
    /\ best' = Winner(best, memory[d].item, clock)
    /\ UNCHANGED <<clock, memory, fast, cycle, remote, holder, budget>>

-----------------------------------------------------------------------------
(***************************************************************************)
(* The run machine.  A run that ends releases the fence it holds.          *)
(***************************************************************************)
At(d, pc) == cycle[d].pc = pc
Goto(d, c) == cycle' = [cycle EXCEPT ![d] = c]
Jump(d, pc) == cycle' = [cycle EXCEPT ![d].pc = pc]
HoldsLease(d) == Fenced => cycle[d].lease /\ holder = d
SideEffects(d) == cycle[d].pending.at

\* Mutant of End: the next run starts with what this one left.
EndKeepingState(d) ==
    /\ Jump(d, "idle")
    /\ holder' = IF cycle[d].lease /\ holder = d THEN NoOne ELSE holder

End(d) ==
    /\ cycle' = [cycle EXCEPT ![d] = Idle]
    /\ holder' = IF cycle[d].lease /\ holder = d THEN NoOne ELSE holder

\* A run that fails, other than by a stale snapshot, reloads the store from
\* storage if it had written there.
Fail(d) ==
    IF cycle[d].wroteLocal
    THEN Jump(d, "error") /\ UNCHANGED holder
    ELSE End(d)

Start(d) ==
    /\ At(d, "idle")
    /\ ~dirty[d]
    /\ Goto(d, [Idle EXCEPT !.pc = "setup"])
    /\ UNCHANGED <<data, holder, rest>>

(***************************************************************************)
(* readLocalDataForSyncCycle: the store is copied and the change stamp     *)
(* taken first, then storage is read and the two are reconciled.           *)
(***************************************************************************)
StampLocal(d) ==
    /\ At(d, "setup")
    /\ Goto(d, [cycle[d] EXCEPT !.pc = "readLocal", !.stale = FALSE,
                                !.snapshot = memory[d].item])
    /\ UNCHANGED <<data, holder, rest>>

ReadLocal(d) ==
    LET c == cycle[d]
        aligned == disk[d].item = c.snapshot
    IN  /\ At(d, "readLocal")
        /\ Goto(d, [c EXCEPT !.pc = c.next,
                             !.snapshot = IF aligned THEN @ ELSE Winner(disk[d].item, @, clock),
                             !.matchesDisk = aligned,
                             !.pending = IF c.marked THEN NoPending ELSE disk[d].pending])
        /\ UNCHANGED <<data, holder, rest>>

(***************************************************************************)
(* The checks before the merge phase.  Each asks the backend something and *)
(* then makes sure that no edit landed meanwhile; a manual sync, or a      *)
(* failing fingerprint request, skips the first two.                       *)
(***************************************************************************)
CheckStale(d) ==
    /\ At(d, "check")
    /\ cycle[d].stale
    /\ End(d)
    /\ UNCHANGED <<data, rest>>

\* A pending remote write or pending attachment work needs the whole cycle.
CheckSideEffects(d) ==
    /\ At(d, "check")
    /\ SideEffects(d)
    /\ ~cycle[d].stale
    /\ Jump(d, "merge")
    /\ UNCHANGED <<data, holder, rest>>

\* Mutant of FastSkip: only the local document is compared.
FastSkipLocalOnly(d) ==
    /\ At(d, "check")
    /\ ~SideEffects(d)
    /\ ~cycle[d].stale
    /\ fast[d].local = {cycle[d].snapshot}
    /\ End(d)
    /\ UNCHANGED <<data, rest>>

\* Nothing changed here since the recorded pair, and the remote version is the
\* recorded one: the run ends as unchanged.
FastSkip(d) ==
    /\ At(d, "check")
    /\ ~SideEffects(d)
    /\ ~cycle[d].stale
    /\ fast[d].local = {cycle[d].snapshot}
    /\ fast[d].remote = remote.version
    /\ End(d)
    /\ UNCHANGED <<data, rest>>

\* Only this device changed: upload under the version just seen, unread.
ArmLocalOnlyUpload(d) ==
    /\ At(d, "check")
    /\ Fenced
    /\ ~SideEffects(d)
    /\ ~cycle[d].stale
    /\ fast[d].local \notin {{}, {cycle[d].snapshot}}
    /\ fast[d].remote = remote.version
    /\ Goto(d, [cycle[d] EXCEPT !.pc = "merge", !.armed = TRUE, !.seen = remote.version])
    /\ UNCHANGED <<data, holder, rest>>

\* The document is read: equal to the snapshot, the run ends as unchanged;
\* different, it is kept for the merge.
ReadCheck(d) ==
    /\ At(d, "check")
    /\ ~SideEffects(d)
    /\ ~cycle[d].stale
    /\ IF remote.item = cycle[d].snapshot
       THEN End(d)
       ELSE /\ Goto(d, [cycle[d] EXCEPT !.pc = "merge", !.held = {remote.item}])
            /\ UNCHANGED holder
    /\ UNCHANGED <<data, rest>>

(***************************************************************************)
(* The merge phase.  The local data is read again if it changed.           *)
(***************************************************************************)
MergeReadLocal(d) ==
    LET target == IF At(d, "merge") THEN "pending" ELSE "readRemote"
    IN  /\ At(d, "merge") \/ At(d, "retryRead")
        /\ IF cycle[d].stale
           THEN Goto(d, [cycle[d] EXCEPT !.pc = "setup", !.next = target])
           ELSE Jump(d, target)
        /\ UNCHANGED <<data, holder, rest>>

NothingPending(d) ==
    /\ At(d, "pending")
    /\ ~cycle[d].pending.at
    /\ Jump(d, "readRemote")
    /\ UNCHANGED <<data, holder, rest>>

PendingBackoff(d) ==
    /\ At(d, "pending")
    /\ cycle[d].pending.at
    /\ cycle[d].pending.retry
    /\ End(d)
    /\ UNCHANGED <<data, rest>>

\* The write of an earlier run is taken up: unsaved changes are flushed first.
RetryPending(d) ==
    /\ At(d, "pending")
    /\ cycle[d].pending.at
    /\ ~cycle[d].pending.retry
    /\ ~dirty[d]
    /\ Goto(d, [cycle[d] EXCEPT !.pc = "retryRead", !.marked = TRUE, !.pending = NoPending])
    /\ UNCHANGED <<data, holder, rest>>

\* What was read before the fence was held is read again under it.
AcquireFence(d) ==
    /\ At(d, "readRemote")
    /\ Fenced
    /\ ~cycle[d].lease
    /\ holder = NoOne
    /\ holder' = d
    /\ Goto(d, [cycle[d] EXCEPT !.lease = TRUE, !.held = {}])
    /\ UNCHANGED <<data, rest>>

FenceBusy(d) ==
    /\ At(d, "readRemote")
    /\ Fenced
    /\ ~cycle[d].lease
    /\ holder # NoOne
    /\ End(d)
    /\ UNCHANGED <<data, rest>>

\* An armed run does not merge.
Merged(c, read) ==
    IF c.armed THEN c.snapshot
    ELSE Winner(c.snapshot, CHOOSE e \in read : TRUE, clock)

ReadRemote(d) ==
    LET c == cycle[d]
        read == IF c.held # {} THEN c.held ELSE {remote.item}
        merged == Merged(c, read)
        direct == ~c.marked /\ c.matchesDisk /\ merged = c.snapshot
    IN  /\ At(d, "readRemote")
        /\ Fenced => c.lease
        /\ Goto(d, [c EXCEPT !.pc = IF direct THEN "writeRemote" ELSE "writeLocal",
                             !.held = {},
                             !.compare = IF c.armed THEN {} ELSE read,
                             !.seen = IF c.armed THEN @ ELSE remote.version,
                             !.merged = merged,
                             !.direct = direct])
        /\ UNCHANGED <<data, holder, rest>>

ReadFails(d) ==
    /\ At(d, "readRemote")
    /\ Fenced => cycle[d].lease
    /\ budget.failures > 0
    /\ budget' = [budget EXCEPT !.failures = @ - 1]
    /\ Fail(d)
    /\ UNCHANGED <<clock, memory, disk, dirty, fast, remote, best>>

(***************************************************************************)
(* writeLocal: the snapshot must be fresh before the storage write and     *)
(* after it.  It runs up to three times: with the pending marker, with the *)
(* retry time after a failed remote write, and with the markers cleared.   *)
(***************************************************************************)
LocalAbort(d) ==
    IF cycle[d].write = "clear"
    THEN Jump(d, "abortClear") /\ UNCHANGED holder
    ELSE End(d)

WriteLocal(d) ==
    /\ At(d, "writeLocal")
    /\ IF cycle[d].stale THEN LocalAbort(d) ELSE Jump(d, "persist") /\ UNCHANGED holder
    /\ UNCHANGED <<data, rest>>

Markers(c) ==
    CASE c.write = "pending" -> [at |-> TRUE, retry |-> FALSE]
      [] c.write = "retry" -> [at |-> ~c.direct, retry |-> TRUE]
      [] c.write = "clear" -> NoPending

AfterPersist(write) ==
    CASE write = "pending" -> "writeRemote"
      [] write = "retry" -> "error"
      [] write = "clear" -> "finish"

Persist(d) ==
    /\ At(d, "persist")
    /\ HoldsLease(d)
    /\ Store(d, cycle[d].merged, Markers(cycle[d]))
    /\ IF cycle[d].stale
       THEN LocalAbort(d)
       ELSE /\ Goto(d, [cycle[d] EXCEPT !.pc = AfterPersist(cycle[d].write),
                                        !.matchesDisk = FALSE, !.wroteLocal = TRUE])
            /\ UNCHANGED holder
    /\ UNCHANGED <<clock, memory, dirty, fast, remote, best, budget>>

\* clearPendingRemoteWriteAfterLocalAbort: the store's own copy is saved without
\* markers, unless the store knows of an earlier pending write.
AbortClear(d) ==
    /\ At(d, "abortClear")
    /\ HoldsLease(d)
    /\ IF memory[d].pending.at /\ ~cycle[d].marked
       THEN UNCHANGED disk
       ELSE Store(d, memory[d].item, NoPending)
    /\ End(d)
    /\ UNCHANGED <<clock, memory, dirty, fast, remote, best, budget>>

\* Every use of the fence asks the backend whether the lease is still there;
\* it may be gone, or the request may fail.
LeaseLost(d) ==
    /\ \E pc \in {"persist", "abortClear", "apply"} : At(d, pc)
    /\ ~HoldsLease(d)
    /\ Fail(d)
    /\ UNCHANGED <<data, rest>>

LeaseUnconfirmed(d) ==
    /\ \E pc \in {"persist", "abortClear", "apply"} : At(d, pc)
    /\ Fenced
    /\ HoldsLease(d)
    /\ budget.failures > 0
    /\ budget' = [budget EXCEPT !.failures = @ - 1]
    /\ Fail(d)
    /\ UNCHANGED <<clock, memory, disk, dirty, fast, remote, best>>

(***************************************************************************)
(* writeRemote.                                                            *)
(***************************************************************************)
RemoteAbort(d) ==
    IF cycle[d].direct THEN End(d) ELSE Jump(d, "abortClear") /\ UNCHANGED holder

WriteRemote(d) ==
    /\ At(d, "writeRemote")
    /\ IF cycle[d].stale THEN RemoteAbort(d) ELSE Jump(d, "upload") /\ UNCHANGED holder
    /\ UNCHANGED <<data, rest>>

\* After the remote write: markers are cleared if there are any.
Uploaded(c) ==
    IF c.direct THEN [c EXCEPT !.pc = "finish"]
    ELSE [c EXCEPT !.pc = "writeLocal", !.write = "clear"]

\* The remote has the merged document already.
UploadSkipped(d) ==
    /\ At(d, "upload")
    /\ HoldsLease(d)
    /\ cycle[d].compare = {cycle[d].merged}
    /\ Goto(d, Uploaded(cycle[d]))
    /\ UNCHANGED <<data, holder, rest>>

\* The backend's part: a conditional replacement, or the server's own merge.
Put(d) ==
    /\ Fenced => cycle[d].seen = remote.version
    /\ remote' = [item |-> IF Fenced THEN cycle[d].merged
                           ELSE Winner(remote.item, cycle[d].merged, clock),
                  version |-> remote.version + 1]

Upload(d) ==
    /\ At(d, "upload")
    /\ HoldsLease(d)
    /\ cycle[d].compare # {cycle[d].merged}
    /\ Put(d)
    /\ Goto(d, [Uploaded(cycle[d]) EXCEPT !.wrote = remote'.version,
                                          !.serverMerged = remote'.item # cycle[d].merged])
    /\ UNCHANGED <<clock, memory, disk, dirty, fast, holder, best, budget>>

\* Another device wrote since the document was read.
UploadConflict(d) ==
    /\ At(d, "upload")
    /\ Fenced
    /\ HoldsLease(d)
    /\ cycle[d].compare # {cycle[d].merged}
    /\ cycle[d].seen # remote.version
    /\ RemoteAbort(d)
    /\ UNCHANGED <<data, rest>>

\* Mutant of RetryLater: the failure is swallowed.
RetryNever(d) ==
    /\ Goto(d, Uploaded(cycle[d]))
    /\ UNCHANGED <<clock, memory, disk, dirty, fast, holder, best>>

\* A remote write that fails: the retry time is saved and the run fails.
RetryLater(d) ==
    /\ Goto(d, [cycle[d] EXCEPT !.pc = "writeLocal", !.write = "retry"])
    /\ UNCHANGED <<clock, memory, disk, dirty, fast, holder, best>>

UploadLeaseLost(d) ==
    /\ At(d, "upload")
    /\ ~HoldsLease(d)
    /\ RetryLater(d)
    /\ UNCHANGED <<remote, budget>>

\* The request is lost on its way there, or the answer on its way back; or the
\* lease cannot be confirmed, before the write or right after it.
UploadFails(d) ==
    /\ At(d, "upload")
    /\ HoldsLease(d)
    /\ Fenced \/ cycle[d].compare # {cycle[d].merged}
    /\ budget.failures > 0
    /\ budget' = [budget EXCEPT !.failures = @ - 1]
    /\ UNCHANGED remote \/ (cycle[d].compare # {cycle[d].merged} /\ Put(d))
    /\ RetryLater(d)

(***************************************************************************)
(* The end of a run: the pair for later fast checks is recorded and the    *)
(* store takes the merged document over.                                   *)
(***************************************************************************)
\* Mutant of RecordFast: the document that was read is recorded, not the merged one.
RecordFastSnapshot(d) ==
    /\ At(d, "finish")
    /\ ~cycle[d].stale
    /\ fast' = [fast EXCEPT ![d] = [local |-> {cycle[d].snapshot}, remote |-> remote.version]]
    /\ Jump(d, "refresh")
    /\ UNCHANGED <<clock, memory, disk, dirty, remote, holder, best, budget>>

RecordFast(d) ==
    /\ At(d, "finish")
    /\ ~cycle[d].stale
    /\ fast' = IF cycle[d].serverMerged THEN fast
               ELSE [fast EXCEPT ![d] =
                        [local |-> {cycle[d].merged},
                         remote |-> IF cycle[d].wrote > 0 THEN cycle[d].wrote
                                    ELSE remote.version]]
    /\ Jump(d, "refresh")
    /\ UNCHANGED <<clock, memory, disk, dirty, remote, holder, best, budget>>

FinishStale(d) ==
    /\ At(d, "finish") \/ At(d, "refresh")
    /\ cycle[d].stale
    /\ End(d)
    /\ UNCHANGED <<data, rest>>

\* Nothing was written locally: the store has it all.
RefreshSkipped(d) ==
    /\ At(d, "refresh")
    /\ ~cycle[d].stale
    /\ cycle[d].direct
    /\ End(d)
    /\ UNCHANGED <<data, rest>>

TakeOver(d) ==
    /\ memory' = [memory EXCEPT ![d] = [item |-> cycle[d].merged, pending |-> NoPending]]
    /\ End(d)
    /\ UNCHANGED <<clock, disk, dirty, fast, remote, best, budget>>

\* The last check, and then the lease is asked for or unsaved changes flushed.
Refresh(d) ==
    /\ At(d, "refresh")
    /\ ~cycle[d].stale
    /\ ~cycle[d].direct
    /\ Fenced \/ dirty[d]
    /\ Jump(d, "apply")
    /\ UNCHANGED <<data, holder, rest>>

RefreshAtOnce(d) ==
    /\ At(d, "refresh")
    /\ ~cycle[d].stale
    /\ ~cycle[d].direct
    /\ ~Fenced /\ ~dirty[d]
    /\ TakeOver(d)

\* fetchData with the merged document: unsaved changes are flushed first.
Apply(d) ==
    /\ At(d, "apply")
    /\ HoldsLease(d)
    /\ ~dirty[d]
    /\ TakeOver(d)

\* fetchData after a failed run: flush, read storage, and take it over unless
\* the store changed while storage was read.
ReloadStart(d) ==
    /\ At(d, "error")
    /\ ~dirty[d]
    /\ Goto(d, [cycle[d] EXCEPT !.pc = "reload", !.stale = FALSE])
    /\ UNCHANGED <<data, holder, rest>>

Reload(d) ==
    /\ At(d, "reload")
    /\ memory' = IF cycle[d].stale THEN memory ELSE [memory EXCEPT ![d] = disk[d]]
    /\ End(d)
    /\ UNCHANGED <<clock, disk, dirty, fast, remote, best, budget>>

-----------------------------------------------------------------------------
(***************************************************************************)
(* The environment.                                                        *)
(***************************************************************************)

\* The app is killed and started again; its lease stays behind.
Crash(d) ==
    /\ budget.crashes > 0
    /\ budget' = [budget EXCEPT !.crashes = @ - 1]
    /\ memory' = [memory EXCEPT ![d] = disk[d]]
    /\ dirty' = [dirty EXCEPT ![d] = FALSE]
    /\ Goto(d, Idle)
    /\ UNCHANGED <<clock, disk, fast, remote, holder, best>>

Abandoned == holder # NoOne /\ ~cycle[holder].lease

LeaseExpires ==
    /\ Abandoned
    /\ holder' = NoOne
    /\ UNCHANGED <<clock, memory, disk, dirty, fast, cycle, remote, best, budget>>

\* The app was suspended for longer than its lease.
LeaseLapses ==
    /\ holder # NoOne
    /\ ~Abandoned
    /\ budget.lapses > 0
    /\ budget' = [budget EXCEPT !.lapses = @ - 1]
    /\ holder' = NoOne
    /\ UNCHANGED <<clock, memory, disk, dirty, fast, cycle, remote, best>>

BackoffEnds(d) ==
    /\ \/ disk[d].pending.retry
       \/ memory[d].pending.retry
       \/ cycle[d].pending.retry
    /\ disk' = [disk EXCEPT ![d].pending.retry = FALSE]
    /\ memory' = [memory EXCEPT ![d].pending.retry = FALSE]
    /\ cycle' = [cycle EXCEPT ![d].pending.retry = FALSE]
    /\ UNCHANGED <<clock, dirty, fast, remote, holder, best, budget>>

Tick ==
    /\ clock < MaxTime
    /\ clock' = clock + 1
    /\ UNCHANGED <<memory, disk, dirty, fast, cycle, remote, holder, best, budget>>

Checks(d) ==
    \/ CheckStale(d) \/ CheckSideEffects(d) \/ FastSkip(d)
    \/ ArmLocalOnlyUpload(d) \/ ReadCheck(d)

Merges(d) ==
    \/ MergeReadLocal(d) \/ NothingPending(d) \/ PendingBackoff(d) \/ RetryPending(d)
    \/ AcquireFence(d) \/ FenceBusy(d) \/ ReadRemote(d)

Writes(d) ==
    \/ WriteLocal(d) \/ Persist(d) \/ AbortClear(d) \/ LeaseLost(d)
    \/ WriteRemote(d) \/ UploadSkipped(d) \/ Upload(d) \/ UploadConflict(d)
    \/ UploadLeaseLost(d)

Finishes(d) ==
    \/ RecordFast(d) \/ FinishStale(d) \/ RefreshSkipped(d)
    \/ Refresh(d) \/ RefreshAtOnce(d) \/ Apply(d) \/ ReloadStart(d) \/ Reload(d)

Runs(d) ==
    \/ Start(d) \/ StampLocal(d) \/ ReadLocal(d)
    \/ Checks(d) \/ Merges(d) \/ Writes(d) \/ Finishes(d)

Next ==
    \/ \E d \in Device :
          \/ Edit(d) \/ Delete(d) \/ Flush(d)
          \/ Runs(d) \/ ReadFails(d) \/ LeaseUnconfirmed(d) \/ UploadFails(d)
          \/ Crash(d) \/ BackoffEnds(d)
    \/ LeaseExpires \/ LeaseLapses \/ Tick

Spec == Init /\ [][Next]_vars

\* The app keeps running: awaits return, saves are flushed, the sync timers start
\* runs again and again, and leases and backoff times run out.
FairSpec ==
    /\ Spec
    /\ \A d \in Device : WF_vars(Runs(d)) /\ WF_vars(Flush(d)) /\ WF_vars(BackoffEnds(d))
    /\ WF_vars(LeaseExpires)

-----------------------------------------------------------------------------
(***************************************************************************)
(* Properties.                                                             *)
(***************************************************************************)
Beats(e, f) == Winner(f, e, clock) = e

\* While no app is killed, no saved edit is lost: of all copies ever saved, the
\* winner (or one that wins over it) is in some store, on some disk or in the
\* shared document, whatever is requeued, fails or is overwritten in between.
NoLostEdit ==
    \/ Beats(remote.item, best)
    \/ \E d \in Device : Beats(memory[d].item, best) \/ Beats(disk[d].item, best)

\* The recorded pair tells the truth: when the remote version is the recorded
\* one, the shared document is the recorded one, so that a run may be skipped.
FastPairSound ==
    \A d \in Device : fast[d].remote = remote.version => fast[d].local = {remote.item}

\* The comment of finalizeSuccess (apps/mobile/lib/sync-service.ts): the merged
\* document is exactly what the last writeLocal persisted, although edits, their
\* saves and aborted runs write to the same row.
MergedIsPersisted ==
    [][\A d \in Device :
          /\ At(d, "persist")
          /\ cycle'[d].pc = "finish"
          => disk'[d].item = cycle[d].merged]_vars

\* Every saved edit comes to the shared document: its winner ends up there for
\* good, although runs are aborted, requeued, delayed and skipped.
EditsReachRemote == <>[](remote.item = best)

\* Every device comes to know what the shared document holds, in its store or in
\* its storage: no skip keeps a device from reading what the others wrote.
DevicesCatchUp ==
    <>[](\A d \in Device : Winner(disk[d].item, memory[d].item, clock) = remote.item)
=============================================================================
