----------------------------- MODULE SaveQueue -----------------------------
(***************************************************************************)
(* The save queue of the task store (packages/core/src/store.ts): edits    *)
(* are applied to memory at once and reach storage later, either as a      *)
(* debounced snapshot of the whole store or, for a single task, as an      *)
(* immediate row write.  Several calls of flushPendingSave may be under    *)
(* way at the same time.                                                   *)
(*                                                                         *)
(* A row is represented by its revision; revision 0 is a row that does not *)
(* exist.  JavaScript runs each stretch of code between two awaits without *)
(* interruption, so such a stretch is one step here.                       *)
(***************************************************************************)
EXTENDS Naturals, Sequences

CONSTANTS
    Row,                  \* the tasks of the store
    Flusher,              \* the calls of flushPendingSave that may overlap
    MaxPendingSaves,      \* MAX_PENDING_SAVES
    MaxSaveRetryAttempts, \* MAX_SAVE_RETRY_ATTEMPTS
    MaxVersion            \* bound: versions a behaviour may draw

ASSUME SaveQueueAssumption ==
    /\ MaxPendingSaves \in Nat \ {0}
    /\ MaxSaveRetryAttempts \in Nat \ {0}
    /\ MaxVersion \in Nat

VARIABLES
    memory,             \* the store's rows
    disk,               \* the rows storage holds
    pendingSaves,       \* snapshots waiting for a flush, oldest first
    pendingVersion,     \* the last version drawn
    savedVersion,       \* the last version a snapshot save completed
    saveInFlight,       \* the snapshot being written, or NoSave
    immediateSaves,     \* row writes in flight (immediateSavesInFlight)
    storageQueue,       \* versions of the writes handed to the adapter, FIFO
    scheduledSaveTimer, \* is the debounce timer armed?
    persistenceFailure, \* is the failure banner shown?
    flush               \* the state of each flushPendingSave call

vars == <<memory, disk, pendingSaves, pendingVersion, savedVersion,
          saveInFlight, immediateSaves, storageQueue, scheduledSaveTimer,
          persistenceFailure, flush>>

Rows == [Row -> Nat]
Save == [version : Nat, data : Rows, attempts : 0..(MaxSaveRetryAttempts - 1)]
RowSave == [version : Nat, data : Rows, row : Row]
FlushState == {"idle", "enter", "loop", "awaitImmediate", "awaitSave", "saving",
               "sleep", "resolved", "rejected"}
Call == [pc : FlushState, on : SUBSET Nat, goal : Rows]

NoRows == [r \in Row |-> 0]
NoCall(pc) == [pc |-> pc, on |-> {}, goal |-> NoRows]
NoSave == [version |-> 0, data |-> NoRows, attempts |-> 0]

TypeOK ==
    /\ memory \in Rows
    /\ disk \in Rows
    /\ pendingSaves \in Seq(Save)
    /\ Len(pendingSaves) <= MaxPendingSaves
    /\ pendingVersion \in Nat
    /\ savedVersion \in Nat
    /\ saveInFlight \in Save
    /\ immediateSaves \in SUBSET RowSave
    /\ storageQueue \in Seq(Nat)
    /\ scheduledSaveTimer \in BOOLEAN
    /\ persistenceFailure \in BOOLEAN
    /\ flush \in [Flusher -> Call]

Init ==
    /\ memory = NoRows
    /\ disk = NoRows
    /\ pendingSaves = <<>>
    /\ pendingVersion = 0
    /\ savedVersion = 0
    /\ saveInFlight = NoSave
    /\ immediateSaves = {}
    /\ storageQueue = <<>>
    /\ scheduledSaveTimer = FALSE
    /\ persistenceFailure = FALSE
    /\ flush = [f \in Flusher |-> NoCall("idle")]

-----------------------------------------------------------------------------
(* Helpers *)

SavingNow == saveInFlight.version # 0

\* A newer snapshot than `version' waits in queue q.
HasNewer(q, version) == \E i \in 1..Len(q) : q[i].version > version

\* Mutant: no cap.
CapNothing(q) == q

\* enforcePendingSaveCap: the oldest snapshots are dropped.
Cap(q) ==
    IF Len(q) > MaxPendingSaves
    THEN SubSeq(q, (Len(q) - MaxPendingSaves) + 1, Len(q))
    ELSE q

\* Dropping a snapshot shows the banner.
Overflows(q) == Len(q) > MaxPendingSaves

NewSave(version, data) == [version |-> version, data |-> data, attempts |-> 0]

\* The retries the next save inherits from everything it replaces.
MaxAttempts(q) ==
    CHOOSE n \in {q[i].attempts : i \in 1..Len(q)} :
        \A i \in 1..Len(q) : q[i].attempts <= n

\* Mutant: the upsert without its revision guard.
BlindUpsertAll(rows, data) == data

\* saveTask: one row, kept when storage already has a later revision.
UpsertRow(rows, r, rev) ==
    [rows EXCEPT ![r] = IF @ <= rev THEN rev ELSE @]

\* saveData: every row of the snapshot is upserted under the same guard and
\* the rows missing from the snapshot are removed.
UpsertAll(rows, data) ==
    [r \in Row |-> IF data[r] # 0 /\ rows[r] > data[r] THEN rows[r] ELSE data[r]]

-----------------------------------------------------------------------------
(* flushPendingSave *)

Finished(f) == flush[f].pc \in {"idle", "resolved", "rejected"}

\* The newest snapshot of q has not been overtaken by a completed save.
Fresh(q) == q # <<>> /\ q[Len(q)].version > savedVersion

\* The loop of flushPendingSave from its head to the next await or return, for
\* call c on queue q.  `on' names the row writes that Promise.all waits for.
FlushLoop(f, c, q) ==
    \/ /\ immediateSaves # {}
       /\ flush' = [flush EXCEPT ![f] =
            [c EXCEPT !.pc = "awaitImmediate", !.on = {s.version : s \in immediateSaves}]]
       /\ pendingSaves' = q
       /\ UNCHANGED <<saveInFlight, storageQueue>>
    \/ /\ immediateSaves = {}
       /\ SavingNow
       /\ flush' = [flush EXCEPT ![f] = [c EXCEPT !.pc = "awaitSave"]]
       /\ pendingSaves' = q
       /\ UNCHANGED <<saveInFlight, storageQueue>>
    \/ /\ immediateSaves = {}
       /\ ~SavingNow
       /\ ~Fresh(q)
       /\ flush' = [flush EXCEPT ![f] = [c EXCEPT !.pc = "resolved"]]
       /\ pendingSaves' = <<>>
       /\ UNCHANGED <<saveInFlight, storageQueue>>
    \/ /\ immediateSaves = {}
       /\ ~SavingNow
       /\ Fresh(q)
       /\ saveInFlight' = [q[Len(q)] EXCEPT !.attempts = MaxAttempts(q)]
       /\ storageQueue' = Append(storageQueue, q[Len(q)].version)
       /\ flush' = [flush EXCEPT ![f] = [c EXCEPT !.pc = "saving"]]
       /\ pendingSaves' = <<>>

\* A call that begins now; its goal is what its caller has edited so far.
NewCall == [pc |-> "loop", on |-> {}, goal |-> memory]

\* A caller (background, sync, reload) starts a flush.
FlushEnter(f) ==
    /\ Finished(f)
    /\ FlushLoop(f, NewCall, pendingSaves)
    /\ scheduledSaveTimer' = FALSE
    /\ UNCHANGED <<memory, disk, pendingVersion, savedVersion, immediateSaves,
                   persistenceFailure>>

\* The debounce timer fires and starts one.
FlushTimer(f) ==
    /\ scheduledSaveTimer
    /\ FlushEnter(f)

\* What the call awaited has settled, its backoff sleep is over, or the replay
\* that queued a snapshot goes on to flush it.  Entering clears the timer.
FlushContinue(f) ==
    /\ flush[f].pc \in {"enter", "loop", "sleep"}
    /\ FlushLoop(f, flush[f], pendingSaves)
    /\ scheduledSaveTimer' = (scheduledSaveTimer /\ flush[f].pc # "enter")
    /\ UNCHANGED <<memory, disk, pendingVersion, savedVersion, immediateSaves,
                   persistenceFailure>>

-----------------------------------------------------------------------------
(* Edits *)

\* Mutant: the snapshot is queued and no flush is scheduled.
EnqueueUnscheduled(data) ==
    LET q == Append(pendingSaves, NewSave(pendingVersion + 1, data))
    IN  /\ pendingVersion' = pendingVersion + 1
        /\ pendingSaves' = Cap(q)
        /\ persistenceFailure' = (persistenceFailure \/ Overflows(q))
        /\ UNCHANGED scheduledSaveTimer

\* enqueuePendingSave, as debouncedSave calls it.
EnqueuePendingSave(data) ==
    LET q == Append(pendingSaves, NewSave(pendingVersion + 1, data))
    IN  /\ pendingVersion' = pendingVersion + 1
        /\ pendingSaves' = Cap(q)
        /\ persistenceFailure' = (persistenceFailure \/ Overflows(q))
        /\ scheduledSaveTimer' = TRUE

\* An edit persisted by snapshot: addTasks, batch edits, and updateTask when a
\* snapshot is already queued or the edit touches more than one row.
EditSnapshot(r) ==
    /\ pendingVersion < MaxVersion
    /\ memory' = [memory EXCEPT ![r] = @ + 1]
    /\ EnqueuePendingSave(memory')
    /\ UNCHANGED <<disk, savedVersion, saveInFlight, immediateSaves,
                   storageQueue, flush>>

\* updateTask with a single-row write, allowed only while no snapshot is queued.
EditRow(r) ==
    /\ pendingVersion < MaxVersion
    /\ memory[r] > 0
    /\ pendingSaves = <<>>
    /\ memory' = [memory EXCEPT ![r] = @ + 1]
    /\ pendingVersion' = pendingVersion + 1
    /\ immediateSaves' = immediateSaves \cup
         {[version |-> pendingVersion', data |-> memory', row |-> r]}
    /\ storageQueue' = Append(storageQueue, pendingVersion')
    /\ UNCHANGED <<disk, pendingSaves, savedVersion, saveInFlight,
                   scheduledSaveTimer, persistenceFailure, flush>>

\* retryPersistence, and the replay of a capture in addTasks: queue the current
\* memory (persistSnapshot), then flush.
RetryPersistence(f) ==
    /\ persistenceFailure
    /\ Finished(f)
    /\ pendingVersion < MaxVersion
    /\ EnqueuePendingSave(memory)
    /\ flush' = [flush EXCEPT ![f] = [NewCall EXCEPT !.pc = "enter"]]
    /\ UNCHANGED <<memory, disk, savedVersion, saveInFlight, immediateSaves,
                   storageQueue>>

-----------------------------------------------------------------------------
(* Storage answers *)

\* The calls that wait for row write v, when it succeeds.
RowSaveWakes(v) ==
    [f \in Flusher |->
        IF flush[f].pc # "awaitImmediate" \/ v \notin flush[f].on THEN flush[f]
        ELSE IF flush[f].on = {v} THEN [flush[f] EXCEPT !.pc = "loop", !.on = {}]
        ELSE [flush[f] EXCEPT !.on = @ \ {v}]]

\* Promise.all rejects: they throw.
RowSaveRejects(v) ==
    [f \in Flusher |->
        IF flush[f].pc = "awaitImmediate" /\ v \in flush[f].on
        THEN NoCall("rejected")
        ELSE flush[f]]

RowSaveOk(s) ==
    /\ storageQueue # <<>>
    /\ Head(storageQueue) = s.version
    /\ storageQueue' = Tail(storageQueue)
    /\ disk' = UpsertRow(disk, s.row, s.data[s.row])
    /\ immediateSaves' = immediateSaves \ {s}
    /\ flush' = RowSaveWakes(s.version)
    /\ UNCHANGED <<memory, pendingSaves, pendingVersion, savedVersion,
                   saveInFlight, scheduledSaveTimer, persistenceFailure>>

\* Mutants: a failed row write is not queued again; it is queued behind a newer
\* snapshot.
RequeueNothing(s) == pendingSaves
RequeueAlways(s) == Cap(Append(pendingSaves, NewSave(s.version, s.data)))

\* trackImmediateSave: the snapshot taken at dispatch is queued under the
\* version drawn at dispatch, unless a newer snapshot waits.
RequeueRowSave(s) ==
    IF HasNewer(pendingSaves, s.version)
    THEN pendingSaves
    ELSE Cap(Append(pendingSaves, NewSave(s.version, s.data)))

RowSaveFail(s) ==
    /\ storageQueue # <<>>
    /\ Head(storageQueue) = s.version
    /\ storageQueue' = Tail(storageQueue)
    /\ immediateSaves' = immediateSaves \ {s}
    /\ pendingSaves' = RequeueRowSave(s)
    /\ persistenceFailure' = TRUE
    /\ flush' = RowSaveRejects(s.version)
    /\ UNCHANGED <<memory, disk, pendingVersion, savedVersion, saveInFlight,
                   scheduledSaveTimer>>

\* saveInFlight never rejects: every call that waits for it, and its owner when
\* `owner' says so, goes back to the head of the loop.
SaveWakes(owner) ==
    [f \in Flusher |->
        CASE flush[f].pc = "awaitSave" -> [flush[f] EXCEPT !.pc = "loop"]
          [] flush[f].pc = "saving" ->
                IF owner = "rejected"
                THEN NoCall("rejected")
                ELSE [flush[f] EXCEPT !.pc = owner]
          [] OTHER -> flush[f]]

SaveOk ==
    /\ SavingNow
    /\ storageQueue # <<>>
    /\ Head(storageQueue) = saveInFlight.version
    /\ storageQueue' = Tail(storageQueue)
    /\ disk' = UpsertAll(disk, saveInFlight.data)
    /\ savedVersion' = saveInFlight.version
    /\ saveInFlight' = NoSave
    /\ persistenceFailure' = FALSE
    /\ flush' = SaveWakes("loop")
    /\ UNCHANGED <<memory, pendingSaves, pendingVersion, immediateSaves,
                   scheduledSaveTimer>>

\* Mutant: exhausting the retries is not reported.
FailureUnreported(gaveUp) == persistenceFailure

\* recordPersistenceFailure, after the last attempt.
FailureAfterSave(gaveUp) == persistenceFailure \/ gaveUp

\* The failed snapshot goes back to the front of the queue unless a newer one
\* waits or its attempts are used up; in the latter case the owner throws.
SaveFail ==
    LET newer == HasNewer(pendingSaves, saveInFlight.version)
        retry == ~newer /\ saveInFlight.attempts + 1 < MaxSaveRetryAttempts
        again == [saveInFlight EXCEPT !.attempts = @ + 1]
    IN  /\ SavingNow
        /\ storageQueue # <<>>
        /\ Head(storageQueue) = saveInFlight.version
        /\ storageQueue' = Tail(storageQueue)
        /\ saveInFlight' = NoSave
        /\ pendingSaves' = IF retry THEN Cap(<<again>> \o pendingSaves) ELSE pendingSaves
        /\ persistenceFailure' = FailureAfterSave(~newer /\ ~retry)
        /\ flush' = SaveWakes(CASE newer -> "loop" [] retry -> "sleep" [] OTHER -> "rejected")
        /\ UNCHANGED <<memory, disk, pendingVersion, savedVersion,
                       immediateSaves, scheduledSaveTimer>>

-----------------------------------------------------------------------------
Next ==
    \/ \E r \in Row : EditSnapshot(r) \/ EditRow(r)
    \/ \E f \in Flusher :
          FlushEnter(f) \/ FlushTimer(f) \/ FlushContinue(f) \/ RetryPersistence(f)
    \/ \E s \in immediateSaves : RowSaveOk(s) \/ RowSaveFail(s)
    \/ SaveOk
    \/ SaveFail

Spec == Init /\ [][Next]_vars

\* Timers fire, promises settle and continuations run; users need not edit.
Fairness ==
    /\ WF_vars(\E f \in Flusher : FlushTimer(f))
    /\ \A f \in Flusher : WF_vars(FlushContinue(f))
    /\ WF_vars(SaveOk \/ SaveFail \/ \E s \in immediateSaves : RowSaveOk(s) \/ RowSaveFail(s))

FairSpec == Spec /\ Fairness

-----------------------------------------------------------------------------
(* Properties *)

Settled == pendingSaves = <<>> /\ ~SavingNow /\ immediateSaves = {}

\* No edit is dropped behind the user's back: whenever the queue is idle and no
\* failure is on display, storage holds exactly what memory holds, whatever
\* mix of snapshots, row writes, failures and retries led there.
NoSilentLoss == Settled /\ ~persistenceFailure => disk = memory

\* Storage never goes back to an older revision of a row, although a failed
\* snapshot is retried after newer row writes have landed.
DiskNeverRegresses == [][\A r \in Row : disk[r] <= disk'[r]]_vars

\* A snapshot that waits is never forgotten: a timer, a running flush or the
\* failure banner stands for it.
NoSilentStall ==
    pendingSaves # <<>> =>
        \/ scheduledSaveTimer
        \/ persistenceFailure
        \/ \E f \in Flusher : ~Finished(f)

\* The order the flush relies on when it writes only the last snapshot: versions
\* grow along the queue, and everything queued or dispatched as a row write is
\* newer than the snapshot in flight and than what was saved.
QueueOrdered ==
    /\ \A i, j \in 1..Len(pendingSaves) :
          i < j => pendingSaves[i].version < pendingSaves[j].version
    /\ \A i \in 1..Len(pendingSaves) :
          /\ pendingSaves[i].version > savedVersion
          /\ pendingSaves[i].version > saveInFlight.version
    /\ \A s \in immediateSaves :
          s.version > savedVersion /\ s.version > saveInFlight.version

\* A flush that resolves has put everything the caller had edited on storage,
\* or the failure is on display.
FlushReports ==
    \A f \in Flusher : flush[f].pc = "resolved" =>
        persistenceFailure \/ \A r \in Row : flush[f].goal[r] <= disk[r]

\* Once the user pauses, storage catches up with memory or the failure is shown:
\* no snapshot and no failed row write is left waiting for an edit that never comes.
EditReachesDisk == []<>(disk = memory \/ persistenceFailure)
=============================================================================
