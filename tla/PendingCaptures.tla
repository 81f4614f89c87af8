-------------------------- MODULE PendingCaptures --------------------------
(* The native capture queue of the mobile app (apps/mobile/lib/             *)
(* pending-captures.ts).  Widgets, Shortcuts, the quick-capture dialog and  *)
(* the Watch only write files; the app drains them into the store when it   *)
(* starts, comes to the foreground or is told of a Watch delivery.  An item *)
(* is applied, the store is flushed, and only then does its file go away,   *)
(* so that a kill or a failed save repeats an item instead of losing it.    *)
(*                                                                          *)
(* The save queue is SaveQueue seen from outside: a row write in flight, a  *)
(* queued snapshot, and the banner that stays until a snapshot is saved.    *)
EXTENDS Naturals, FiniteSets

CONSTANTS
    Items,       \* queue files; numbers in the order of their names
    KindOf,      \* what each of them holds
    CreatedAt,   \* createdAt of each, from 1
    Batches,     \* bound: sets of items that one behaviour sees together
    MaxFaults,   \* bound: storage, file and transcription failures
    MaxCrashes,  \* bound: kills of the app
    MaxTaps      \* bound: taps on the ring of the widget's task

Kinds ==
    {"text",      \* a Shortcut, the quick-capture dialog, a Watch text
     "audio",     \* an Android recording: its task has the capture's id
     "recording", \* a Watch recording: its task gets a new id
     "checkoff",  \* completion written by the widget
     "complete", "defer", "pomodoro",  \* Watch commands
     "corrupt"}   \* unparsable, or an audio item that breaks the contract

OfKind(K) == {i \in Items : KindOf[i] \in K}
Captures == OfKind({"text", "audio", "recording"})
Sounds == OfKind({"audio", "recording"})
WatchCommands == OfKind({"complete", "defer", "pomodoro"})
Checkoffs == OfKind({"checkoff"})
None == 0

ASSUME CaptureAssumption ==
    /\ Items \subseteq Nat \ {None} /\ IsFiniteSet(Items)
    /\ KindOf \in [Items -> Kinds]
    /\ CreatedAt \in [Items -> Nat \ {0}]
    /\ Batches \subseteq SUBSET Items
    /\ MaxFaults \in Nat /\ MaxCrashes \in Nat /\ MaxTaps \in Nat

VARIABLES
    files,    \* queue files in pending-captures/
    wavs,     \* recordings on disk
    drafts,   \* recordings the native dialog still holds
    arrived,  \* items already written
    widget,   \* the check-off store: pending tap, committed file; taps so far; history:
              \* the user's last word, completions of which the store has lost track
    memory,   \* the store
    disk,     \* storage
    row,      \* the task row in flight, if any
    snap,     \* a snapshot is queued
    failure,  \* the banner of persistenceFailure
    timer,    \* the Pomodoro session: time of its last change, and that on storage
    drain,    \* the drain: pc, item at hand, places and Watch commands still to
              \* do, asked again
    seen,     \* history: check-offs the app has read
    undone,   \* history: completions taken back that the app had never read
    faults, crashes

native == <<files, wavs, drafts, arrived, widget, undone, seen>>
saves == <<memory, disk, row, snap, failure>>
vars == <<files, wavs, drafts, arrived, widget, undone, seen, memory, disk, row, snap,
          failure, timer, drain, faults, crashes>>

\* What the queue can change: the tasks made of each capture, tombstones
\* included, those deleted again, and the status and start date of the one
\* task that commands are about.
Document ==
    [made : [Captures -> Nat], deleted : SUBSET Captures,
     status : {"open", "done", "deleted"}, start : Items \cup {None}]

NoRow == <<"none", None>>
Rows == {"open", "done", "deleted"} \X (Items \cup {None})

EmptyDocument ==
    [made |-> [c \in Captures |-> 0], deleted |-> {}, status |-> "open", start |-> None]

Cold == [hydrated |-> FALSE, at |-> 0]
Idle == [pc |-> "idle", item |-> None, places |-> {}, commands |-> {}, again |-> FALSE]

Init ==
    /\ files = {} /\ wavs = {} /\ drafts = {} /\ arrived = {}
    /\ widget = [pending |-> FALSE, committed |-> None, taps |-> 0, wish |-> FALSE, stray |-> {}]
    /\ undone = {} /\ seen = {}
    /\ memory = EmptyDocument /\ disk = EmptyDocument
    /\ row = NoRow /\ snap = FALSE /\ failure = FALSE
    /\ timer = [session |-> Cold, stored |-> 0]
    /\ drain = Idle
    /\ faults = 0 /\ crashes = 0

Fault == faults < MaxFaults /\ faults' = faults + 1

-----------------------------------------------------------------------------
(* Native writers *)

\* Item i is new and may come after the ones before it.
New(i) ==
    /\ i \notin arrived
    /\ \E B \in Batches : arrived \cup {i} \subseteq B

\* PendingCaptureWriter.write, the Shortcut and the Watch receiver: the file
\* appears by a rename.  A Watch recording has its WAV before.
Write(i) ==
    /\ KindOf[i] \notin {"audio", "checkoff"}
    /\ New(i)
    /\ files' = files \cup {i}
    /\ wavs' = IF KindOf[i] = "recording" THEN wavs \cup {i} ELSE wavs
    /\ arrived' = arrived \cup {i}
    /\ UNCHANGED <<drafts, widget, undone, seen, saves, timer, drain, faults, crashes>>

\* The quick-capture recorder ends with a WAV, held by the dialog's session.
Record(i) ==
    /\ KindOf[i] = "audio"
    /\ New(i)
    /\ wavs' = wavs \cup {i}
    /\ drafts' = drafts \cup {i}
    /\ arrived' = arrived \cup {i}
    /\ UNCHANGED <<files, widget, undone, seen, saves, timer, drain, faults, crashes>>

\* publishAudio: the WAV has its name first, then the queue file appears; after
\* a failure the session keeps the draft and the user saves again.
PublishAudio(i) ==
    /\ i \in drafts
    /\ files' = files \cup {i}
    /\ drafts' = drafts \ {i}
    /\ UNCHANGED <<wavs, arrived, widget, undone, seen, saves, timer, drain, faults, crashes>>

\* discardAudioDraft: only a recording that is not queued.
DiscardDraft(i) ==
    /\ i \in drafts
    /\ i \notin files
    /\ wavs' = wavs \ {i}
    /\ drafts' = drafts \ {i}
    /\ UNCHANGED <<files, arrived, widget, undone, seen, saves, timer, drain, faults, crashes>>

\* Mutant: age alone decides.
ExpirableByAge(i) == i \in wavs

\* QuickCaptureAudioCleanup: a queue file or a live session keeps a recording.
Expirable(i) == i \in wavs /\ i \notin files /\ i \notin drafts

\* The sweep of stale recordings when the dialog opens.
ExpireAudio(i) ==
    /\ KindOf[i] = "audio"
    /\ Expirable(i)
    /\ wavs' = wavs \ {i}
    /\ UNCHANGED <<files, drafts, arrived, widget, undone, seen, saves, timer, drain,
                   faults, crashes>>

-----------------------------------------------------------------------------
(* The check-off store of the widget *)

\* What the user takes back: every completion of the task not read so far.
TakenBack == undone \cup ((arrived \cap Checkoffs) \ seen)

\* Mutant: the row is un-struck and the queued completion stays.
UndoUnqueuedOnly(w) ==
    /\ widget' = [w EXCEPT !.committed = None]
    /\ undone' = TakenBack
    /\ UNCHANGED <<files, faults>>

\* undo: the queued completion is removed, if the app has not removed it already.
\* The row is un-struck also when the file cannot be deleted.
Undo(w) ==
    /\ undone' = TakenBack
    /\ \/ /\ files' = files \ {w.committed}
          /\ widget' = [w EXCEPT !.committed = None]
          /\ UNCHANGED faults
       \/ /\ w.committed \in files
          /\ Fault
          /\ widget' = [w EXCEPT !.committed = None, !.stray = @ \cup {w.committed}]
          /\ UNCHANGED files

\* A tap on the ring: undo what is committed, or mark and unmark (toggle).
Tap ==
    LET w == [widget EXCEPT !.taps = @ + 1]
    IN  /\ widget.taps < MaxTaps
        /\ \/ widget.committed # None /\ Undo([w EXCEPT !.wish = FALSE])
           \/ /\ widget.committed = None
              /\ widget' = [w EXCEPT !.pending = ~@, !.wish = ~w.pending]
              /\ undone' = IF widget.pending THEN TakenBack ELSE undone
              /\ UNCHANGED <<files, faults>>
        /\ UNCHANGED <<wavs, drafts, arrived, seen, saves, timer, drain, crashes>>

\* sweep: the undo window of a pending tap is over.  The queue file is written,
\* the tap forgotten and the file remembered, in this order.
WriteCompletion(i) ==
    /\ KindOf[i] = "checkoff"
    /\ New(i)
    /\ widget.pending
    /\ files' = files \cup {i}
    /\ arrived' = arrived \cup {i}

Sweep(i) ==
    /\ WriteCompletion(i)
    /\ widget' = [widget EXCEPT !.pending = FALSE, !.committed = i]
    /\ UNCHANGED <<wavs, drafts, undone, seen, saves, timer, drain, faults, crashes>>

\* prune: the app has republished the widget without the task.
Prune ==
    /\ widget.committed # None
    /\ memory.status # "open"
    /\ widget' = [widget EXCEPT !.committed = None, !.stray = @ \cup {widget.committed}]
    /\ UNCHANGED <<files, wavs, drafts, arrived, undone, seen, saves, timer, drain, faults, crashes>>

-----------------------------------------------------------------------------
(* The store and its saves *)

\* updateTask: a row write, or a snapshot when one is queued already.
SaveRow(m) ==
    /\ memory' = m
    /\ row' = IF snap THEN row ELSE <<m.status, m.start>>
    /\ UNCHANGED snap

\* deleteTask of a task that came from capture c.
DeleteCaptured(c) ==
    /\ memory.made[c] > 0
    /\ c \notin memory.deleted
    /\ memory' = [memory EXCEPT !.deleted = @ \cup {c}]
    /\ snap' = TRUE
    /\ UNCHANGED <<native, disk, row, failure, timer, drain, faults, crashes>>

\* deleteTask of the task the commands are about.
DeleteTarget ==
    /\ memory.status = "open"
    /\ memory' = [memory EXCEPT !.status = "deleted"]
    /\ snap' = TRUE
    /\ UNCHANGED <<native, disk, row, failure, timer, drain, faults, crashes>>

\* The drain awaits a flush.
Flushing == drain.pc \in {"replay", "flush"}

\* The drain goes on with the next item: this one is done, or its file is left
\* for the next pass.
NextItem == [drain EXCEPT !.pc = "next", !.item = None]

RowSaved ==
    /\ row # NoRow
    /\ row' = NoRow
    /\ disk' = [disk EXCEPT !.status = row[1], !.start = row[2]]
    /\ UNCHANGED <<native, memory, snap, failure, timer, drain, faults, crashes>>

\* A failed row write becomes a queued snapshot.
RowFails ==
    /\ row # NoRow
    /\ Fault
    /\ row' = NoRow
    /\ snap' = TRUE
    /\ failure' = TRUE
    /\ drain' = IF Flushing THEN NextItem ELSE drain
    /\ UNCHANGED <<native, memory, disk, timer, crashes>>

\* A flush (the drain's or another) writes the queued snapshot.
SnapshotSaved ==
    /\ snap /\ row = NoRow
    /\ snap' = FALSE
    /\ disk' = memory
    /\ failure' = FALSE
    /\ UNCHANGED <<native, memory, row, timer, drain, faults, crashes>>

\* Its retries are used up: the snapshot is dropped and the flush that had taken
\* it throws; one that only waited finds an empty queue.
SnapshotFails ==
    /\ snap /\ row = NoRow
    /\ Fault
    /\ snap' = FALSE
    /\ failure' = TRUE
    /\ \/ UNCHANGED drain
       \/ Flushing /\ drain' = NextItem
    /\ UNCHANGED <<native, memory, disk, row, timer, crashes>>

-----------------------------------------------------------------------------
(* The drain *)

\* Mutant: nobody asks whether a drain is running.
AskDrainAnyway ==
    /\ drain' = [drain EXCEPT !.pc = "list", !.item = None]
    /\ UNCHANGED <<native, saves, timer, faults, crashes>>

\* drainQueue, on startup, foreground or a Watch delivery: one drain runs, and
\* a request meanwhile makes it go over the queue again.
AskDrain ==
    /\ drain' = IF drain.pc = "idle" THEN [drain EXCEPT !.pc = "list"]
                ELSE [drain EXCEPT !.again = TRUE]
    /\ UNCHANGED <<native, saves, timer, faults, crashes>>

\* Item i is next, at place p: the places go by the names of the files, and
\* those of Watch commands are filled in the order of their creation.
Follows(i, p) ==
    /\ p \in drain.places /\ \A q \in drain.places : p <= q
    /\ IF p \in WatchCommands
       THEN /\ i \in drain.commands
            /\ \A j \in drain.commands :
                 CreatedAt[i] < CreatedAt[j] \/ (CreatedAt[i] = CreatedAt[j] /\ i <= j)
       ELSE i = p

\* The directory is listed and the files F are read.
ListAs(F) ==
    /\ drain.pc = "list"
    /\ drain' = [drain EXCEPT !.pc = "next", !.places = F, !.commands = F \cap WatchCommands,
                              !.again = FALSE]
    /\ seen' = seen \cup (F \cap Checkoffs)
    /\ UNCHANGED <<files, wavs, drafts, arrived, widget, undone, saves, timer, crashes>>

List == ListAs(files) /\ UNCHANGED faults

\* The directory, or one file, cannot be read.
ListFails ==
    /\ Fault
    /\ ListAs({}) \/ \E i \in files : ListAs(files \ {i})

\* The pass is over; a request made meanwhile starts another.
EndPass ==
    /\ drain.pc = "next" /\ drain.places = {}
    /\ drain' = [drain EXCEPT !.pc = IF drain.again THEN "list" ELSE "idle"]
    /\ UNCHANGED <<native, saves, timer, faults, crashes>>

\* Item i is taken and the drain goes on at `pc'.
Take(i, pc) ==
    /\ drain.pc = "next"
    /\ \E p \in drain.places :
        /\ Follows(i, p)
        /\ drain' = [drain EXCEPT !.pc = pc, !.item = i, !.places = @ \ {p}, !.commands = @ \ {i}]

\* A malformed item, or an audio item with a path that is not ours, is dropped.
TakeCorrupt(i) ==
    /\ KindOf[i] = "corrupt"
    /\ drain.pc = "next" /\ Follows(i, i)
    /\ drain' = [drain EXCEPT !.places = @ \ {i}]
    /\ \/ files' = files \ {i} /\ UNCHANGED faults
       \/ Fault /\ UNCHANGED files
    /\ UNCHANGED <<wavs, drafts, arrived, widget, undone, seen, saves, timer, crashes>>

\* applyPendingCompletion: only an open task is completed.
TakeCompletion(i) ==
    /\ KindOf[i] \in {"checkoff", "complete"}
    /\ Take(i, "flush")
    /\ \/ /\ memory.status = "open"
          /\ SaveRow([memory EXCEPT !.status = "done"])
       \/ memory.status # "open" /\ UNCHANGED <<memory, row, snap>>
    /\ UNCHANGED <<native, disk, failure, timer, faults, crashes>>

\* applyPendingDefer.
TakeDefer(i) ==
    /\ KindOf[i] = "defer"
    /\ Take(i, "flush")
    /\ \/ /\ memory.status = "open" /\ memory.start # i
          /\ SaveRow([memory EXCEPT !.start = i])
       \/ /\ memory.status # "open" \/ memory.start = i
          /\ UNCHANGED <<memory, row, snap>>
    /\ UNCHANGED <<native, disk, failure, timer, faults, crashes>>

TakePomodoro(i) ==
    /\ KindOf[i] = "pomodoro"
    /\ Take(i, "timer")
    /\ UNCHANGED <<native, saves, timer, faults, crashes>>

\* Mutant: a deleted task does not count.
KnownUnlessDeleted(i) == KindOf[i] = "audio" /\ memory.made[i] > 0 /\ i \notin memory.deleted

\* The task of an Android recording has the capture's id; tombstones count.
Known(i) == KindOf[i] = "audio" /\ memory.made[i] > 0

\* addTask: nothing is added when the capture's id is known.
AddTask(i) ==
    IF Known(i) THEN UNCHANGED <<memory, snap>>
    ELSE memory' = [memory EXCEPT !.made[i] = @ + 1] /\ snap' = TRUE

TakeText(i) ==
    /\ KindOf[i] = "text"
    /\ Take(i, "flush")
    /\ AddTask(i)
    /\ UNCHANGED <<native, disk, row, failure, timer, faults, crashes>>

\* The store refuses the task or the change: the item stays.
Refused(i) ==
    /\ \/ KindOf[i] = "text"
       \/ KindOf[i] \in {"checkoff", "complete"} /\ memory.status = "open"
       \/ KindOf[i] = "defer" /\ memory.status = "open" /\ memory.start # i
    /\ drain.pc = "next"
    /\ \E p \in drain.places :
        /\ Follows(i, p)
        /\ drain' = [drain EXCEPT !.places = @ \ {p}, !.commands = @ \ {i}]
    /\ Fault
    /\ UNCHANGED <<native, saves, timer, crashes>>

\* A recording whose task exists is replayed: with a failure on display the
\* store is queued and flushed once more before the item may go.
TakeKnownSound(i) ==
    /\ KindOf[i] \in {"audio", "recording"}
    /\ Known(i)
    /\ Take(i, IF failure THEN "replay" ELSE "flush")
    /\ snap' = (snap \/ failure)
    /\ UNCHANGED <<native, memory, disk, row, failure, timer, faults, crashes>>

TakeNewSound(i) ==
    /\ KindOf[i] \in {"audio", "recording"}
    /\ ~Known(i)
    /\ Take(i, "transcribe")
    /\ UNCHANGED <<native, saves, timer, faults, crashes>>

\* A transcript, made into a task.
Transcribed ==
    /\ drain.pc = "transcribe"
    /\ drain.item \in wavs
    /\ AddTask(drain.item)
    /\ drain' = [drain EXCEPT !.pc = "flush"]
    /\ UNCHANGED <<native, disk, row, failure, timer, faults, crashes>>

\* No transcript, no recording, or a task that is refused: the item stays.
NotTranscribed ==
    /\ drain.pc = "transcribe"
    /\ IF drain.item \in wavs THEN Fault ELSE UNCHANGED faults
    /\ drain' = NextItem
    /\ UNCHANGED <<native, saves, timer, crashes>>

\* Mutant: the flush is not awaited.
FlushNotAwaited ==
    /\ Flushing
    /\ drain' = [drain EXCEPT !.pc = IF @ = "replay" THEN "flush" ELSE "delete"]
    /\ UNCHANGED <<native, saves, timer, faults, crashes>>

\* The awaited flush has found nothing left to write.
FlushReturns ==
    /\ Flushing
    /\ row = NoRow /\ ~snap
    /\ drain' = [drain EXCEPT !.pc = IF @ = "replay" THEN "flush" ELSE "delete"]
    /\ UNCHANGED <<native, saves, timer, faults, crashes>>

\* ensureHydrated; a session that cannot be read counts as none.
Hydrate ==
    /\ drain.pc = "timer" /\ ~timer.session.hydrated
    /\ \/ timer' = [timer EXCEPT !.session = [hydrated |-> TRUE, at |-> timer.stored]]
          /\ UNCHANGED faults
       \/ timer' = [timer EXCEPT !.session = [hydrated |-> TRUE, at |-> 0]]
          /\ Fault
    /\ UNCHANGED <<native, saves, drain, crashes>>

\* applyWatchCommand: an older command is stale; the same or a newer one is
\* stored, again if need be.
ApplyWatchCommand ==
    /\ drain.pc = "timer" /\ timer.session.hydrated
    /\ \/ /\ CreatedAt[drain.item] < timer.session.at
          /\ drain' = [drain EXCEPT !.pc = "delete"]
          /\ UNCHANGED timer
       \/ /\ CreatedAt[drain.item] >= timer.session.at
          /\ timer' = [timer EXCEPT !.session.at = CreatedAt[drain.item]]
          /\ drain' = [drain EXCEPT !.pc = "persist"]
    /\ UNCHANGED <<native, saves, faults, crashes>>

PersistTimer ==
    /\ drain.pc = "persist"
    /\ \/ /\ timer' = [timer EXCEPT !.stored = timer.session.at]
          /\ drain' = [drain EXCEPT !.pc = "delete"]
          /\ UNCHANGED faults
       \/ Fault /\ drain' = NextItem /\ UNCHANGED timer
    /\ UNCHANGED <<native, saves, crashes>>

\* Mutant: the recording goes first.
DeleteWavFirst(i) ==
    \/ /\ wavs' = wavs \ {i}
       /\ drain' = [drain EXCEPT !.pc = "wav"]
       /\ UNCHANGED <<files, faults>>

\* The queue file goes; then, for a recording, its WAV.
DeleteItem(i) ==
    \/ /\ files' = files \ {i}
       /\ drain' = IF i \in Sounds THEN [drain EXCEPT !.pc = "wav"] ELSE NextItem
       /\ UNCHANGED <<wavs, faults>>
    \/ Fault /\ drain' = NextItem /\ UNCHANGED <<files, wavs>>

DeleteFile ==
    /\ drain.pc = "delete"
    /\ DeleteItem(drain.item)
    /\ UNCHANGED <<drafts, arrived, widget, undone, seen, saves, timer, crashes>>

DeleteWav ==
    /\ drain.pc = "wav"
    /\ drain' = NextItem
    /\ \/ wavs' = wavs \ {drain.item} /\ UNCHANGED faults
       \/ Fault /\ UNCHANGED wavs
    /\ UNCHANGED <<files, drafts, arrived, widget, undone, seen, saves, timer, crashes>>

-----------------------------------------------------------------------------
(* Kills *)

\* The app is killed: what is not on disk is gone, the draft of a recording
\* with its session.
Killed ==
    /\ crashes < MaxCrashes
    /\ crashes' = crashes + 1
    /\ drafts' = {}
    /\ memory' = disk
    /\ row' = NoRow /\ snap' = FALSE /\ failure' = FALSE
    /\ timer' = [timer EXCEPT !.session = Cold]
    /\ drain' = Idle
    /\ UNCHANGED <<wavs, undone, seen, disk, faults>>

Crash == Killed /\ UNCHANGED <<files, arrived, widget>>

\* Mutant: the tap is forgotten before the queue file is written.
SweepKilledEarly(i) ==
    /\ KindOf[i] = "checkoff"
    /\ New(i)
    /\ widget.pending
    /\ Killed
    /\ widget' = [widget EXCEPT !.pending = FALSE]
    /\ UNCHANGED <<files, arrived>>

\* A kill inside sweep, after the queue file or after the tap is forgotten.
SweepKilled(i) ==
    /\ WriteCompletion(i)
    /\ Killed
    /\ \E still \in BOOLEAN :
        widget' = [widget EXCEPT !.pending = still, !.stray = @ \cup {i}]

-----------------------------------------------------------------------------
DrainStep ==
    \/ List \/ EndPass
    \/ \E i \in Items : \/ TakeCorrupt(i) \/ TakeCompletion(i) \/ TakeDefer(i)
                        \/ TakePomodoro(i) \/ TakeText(i)
                        \/ TakeKnownSound(i) \/ TakeNewSound(i)
    \/ Transcribed \/ NotTranscribed
    \/ FlushReturns
    \/ Hydrate \/ ApplyWatchCommand \/ PersistTimer
    \/ DeleteFile \/ DeleteWav

Next ==
    \/ \E i \in Items : \/ Write(i) \/ Record(i) \/ PublishAudio(i) \/ DiscardDraft(i)
                        \/ ExpireAudio(i) \/ Sweep(i) \/ SweepKilled(i)
    \/ Tap \/ Prune
    \/ \E c \in Captures : DeleteCaptured(c)
    \/ DeleteTarget
    \/ RowSaved \/ RowFails \/ SnapshotSaved \/ SnapshotFails
    \/ AskDrain \/ DrainStep
    \/ ListFails \/ \E i \in Items : Refused(i)
    \/ Crash

\* The user comes back to the app, the drain goes on, storage answers.
Fairness ==
    /\ WF_vars(AskDrain) /\ WF_vars(DrainStep)
    /\ WF_vars(RowSaved \/ RowFails) /\ WF_vars(SnapshotSaved \/ SnapshotFails)

Spec == Init /\ [][Next]_vars
FairSpec == Spec /\ Fairness

-----------------------------------------------------------------------------
(* Properties *)

\* The states of the variables above.
TypeOK ==
    /\ files \subseteq arrived /\ arrived \subseteq Items
    /\ wavs \subseteq Sounds /\ drafts \subseteq Sounds
    /\ seen \subseteq arrived /\ undone \subseteq arrived
    /\ widget \in [pending : BOOLEAN, committed : Checkoffs \cup {None},
                   taps : 0..MaxTaps, wish : BOOLEAN, stray : SUBSET Checkoffs]
    /\ memory \in Document /\ disk \in Document
    /\ row \in Rows \cup {NoRow}
    /\ snap \in BOOLEAN /\ failure \in BOOLEAN
    /\ timer \in [session : [hydrated : BOOLEAN, at : Nat], stored : Nat]
    /\ drain \in [pc : {"idle", "list", "next", "transcribe", "replay", "flush",
                        "timer", "persist", "delete", "wav"},
                  item : Items \cup {None}, places : SUBSET Items, commands : SUBSET Items,
                  again : BOOLEAN]
    /\ drain.item = None <=> drain.pc \in {"idle", "list", "next"}
    /\ faults \in 0..MaxFaults /\ crashes \in 0..MaxCrashes

\* What item i asks for is on disk, or has been overtaken by something newer.
Landed(i) ==
    CASE KindOf[i] = "corrupt" -> TRUE
      [] KindOf[i] \in {"text", "audio", "recording"} -> disk.made[i] > 0
      [] KindOf[i] \in {"checkoff", "complete"} -> disk.status # "open"
      [] KindOf[i] = "defer" -> disk.start = i \/ disk.status # "open"
      [] KindOf[i] = "pomodoro" ->
            \/ timer.stored >= CreatedAt[i]
            \/ \E j \in files : KindOf[j] = "pomodoro" /\ CreatedAt[j] > CreatedAt[i]

\* A queue file leaves the queue only when the user takes a check-off back, when
\* its effect is durable, or while the app shows that saving has failed: no kill
\* and no failed save loses a capture or a command in silence.
AckSafe ==
    [][\A i \in files \ files' : i = widget.committed \/ Landed(i) \/ failure]_vars

\* An Android recording becomes one task, whatever is killed or retried, and its
\* task deleted by the user does not come back.
AudioOnce == \A i \in OfKind({"audio"}) : memory.made[i] <= 1

\* A queued recording has its WAV: it can always be transcribed again.
WavKept == \A i \in Sounds : i \in files \cup drafts => i \in wavs

\* Every task made of a capture after the first, as the capture and a number
\* from 2.
Repeats(made) == UNION {{c} \X (2..made[c]) : c \in Captures}

\* Other captures are at least once: a capture is repeated at most once for each
\* kill or failure, never by drains that overlap.
OneCopyPerFault == Cardinality(Repeats(memory.made)) <= faults + crashes

\* Taking a check-off back, by undo or by un-marking, works until the app has
\* read it: the task is completed only for a completion that the app has read and
\* that was not taken back before, whatever is listed, drained or killed meanwhile.
\* The exceptions are the files of which the widget has lost track: a kill inside
\* sweep, an undo that could not delete, or a widget without the task.
UndoHonoured ==
    memory.status = "done" =>
        \E i \in arrived :
            \/ KindOf[i] = "complete"
            \/ KindOf[i] = "checkoff" /\ i \in seen /\ (i \in undone => i \in widget.stray)

\* A check-off that the user has not taken back is a pending tap, a file in the
\* queue, or was read by the app, also when sweep is killed between its writes.
CheckoffKept ==
    widget.wish =>
        \/ widget.pending
        \/ \E i \in Checkoffs \cap (files \cup seen) : i \notin undone

\* Finitely many items having come, the queue gets empty: every file is taken out
\* of it, whatever is killed or fails on the way.
Drained == files # {} ~> files = {}

=============================================================================
