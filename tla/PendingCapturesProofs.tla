----------------------- MODULE PendingCapturesProofs -----------------------
(* The queue of captures loses no item in silence, repeats one only for a    *)
(* failure or a kill, makes one task of an Android recording, keeps what it  *)
(* still has to transcribe and honours an undo, for any queue, any batches   *)
(* and any number of failures and kills.                                     *)
EXTENDS PendingCaptures, FiniteSetTheorems, TLAPS

Pomodoros == OfKind({"pomodoro"})

\* What the native side has written, and what the app has read of it.  The widget
\* knows a queued completion, or has lost track of it.
NativeOK ==
    /\ undone \subseteq Checkoffs
    /\ undone \cap (seen \cup files) \subseteq widget.stray
    /\ (files \cap Checkoffs) \ seen \subseteq widget.stray \cup {widget.committed}
    /\ widget.pending => widget.committed = None
    /\ files \cap drafts = {}
    /\ drafts \subseteq arrived
    /\ widget.committed \in arrived \cup {None}

\* What the drain still has to do was on disk when it was listed; only a
\* check-off can be gone since.
DrainOK ==
    /\ drain.places \subseteq arrived \ drafts
    /\ drain.places \cap Checkoffs \subseteq seen
    /\ drain.commands \subseteq files \cap WatchCommands
    /\ drain.item # None =>
        /\ drain.item \in arrived \ drafts
        /\ drain.item \notin drain.commands
        /\ drain.item \in Checkoffs => drain.item \in seen
    /\ drain.pc = "transcribe" => drain.item \in Sounds
    /\ drain.pc = "wav" => drain.item \in Sounds \ files
    /\ drain.pc \in {"timer", "persist"} => drain.item \in Pomodoros \cap files
    /\ drain.pc \in {"replay", "flush"} => drain.item \notin Pomodoros

\* A completion the user has not taken back before it was read.
Wanted ==
    \E i \in arrived : KindOf[i] = "complete" \/ (KindOf[i] = "checkoff" /\ i \in seen)

DoneOK == "done" \in {memory.status, disk.status, row[1]} => Wanted

OnceOK == \A i \in OfKind({"audio"}) : memory.made[i] <= 1 /\ disk.made[i] <= 1

\* A task that is not open on disk, or in the row in flight, is not open in
\* memory; and with nothing queued and nothing wrong, disk is what memory is.
SavesOK ==
    /\ disk.status # "open" => memory.status # "open"
    /\ row # NoRow /\ row[1] # "open" => memory.status # "open"
    /\ row # NoRow /\ row[1] = "open" => disk.status = "open"
    /\ ~failure /\ ~snap =>
        /\ disk.made = memory.made
        /\ IF row = NoRow THEN disk.status = memory.status /\ disk.start = memory.start
           ELSE row = <<memory.status, memory.start>>

\* What item i asks for is in document d.
Has(d, i) ==
    /\ i \in Captures => d.made[i] > 0
    /\ KindOf[i] \in {"checkoff", "complete"} => d.status # "open"
    /\ KindOf[i] = "defer" => d.start = i \/ d.status # "open"

\* The item at hand is in memory before the flush, and on disk after it.
AppliedOK ==
    /\ drain.pc \in {"replay", "flush", "delete"} => Has(memory, drain.item)
    /\ drain.pc = "delete" /\ drain.item \notin Pomodoros =>
        row = NoRow /\ (failure \/ Has(disk, drain.item))

\* A change of the session that is not stored has its command still queued.
TimerOK ==
    /\ \/ timer.session.at <= timer.stored
       \/ \E j \in files \cap Pomodoros : timer.session.at <= CreatedAt[j]
    /\ drain.pc = "persist" => timer.session.at = CreatedAt[drain.item]
    /\ drain.pc = "delete" /\ drain.item \in Pomodoros =>
        \/ CreatedAt[drain.item] <= timer.stored
        \/ \E j \in files \cap Pomodoros : CreatedAt[drain.item] < CreatedAt[j]

\* The parts of the type invariant.
TypedNative ==
    /\ files \subseteq arrived /\ arrived \subseteq Items
    /\ wavs \subseteq Sounds /\ drafts \subseteq Sounds
    /\ seen \subseteq arrived /\ undone \subseteq arrived
    /\ widget \in [pending : BOOLEAN, committed : Checkoffs \cup {None},
                   taps : 0..MaxTaps, wish : BOOLEAN, stray : SUBSET Checkoffs]

TypedSaves ==
    /\ memory \in Document /\ disk \in Document
    /\ row \in Rows \cup {NoRow}
    /\ snap \in BOOLEAN /\ failure \in BOOLEAN

TypedTimer == timer \in [session : [hydrated : BOOLEAN, at : Nat], stored : Nat]

TypedDrain ==
    /\ drain \in [pc : {"idle", "list", "next", "transcribe", "replay", "flush",
                        "timer", "persist", "delete", "wav"},
                  item : Items \cup {None}, places : SUBSET Items, commands : SUBSET Items,
                  again : BOOLEAN]
    /\ drain.item = None <=> drain.pc \in {"idle", "list", "next"}

TypedCounts == faults \in 0..MaxFaults /\ crashes \in 0..MaxCrashes

IInv ==
    /\ TypedNative /\ TypedSaves /\ TypedTimer /\ TypedDrain /\ TypedCounts
    /\ NativeOK /\ DrainOK /\ DoneOK /\ OnceOK /\ SavesOK
    /\ AppliedOK /\ TimerOK /\ WavKept /\ CheckoffKept

LEMMA TypeParts ==
    TypeOK <=> TypedNative /\ TypedSaves /\ TypedTimer /\ TypedDrain /\ TypedCounts
BY DEF TypeOK, TypedNative, TypedSaves, TypedTimer, TypedDrain, TypedCounts

-----------------------------------------------------------------------------
(* Every step keeps every part. The steps that leave a part's variables     *)
(* alone come first in each proof.                                          *)

\* Whatever fails, the files that are read are files of the queue.
LEMMA Listed ==
    ASSUME List \/ ListFails PROVE \E F \in SUBSET files : ListAs(F)
<1>1. CASE List
  BY <1>1 DEF List
<1>2. CASE ListFails
  BY <1>2 DEF ListFails
<1> QED
  BY <1>1, <1>2

LEMMA TapDoes ==
    ASSUME TypedNative, Tap
    PROVE  /\ widget' \in [pending : BOOLEAN, committed : Checkoffs \cup {None},
                           taps : 0..MaxTaps, wish : BOOLEAN, stray : SUBSET Checkoffs]
           /\ UNCHANGED <<wavs, drafts, arrived, seen, crashes>>
           /\ UNCHANGED faults \/ Fault
           /\ widget'.committed = None
           /\ \/ /\ widget.committed # None /\ UNCHANGED widget.pending
                 /\ ~widget'.wish
                 /\ undone' = TakenBack
                 /\ \/ files' = files \ {widget.committed} /\ UNCHANGED widget.stray
                    \/ /\ widget'.stray = widget.stray \cup {widget.committed}
                       /\ UNCHANGED files
              \/ /\ widget.committed = None /\ UNCHANGED <<files, widget.stray>>
                 /\ \/ widget.pending /\ undone' = TakenBack /\ ~widget'.wish
                    \/ ~widget.pending /\ UNCHANGED undone /\ widget'.pending
<1> DEFINE w == [widget EXCEPT !.taps = @ + 1]
           W == [pending : BOOLEAN, committed : Checkoffs \cup {None},
                 taps : 0..MaxTaps, wish : BOOLEAN, stray : SUBSET Checkoffs]
<1>1. /\ w \in W
      /\ w.committed = widget.committed /\ w.pending = widget.pending
      /\ w.stray = widget.stray
  BY CaptureAssumption DEF TypedNative, Tap
<1>2. UNCHANGED <<wavs, drafts, arrived, seen, crashes>>
  BY DEF Tap
<1>3. \/ widget.committed # None /\ Undo([w EXCEPT !.wish = FALSE])
      \/ /\ widget.committed = None
         /\ widget' = [w EXCEPT !.pending = ~w.pending, !.wish = ~w.pending]
         /\ undone' = IF widget.pending THEN TakenBack ELSE undone
         /\ UNCHANGED <<files, faults>>
  BY DEF Tap
<1> HIDE DEF w
<1>4. CASE widget.committed # None /\ Undo([w EXCEPT !.wish = FALSE])
  <2> DEFINE v == [w EXCEPT !.wish = FALSE]
  <2>1. /\ v \in W /\ ~v.wish
        /\ v.committed = widget.committed /\ v.pending = widget.pending
        /\ v.stray = widget.stray
    BY <1>1
  <2>2. /\ undone' = TakenBack
        /\ \/ /\ files' = files \ {v.committed}
              /\ widget' = [v EXCEPT !.committed = None]
              /\ UNCHANGED faults
           \/ /\ Fault
              /\ widget' = [v EXCEPT !.committed = None, !.stray = v.stray \cup {v.committed}]
              /\ UNCHANGED files
    BY <1>4 DEF Undo
  <2> HIDE DEF v
  <2>3. CASE /\ files' = files \ {v.committed}
             /\ widget' = [v EXCEPT !.committed = None]
             /\ UNCHANGED faults
    BY <1>2, <1>4, <2>1, <2>2, <2>3
  <2>4. CASE /\ Fault
             /\ widget' = [v EXCEPT !.committed = None, !.stray = v.stray \cup {v.committed}]
             /\ UNCHANGED files
    <3>1. v.stray \cup {v.committed} \in SUBSET Checkoffs
      BY <1>4, <2>1
    <3> QED
      BY <1>2, <1>4, <2>1, <2>2, <2>4, <3>1
  <2> QED
    BY <2>2, <2>3, <2>4
<1>5. CASE /\ widget.committed = None
           /\ widget' = [w EXCEPT !.pending = ~w.pending, !.wish = ~w.pending]
           /\ undone' = IF widget.pending THEN TakenBack ELSE undone
           /\ UNCHANGED <<files, faults>>
  <2>1. (~w.pending) \in BOOLEAN
    OBVIOUS
  <2>2. widget' \in W /\ widget'.committed = None /\ UNCHANGED widget.stray
    BY <1>1, <1>5, <2>1
  <2>3. widget'.pending = ~w.pending /\ widget'.wish = ~w.pending
    BY <1>1, <1>5, <2>1
  <2> QED
    BY <1>1, <1>2, <1>5, <2>2, <2>3
<1> QED
  BY <1>3, <1>4, <1>5

\* A refused item is passed over; its file stays.
LEMMA RefusedDoes ==
    ASSUME TypedDrain, NEW i \in Items, Refused(i)
    PROVE  /\ UNCHANGED <<files, wavs, drafts, arrived, widget, undone, seen>>
           /\ UNCHANGED <<memory, disk, row, snap, failure, timer, crashes>>
           /\ Fault
           /\ drain.pc = "next" /\ drain.item = None
           /\ drain'.pc = "next" /\ drain'.item = None
           /\ drain'.places \subseteq drain.places /\ drain'.commands \subseteq drain.commands
           /\ TypedDrain'
<1>1. drain.pc = "next" /\ drain.item = None
  BY DEF Refused, TypedDrain
<1>2. PICK q \in drain.places :
        drain' = [drain EXCEPT !.places = @ \ {q}, !.commands = @ \ {i}]
  BY DEF Refused
<1>3. /\ UNCHANGED <<files, wavs, drafts, arrived, widget, undone, seen>>
      /\ UNCHANGED <<memory, disk, row, snap, failure, timer, crashes>>
      /\ Fault
  BY DEF Refused, native, saves
<1> QED
  BY <1>1, <1>2, <1>3 DEF TypedDrain

LEMMA AddTaskTyped ==
    ASSUME TypedSaves, NEW i \in Captures, AddTask(i)
    PROVE  memory' \in Document /\ snap' \in BOOLEAN
<1>1. CASE Known(i)
  BY <1>1 DEF AddTask, TypedSaves
<1>2. CASE ~Known(i)
  <2>1. [memory.made EXCEPT ![i] = memory.made[i] + 1] \in [Captures -> Nat]
    BY DEF TypedSaves, Document
  <2>2. memory' = [memory EXCEPT !.made = [memory.made EXCEPT ![i] = memory.made[i] + 1]]
    BY <1>2 DEF AddTask
  <2> QED
    BY <1>2, <2>1, <2>2 DEF AddTask, TypedSaves, Document
<1> QED
  BY <1>1, <1>2

LEMMA TakeTyped ==
    ASSUME TypedDrain, NEW i \in Items, NEW p \in {"flush", "timer", "replay", "transcribe"},
           Take(i, p)
    PROVE  TypedDrain'
<1>1. i # None
  BY CaptureAssumption
<1>2. PICK q \in drain.places : drain' = [drain EXCEPT !.pc = p, !.item = i,
                                     !.places = @ \ {q}, !.commands = @ \ {i}]
  BY DEF Take
<1> QED
  BY <1>1, <1>2 DEF TypedDrain

\* An item the drain takes was on disk when it was listed.
LEMMA Taken ==
    ASSUME TypedNative, DrainOK, NEW i, NEW p, Follows(i, p)
    PROVE  i \in arrived \ drafts /\ (i \in Checkoffs => i \in seen)
<1>1. CASE i = p
  BY <1>1 DEF Follows, DrainOK
<1>2. CASE i \in drain.commands
  <2>1. i \in files /\ i \in WatchCommands
    BY <1>2 DEF DrainOK
  <2>2. i \notin Sounds /\ i \notin Checkoffs
    BY <2>1 DEF WatchCommands, Sounds, Checkoffs, OfKind
  <2> QED
    BY <2>1, <2>2 DEF TypedNative
<1> QED
  BY <1>1, <1>2 DEF Follows

LEMMA TypedNativeKept ==
    ASSUME IInv, Next PROVE TypedNative'
<1>1. ASSUME NEW i \in Items, TakeCompletion(i) \/ TakeDefer(i) \/ TakePomodoro(i) \/
   TakeText(i) \/ TakeKnownSound(i) \/ TakeNewSound(i)
      PROVE  UNCHANGED <<files, wavs, drafts, arrived, widget, seen, undone>>
  BY <1>1 DEF TakeCompletion, Take, SaveRow, TakeDefer, TakePomodoro, TakeText, AddTask,
     TakeKnownSound, TakeNewSound, native
<1>2. ASSUME DeleteTarget \/ RowSaved \/ RowFails \/ SnapshotSaved \/ SnapshotFails \/
   AskDrain \/ EndPass \/ Transcribed \/ NotTranscribed \/ FlushReturns \/ Hydrate \/
   ApplyWatchCommand \/ PersistTimer \/ \E c \in Captures : DeleteCaptured(c)
      PROVE  UNCHANGED <<files, wavs, drafts, arrived, widget, seen, undone>>
  BY <1>2 DEF DeleteTarget, RowSaved, RowFails, SnapshotSaved, SnapshotFails, AskDrain,
     EndPass, Transcribed, AddTask, NotTranscribed, FlushReturns, Flushing, Hydrate,
     ApplyWatchCommand, PersistTimer, DeleteCaptured, native
<1>3. UNCHANGED <<files, wavs, drafts, arrived, widget, seen, undone>> => TypedNative'
  BY DEF IInv, TypedNative
<1>4. ASSUME NEW i \in Items, Write(i) PROVE TypedNative'
  BY <1>4 DEF Write, IInv, TypedNative, OfKind, Sounds
<1>5. ASSUME NEW i \in Items, Record(i) PROVE TypedNative'
  BY <1>5 DEF Record, IInv, TypedNative, OfKind, Sounds
<1>6. ASSUME NEW i \in Items, PublishAudio(i) PROVE TypedNative'
  BY <1>6 DEF PublishAudio, IInv, TypedNative, NativeOK
<1>7. ASSUME NEW i \in Items, DiscardDraft(i) PROVE TypedNative'
  BY <1>7 DEF DiscardDraft, IInv, TypedNative
<1>8. ASSUME NEW i \in Items, ExpireAudio(i) PROVE TypedNative'
  BY <1>8 DEF ExpireAudio, Expirable, IInv, TypedNative
<1>9. ASSUME NEW i \in Items, Sweep(i) PROVE TypedNative'
  BY <1>9 DEF Sweep, WriteCompletion, IInv, TypedNative, Checkoffs, OfKind
<1>10. ASSUME NEW i \in Items, SweepKilled(i) PROVE TypedNative'
  <2>1. PICK still \in BOOLEAN :
          widget' = [widget EXCEPT !.pending = still, !.stray = widget.stray \cup {i}]
    BY <1>10 DEF SweepKilled
  <2>2. widget.stray \cup {i} \in SUBSET Checkoffs
    BY <1>10 DEF SweepKilled, WriteCompletion, IInv, TypedNative, Checkoffs, OfKind
  <2> QED
    BY <1>10, <2>1, <2>2 DEF SweepKilled, WriteCompletion, Killed, IInv, TypedNative
<1>11. ASSUME NEW i \in Items, TakeCorrupt(i) PROVE TypedNative'
  BY <1>11 DEF TakeCorrupt, IInv, TypedNative
<1>12. CASE Tap
  BY <1>12, TapDoes DEF IInv, TypedNative, TakenBack
<1>13. CASE Prune
  BY <1>13 DEF Prune, IInv, TypedNative
<1>14. CASE DeleteFile
  BY <1>14 DEF DeleteFile, DeleteItem, IInv, TypedNative
<1>15. CASE DeleteWav
  BY <1>15 DEF DeleteWav, IInv, TypedNative
<1>16. CASE Crash
  BY <1>16 DEF Crash, Killed, IInv, TypedNative
<1>17. ASSUME NEW F \in SUBSET files, ListAs(F) PROVE TypedNative'
  BY <1>17 DEF ListAs, IInv, TypedNative
<1>r. ASSUME NEW i \in Items, Refused(i) PROVE TypedNative'
  BY <1>r, RefusedDoes DEF IInv, TypedNative
<1> QED
  BY <1>r, <1>1, <1>2, <1>3, <1>4, <1>5, <1>6, <1>7, <1>8, <1>9, <1>10, <1>11, <1>12, <1>13,
     <1>14, <1>15, <1>16, <1>17, Listed DEF Next, DrainStep

LEMMA TypedSavesKept ==
    ASSUME IInv, Next PROVE TypedSaves'
<1>1. ASSUME NEW i \in Items, Write(i) \/ Record(i) \/ PublishAudio(i) \/
   DiscardDraft(i) \/ ExpireAudio(i) \/ Sweep(i) \/ TakeCorrupt(i) \/ TakePomodoro(i)
   \/ TakeNewSound(i)
      PROVE  UNCHANGED <<memory, disk, row, snap, failure>>
  BY <1>1 DEF Write, Record, PublishAudio, DiscardDraft, ExpireAudio, Expirable, Sweep,
     WriteCompletion, TakeCorrupt, TakePomodoro, Take, TakeNewSound, saves
<1>2. ASSUME Tap \/ Prune \/ AskDrain \/ EndPass \/ NotTranscribed \/ FlushReturns \/
   Hydrate \/ ApplyWatchCommand \/ PersistTimer \/ DeleteFile \/ DeleteWav
      PROVE  UNCHANGED <<memory, disk, row, snap, failure>>
  BY <1>2 DEF Tap, Prune, AskDrain, EndPass, NotTranscribed, FlushReturns, Flushing,
     Hydrate, ApplyWatchCommand, PersistTimer, DeleteFile, DeleteItem, DeleteWav, saves
<1>3. UNCHANGED <<memory, disk, row, snap, failure>> => TypedSaves'
  BY DEF IInv, TypedSaves
<1>4. ASSUME NEW i \in Items, SweepKilled(i) PROVE TypedSaves'
  BY <1>4 DEF SweepKilled, WriteCompletion, Killed, IInv, TypedSaves
<1>5. ASSUME NEW i \in Items, TakeCompletion(i) PROVE TypedSaves'
  BY <1>5 DEF TakeCompletion, Take, SaveRow, IInv, TypedSaves, Document, Rows
<1>6. ASSUME NEW i \in Items, TakeDefer(i) PROVE TypedSaves'
  BY <1>6 DEF TakeDefer, Take, SaveRow, IInv, TypedSaves, Document, Rows
<1>7. ASSUME NEW i \in Items, TakeText(i) PROVE TypedSaves'
  <2>1. i \in Captures
    BY <1>7 DEF TakeText, Captures, OfKind
  <2> QED
    BY <1>7, <2>1, AddTaskTyped DEF TakeText, IInv, TypedSaves
<1>8. ASSUME NEW i \in Items, TakeKnownSound(i) PROVE TypedSaves'
  BY <1>8 DEF TakeKnownSound, Take, IInv, TypedSaves
<1>9. ASSUME NEW c \in Captures, DeleteCaptured(c) PROVE TypedSaves'
  BY <1>9 DEF DeleteCaptured, IInv, TypedSaves, Document
<1>10. CASE DeleteTarget
  BY <1>10 DEF DeleteTarget, IInv, TypedSaves, Document
<1>11. CASE RowSaved
  BY <1>11 DEF RowSaved, IInv, TypedSaves, Document, Rows
<1>12. CASE RowFails
  BY <1>12 DEF RowFails, IInv, TypedSaves
<1>13. CASE SnapshotSaved
  BY <1>13 DEF SnapshotSaved, IInv, TypedSaves
<1>14. CASE SnapshotFails
  BY <1>14 DEF SnapshotFails, IInv, TypedSaves
<1>15. CASE Transcribed
  <2>1. drain.item \in Captures
    BY <1>15 DEF Transcribed, IInv, DrainOK, Sounds, Captures, OfKind
  <2> QED
    BY <1>15, <2>1, AddTaskTyped DEF Transcribed, IInv, TypedSaves
<1>16. CASE Crash
  BY <1>16 DEF Crash, Killed, IInv, TypedSaves
<1>17. ASSUME NEW F \in SUBSET files, ListAs(F) PROVE UNCHANGED <<memory, disk, row, snap, failure>>
  BY <1>17 DEF ListAs, saves
<1>r. ASSUME NEW i \in Items, Refused(i) PROVE TypedSaves'
  BY <1>r, RefusedDoes DEF IInv, TypedSaves
<1> QED
  BY <1>r, <1>1, <1>2, <1>3, <1>4, <1>5, <1>6, <1>7, <1>8, <1>9, <1>10, <1>11, <1>12, <1>13,
     <1>14, <1>15, <1>16, <1>17, Listed DEF Next, DrainStep

LEMMA TypedTimerKept ==
    ASSUME IInv, Next PROVE TypedTimer'
<1>1. ASSUME NEW i \in Items, Write(i) \/ Record(i) \/ PublishAudio(i) \/
   DiscardDraft(i) \/ ExpireAudio(i) \/ Sweep(i) \/ TakeCorrupt(i) \/
   TakeCompletion(i) \/ TakeDefer(i) \/ TakePomodoro(i) \/ TakeText(i) \/
   TakeKnownSound(i) \/ TakeNewSound(i)
      PROVE  UNCHANGED timer
  BY <1>1 DEF Write, Record, PublishAudio, DiscardDraft, ExpireAudio, Expirable, Sweep,
     WriteCompletion, TakeCorrupt, TakeCompletion, Take, SaveRow, TakeDefer,
     TakePomodoro, TakeText, AddTask, TakeKnownSound, TakeNewSound
<1>2. ASSUME Tap \/ Prune \/ DeleteTarget \/ RowSaved \/ RowFails \/ SnapshotSaved \/
   SnapshotFails \/ AskDrain \/ EndPass \/ Transcribed \/ NotTranscribed \/
   FlushReturns \/ DeleteFile \/ DeleteWav \/ \E c \in Captures : DeleteCaptured(c)
      PROVE  UNCHANGED timer
  BY <1>2 DEF Tap, Prune, DeleteTarget, RowSaved, RowFails, SnapshotSaved,
     SnapshotFails, AskDrain, EndPass, Transcribed, AddTask, NotTranscribed,
     FlushReturns, Flushing, DeleteFile, DeleteItem, DeleteWav, DeleteCaptured
<1>3. UNCHANGED timer => TypedTimer'
  BY DEF IInv, TypedTimer
<1>4. ASSUME NEW i \in Items, SweepKilled(i) PROVE TypedTimer'
  BY <1>4 DEF SweepKilled, WriteCompletion, Killed, Cold, IInv, TypedTimer
<1>5. CASE Hydrate
  <2>1. PICK a \in Nat : timer' = [timer EXCEPT !.session = [hydrated |-> TRUE, at |-> a]]
    BY <1>5 DEF Hydrate, IInv, TypedTimer
  <2> QED
    BY <2>1 DEF IInv, TypedTimer
<1>6. CASE ApplyWatchCommand
  BY <1>6, CaptureAssumption DEF ApplyWatchCommand, IInv, TypedTimer, DrainOK,
     Pomodoros, OfKind
<1>7. CASE PersistTimer
  BY <1>7 DEF PersistTimer, IInv, TypedTimer
<1>8. CASE Crash
  BY <1>8 DEF Crash, Killed, Cold, IInv, TypedTimer
<1>9. ASSUME NEW F \in SUBSET files, ListAs(F) PROVE UNCHANGED timer
  BY <1>9 DEF ListAs
<1>r. ASSUME NEW i \in Items, Refused(i) PROVE TypedTimer'
  BY <1>r, RefusedDoes DEF IInv, TypedTimer
<1> QED
  BY <1>r, <1>1, <1>2, <1>3, <1>4, <1>5, <1>6, <1>7, <1>8, <1>9, Listed DEF Next, DrainStep

LEMMA TypedDrainKept ==
    ASSUME IInv, Next PROVE TypedDrain'
<1>1. ASSUME NEW i \in Items, Write(i) \/ Record(i) \/ PublishAudio(i) \/
   DiscardDraft(i) \/ ExpireAudio(i) \/ Sweep(i)
      PROVE  UNCHANGED drain
  BY <1>1 DEF Write, Record, PublishAudio, DiscardDraft, ExpireAudio, Expirable, Sweep,
     WriteCompletion
<1>2. ASSUME Tap \/ Prune \/ DeleteTarget \/ RowSaved \/ SnapshotSaved \/ Hydrate \/
   \E c \in Captures : DeleteCaptured(c)
      PROVE  UNCHANGED drain
  BY <1>2 DEF Tap, Prune, DeleteTarget, RowSaved, SnapshotSaved, Hydrate, DeleteCaptured
<1>3. UNCHANGED drain => TypedDrain'
  BY DEF IInv, TypedDrain
<1>4. ASSUME NEW i \in Items, SweepKilled(i) PROVE TypedDrain'
  BY <1>4 DEF SweepKilled, WriteCompletion, Killed, Idle, IInv, TypedDrain
<1>5. ASSUME NEW i \in Items, TakeCorrupt(i) PROVE TypedDrain'
  BY <1>5 DEF TakeCorrupt, IInv, TypedDrain
<1>6. ASSUME NEW i \in Items, TakeCompletion(i) PROVE TypedDrain'
  BY <1>6, TakeTyped DEF TakeCompletion, IInv
<1>7. ASSUME NEW i \in Items, TakeDefer(i) PROVE TypedDrain'
  BY <1>7, TakeTyped DEF TakeDefer, IInv
<1>8. ASSUME NEW i \in Items, TakePomodoro(i) PROVE TypedDrain'
  BY <1>8, TakeTyped DEF TakePomodoro, IInv
<1>9. ASSUME NEW i \in Items, TakeText(i) PROVE TypedDrain'
  BY <1>9, TakeTyped DEF TakeText, IInv
<1>10. ASSUME NEW i \in Items, TakeKnownSound(i) PROVE TypedDrain'
  <2>1. Take(i, "replay") \/ Take(i, "flush")
    BY <1>10 DEF TakeKnownSound
  <2> QED
    BY <2>1, TakeTyped DEF IInv
<1>11. ASSUME NEW i \in Items, TakeNewSound(i) PROVE TypedDrain'
  BY <1>11, TakeTyped DEF TakeNewSound, IInv
<1>12. CASE RowFails
  BY <1>12 DEF RowFails, NextItem, IInv, TypedDrain
<1>13. CASE SnapshotFails
  BY <1>13 DEF SnapshotFails, NextItem, IInv, TypedDrain
<1>14. CASE AskDrain
  BY <1>14 DEF AskDrain, IInv, TypedDrain
<1>15. CASE EndPass
  BY <1>15 DEF EndPass, IInv, TypedDrain
<1>16. CASE Transcribed
  BY <1>16 DEF Transcribed, AddTask, IInv, TypedDrain
<1>17. CASE NotTranscribed
  BY <1>17 DEF NotTranscribed, NextItem, IInv, TypedDrain
<1>18. CASE FlushReturns
  BY <1>18 DEF FlushReturns, Flushing, IInv, TypedDrain
<1>19. CASE ApplyWatchCommand
  BY <1>19 DEF ApplyWatchCommand, IInv, TypedDrain
<1>20. CASE PersistTimer
  BY <1>20 DEF PersistTimer, NextItem, IInv, TypedDrain
<1>21. CASE DeleteFile
  <2>1. drain' = NextItem \/ drain' = [drain EXCEPT !.pc = "wav"]
    BY <1>21 DEF DeleteFile, DeleteItem
  <2>2. drain.item # None
    BY <1>21 DEF DeleteFile, IInv, TypedDrain
  <2> QED
    BY <2>1, <2>2 DEF NextItem, IInv, TypedDrain
<1>22. CASE DeleteWav
  BY <1>22 DEF DeleteWav, NextItem, IInv, TypedDrain
<1>23. CASE Crash
  BY <1>23 DEF Crash, Killed, Idle, IInv, TypedDrain
<1>24. ASSUME NEW F \in SUBSET files, ListAs(F) PROVE TypedDrain'
  BY <1>24 DEF ListAs, IInv, TypedDrain, TypedNative
<1>r. ASSUME NEW i \in Items, Refused(i) PROVE TypedDrain'
  BY <1>r, RefusedDoes DEF IInv
<1> QED
  BY <1>r, <1>1, <1>2, <1>3, <1>4, <1>5, <1>6, <1>7, <1>8, <1>9, <1>10, <1>11, <1>12, <1>13,
     <1>14, <1>15, <1>16, <1>17, <1>18, <1>19, <1>20, <1>21, <1>22, <1>23, <1>24, Listed
     DEF Next, DrainStep

LEMMA TypedCountsKept ==
    ASSUME IInv, Next PROVE TypedCounts'
<1>1. ASSUME NEW i \in Items, Write(i) \/ Record(i) \/ PublishAudio(i) \/
   DiscardDraft(i) \/ ExpireAudio(i) \/ Sweep(i) \/ TakeCompletion(i) \/ TakeDefer(i)
   \/ TakePomodoro(i) \/ TakeText(i) \/ TakeKnownSound(i) \/ TakeNewSound(i)
      PROVE  UNCHANGED <<faults, crashes>>
  BY <1>1 DEF Write, Record, PublishAudio, DiscardDraft, ExpireAudio, Expirable, Sweep,
     WriteCompletion, TakeCompletion, Take, SaveRow, TakeDefer, TakePomodoro, TakeText,
     AddTask, TakeKnownSound, TakeNewSound
<1>2. ASSUME Prune \/ DeleteTarget \/ RowSaved \/ SnapshotSaved \/ AskDrain \/
   EndPass \/ Transcribed \/ FlushReturns \/ ApplyWatchCommand \/ \E c \in Captures :
   DeleteCaptured(c)
      PROVE  UNCHANGED <<faults, crashes>>
  BY <1>2 DEF Prune, DeleteTarget, RowSaved, SnapshotSaved, AskDrain, EndPass,
     Transcribed, AddTask, FlushReturns, Flushing, ApplyWatchCommand, DeleteCaptured
<1>3. UNCHANGED <<faults, crashes>> => TypedCounts'
  BY DEF IInv, TypedCounts
<1>4. ASSUME NEW i \in Items, SweepKilled(i) PROVE TypedCounts'
  BY <1>4, CaptureAssumption DEF SweepKilled, WriteCompletion, Killed, IInv, TypedCounts
<1>5. ASSUME NEW i \in Items, TakeCorrupt(i) PROVE TypedCounts'
  BY <1>5, CaptureAssumption DEF TakeCorrupt, Fault, IInv, TypedCounts
<1>6. CASE RowFails
  BY <1>6, CaptureAssumption DEF RowFails, Fault, IInv, TypedCounts
<1>7. CASE SnapshotFails
  BY <1>7, CaptureAssumption DEF SnapshotFails, Fault, IInv, TypedCounts
<1>8. CASE NotTranscribed
  BY <1>8, CaptureAssumption DEF NotTranscribed, Fault, IInv, TypedCounts
<1>9. CASE Hydrate
  BY <1>9, CaptureAssumption DEF Hydrate, Fault, IInv, TypedCounts
<1>10. CASE PersistTimer
  BY <1>10, CaptureAssumption DEF PersistTimer, Fault, IInv, TypedCounts
<1>11. CASE DeleteFile
  BY <1>11, CaptureAssumption DEF DeleteFile, DeleteItem, Fault, IInv, TypedCounts
<1>12. CASE DeleteWav
  BY <1>12, CaptureAssumption DEF DeleteWav, Fault, IInv, TypedCounts
<1>13. CASE Crash
  BY <1>13, CaptureAssumption DEF Crash, Killed, IInv, TypedCounts
<1>14. CASE List \/ ListFails
  <2>1. UNCHANGED crashes
    BY <1>14, Listed DEF ListAs
  <2>2. UNCHANGED faults \/ Fault
    BY <1>14 DEF List, ListFails
  <2> QED
    BY <2>1, <2>2, CaptureAssumption DEF Fault, IInv, TypedCounts
<1>p. CASE Tap
  BY <1>p, TapDoes, CaptureAssumption DEF Fault, IInv, TypedCounts
<1>r. ASSUME NEW i \in Items, Refused(i) PROVE TypedCounts'
  BY <1>r, RefusedDoes, CaptureAssumption DEF Fault, IInv, TypedCounts
<1> QED
  BY <1>p, <1>r, <1>1, <1>2, <1>3, <1>4, <1>5, <1>6, <1>7, <1>8, <1>9, <1>10, <1>11, <1>12, <1>13,
     <1>14 DEF Next, DrainStep

LEMMA NativeOKKept ==
    ASSUME IInv, Next PROVE NativeOK'
<1>1. ASSUME NEW i \in Items, ExpireAudio(i) \/ TakeCompletion(i) \/ TakeDefer(i) \/
   TakePomodoro(i) \/ TakeText(i) \/ TakeKnownSound(i) \/ TakeNewSound(i)
      PROVE  UNCHANGED <<undone, seen, files, drafts, arrived, widget>>
  BY <1>1 DEF ExpireAudio, Expirable, TakeCompletion, Take, SaveRow, TakeDefer,
     TakePomodoro, TakeText, AddTask, TakeKnownSound, TakeNewSound, native
<1>2. ASSUME DeleteTarget \/ RowSaved \/ RowFails \/ SnapshotSaved \/ SnapshotFails \/
   AskDrain \/ EndPass \/ Transcribed \/ NotTranscribed \/ FlushReturns \/ Hydrate \/
   ApplyWatchCommand \/ PersistTimer \/ DeleteWav \/ \E c \in Captures :
   DeleteCaptured(c)
      PROVE  UNCHANGED <<undone, seen, files, drafts, arrived, widget>>
  BY <1>2 DEF DeleteTarget, RowSaved, RowFails, SnapshotSaved, SnapshotFails, AskDrain,
     EndPass, Transcribed, AddTask, NotTranscribed, FlushReturns, Flushing, Hydrate,
     ApplyWatchCommand, PersistTimer, DeleteWav, DeleteCaptured, native
<1>3. UNCHANGED <<undone, seen, files, drafts, arrived, widget>> => NativeOK'
  BY DEF IInv, NativeOK
<1>4. ASSUME NEW i \in Items, Write(i) PROVE NativeOK'
  BY <1>4 DEF Write, New, IInv, NativeOK, OfKind, Checkoffs
<1>5. ASSUME NEW i \in Items, Record(i) PROVE NativeOK'
  BY <1>5 DEF Record, New, IInv, TypedNative, NativeOK
<1>6. ASSUME NEW i \in Items, PublishAudio(i) PROVE NativeOK'
  BY <1>6 DEF PublishAudio, IInv, TypedNative, NativeOK, OfKind, Checkoffs, Sounds
<1>7. ASSUME NEW i \in Items, DiscardDraft(i) PROVE NativeOK'
  BY <1>7 DEF DiscardDraft, IInv, NativeOK
<1>8. ASSUME NEW i \in Items, Sweep(i) PROVE NativeOK'
  <2>1. /\ i \notin arrived /\ files' = files \cup {i} /\ arrived' = arrived \cup {i}
        /\ widget.committed = None /\ UNCHANGED <<undone, seen, drafts>>
    BY <1>8 DEF Sweep, WriteCompletion, New, IInv, NativeOK
  <2>2. ~widget'.pending /\ widget'.committed = i /\ UNCHANGED widget.stray
    BY <1>8 DEF Sweep, IInv, TypedNative
  <2>3. None \notin files
    BY CaptureAssumption DEF IInv, TypedNative
  <2> QED
    BY <2>1, <2>2, <2>3 DEF IInv, TypedNative, NativeOK
<1>9. ASSUME NEW i \in Items, SweepKilled(i) PROVE NativeOK'
  <2>1. /\ i \notin arrived /\ files' = files \cup {i} /\ arrived' = arrived \cup {i}
        /\ widget.committed = None /\ UNCHANGED <<undone, seen>> /\ drafts' = {}
    BY <1>9 DEF SweepKilled, WriteCompletion, New, Killed, IInv, NativeOK
  <2>2. widget'.committed = None /\ widget'.stray = widget.stray \cup {i}
    BY <1>9, <2>1 DEF SweepKilled, IInv, TypedNative
  <2> QED
    BY <2>1, <2>2 DEF IInv, TypedNative, NativeOK
<1>10. ASSUME NEW i \in Items, TakeCorrupt(i) PROVE NativeOK'
  BY <1>10 DEF TakeCorrupt, IInv, NativeOK
<1>11. CASE Tap
  <2>1. None \notin files
    BY CaptureAssumption DEF IInv, TypedNative
  <2> QED
    BY <1>11, <2>1, TapDoes DEF IInv, TypedNative, NativeOK, TakenBack
<1>12. CASE Prune
  BY <1>12 DEF Prune, IInv, NativeOK
<1>13. CASE DeleteFile
  BY <1>13 DEF DeleteFile, DeleteItem, IInv, NativeOK
<1>14. CASE Crash
  BY <1>14 DEF Crash, Killed, IInv, NativeOK
<1>15. ASSUME NEW F \in SUBSET files, ListAs(F) PROVE NativeOK'
  BY <1>15 DEF ListAs, IInv, NativeOK
<1>r. ASSUME NEW i \in Items, Refused(i) PROVE NativeOK'
  BY <1>r, RefusedDoes DEF IInv, NativeOK
<1> QED
  BY <1>r, <1>1, <1>2, <1>3, <1>4, <1>5, <1>6, <1>7, <1>8, <1>9, <1>10, <1>11, <1>12, <1>13,
     <1>14, <1>15, Listed DEF Next, DrainStep

LEMMA DrainOKKept ==
    ASSUME IInv, Next PROVE DrainOK'
<1>1. ASSUME NEW i \in Items, ExpireAudio(i)
      PROVE  UNCHANGED <<drain, arrived, drafts, seen, files>>
  BY <1>1 DEF ExpireAudio, Expirable
<1>2. ASSUME Prune \/ DeleteTarget \/ RowSaved \/ SnapshotSaved \/ Hydrate \/ \E c \in
   Captures : DeleteCaptured(c)
      PROVE  UNCHANGED <<drain, arrived, drafts, seen, files>>
  BY <1>2 DEF Prune, DeleteTarget, RowSaved, SnapshotSaved, Hydrate, DeleteCaptured,
     native
<1>3. UNCHANGED <<drain, arrived, drafts, seen, files>> => DrainOK'
  BY DEF IInv, DrainOK
<1>4. ASSUME NEW i \in Items, Write(i) PROVE DrainOK'
  BY <1>4, CaptureAssumption DEF Write, New, IInv, DrainOK
<1>5. ASSUME NEW i \in Items, Record(i) PROVE DrainOK'
  BY <1>5 DEF Record, New, IInv, DrainOK
<1>6. ASSUME NEW i \in Items, PublishAudio(i) PROVE DrainOK'
  BY <1>6, CaptureAssumption DEF PublishAudio, IInv, DrainOK
<1>7. ASSUME NEW i \in Items, DiscardDraft(i) PROVE DrainOK'
  BY <1>7 DEF DiscardDraft, IInv, DrainOK
<1>8. ASSUME NEW i \in Items, Sweep(i) PROVE DrainOK'
  BY <1>8 DEF Sweep, WriteCompletion, IInv, DrainOK, OfKind, Sounds
<1>9. ASSUME NEW i \in Items, SweepKilled(i) PROVE DrainOK'
  BY <1>9 DEF SweepKilled, WriteCompletion, Killed, Idle, IInv, DrainOK
<1>10. ASSUME NEW i \in Items, TakeCorrupt(i) PROVE DrainOK'
  BY <1>10 DEF TakeCorrupt, IInv, DrainOK, OfKind, WatchCommands
<1>11. ASSUME NEW i \in Items, TakeCompletion(i) PROVE DrainOK'
  BY <1>11 DEF TakeCompletion, Take, Follows, SaveRow, native, IInv, TypedNative,
     DrainOK, OfKind, Checkoffs, Pomodoros, WatchCommands, Sounds
<1>12. ASSUME NEW i \in Items, TakeDefer(i) PROVE DrainOK'
  BY <1>12 DEF TakeDefer, Take, Follows, SaveRow, native, IInv, TypedNative, DrainOK,
     OfKind, Checkoffs, Pomodoros, Sounds
<1>13. ASSUME NEW i \in Items, TakePomodoro(i) PROVE DrainOK'
  BY <1>13 DEF TakePomodoro, Take, Follows, native, IInv, TypedNative, DrainOK, OfKind,
     Checkoffs, Pomodoros, WatchCommands, Sounds
<1>14. ASSUME NEW i \in Items, TakeText(i) PROVE DrainOK'
  BY <1>14 DEF TakeText, Take, Follows, AddTask, native, IInv, DrainOK, OfKind,
     Pomodoros, WatchCommands
<1>15. ASSUME NEW i \in Items, TakeKnownSound(i) PROVE DrainOK'
  BY <1>15 DEF TakeKnownSound, Take, Follows, native, IInv, DrainOK, OfKind, Pomodoros,
     WatchCommands
<1>16. ASSUME NEW i \in Items, TakeNewSound(i) PROVE DrainOK'
  BY <1>16 DEF TakeNewSound, Take, Follows, native, IInv, DrainOK, OfKind,
     WatchCommands, Sounds
<1>17. CASE Tap
  <2>1. /\ UNCHANGED <<arrived, drafts, seen>>
        /\ files' \subseteq files /\ files \ {widget.committed} \subseteq files'
    BY <1>17, TapDoes DEF IInv
  <2>2. widget.committed \notin WatchCommands /\ widget.committed \notin Pomodoros
    BY CaptureAssumption DEF IInv, TypedNative, Checkoffs, WatchCommands, Pomodoros, OfKind
  <2>3. UNCHANGED <<drain, timer>>
    BY <1>17 DEF Tap
  <2> QED
    BY <2>1, <2>2, <2>3 DEF IInv, DrainOK
<1>18. CASE RowFails
  BY <1>18 DEF RowFails, NextItem, native, IInv, DrainOK
<1>19. CASE SnapshotFails
  BY <1>19 DEF SnapshotFails, NextItem, native, IInv, TypedDrain, DrainOK
<1>20. CASE AskDrain
  BY <1>20 DEF AskDrain, native, IInv, DrainOK
<1>21. CASE EndPass
  BY <1>21 DEF EndPass, IInv, TypedDrain, DrainOK
<1>22. CASE Transcribed
  BY <1>22 DEF Transcribed, AddTask, native, IInv, DrainOK, OfKind, Pomodoros, Sounds
<1>23. CASE NotTranscribed
  BY <1>23 DEF NotTranscribed, NextItem, native, IInv, DrainOK
<1>24. CASE FlushReturns
  BY <1>24 DEF FlushReturns, Flushing, native, IInv, DrainOK
<1>25. CASE ApplyWatchCommand
  BY <1>25 DEF ApplyWatchCommand, native, IInv, TypedDrain, DrainOK
<1>26. CASE PersistTimer
  <2>1. CASE timer' = [timer EXCEPT !.stored = timer.session.at] /\ drain' = [drain EXCEPT !.pc = "delete"]
    BY <1>26, <2>1 DEF PersistTimer, native, IInv, DrainOK
  <2>2. CASE drain' = NextItem /\ UNCHANGED timer
    BY <1>26, <2>2 DEF PersistTimer, NextItem, native, IInv, DrainOK
  <2> QED
    BY <1>26, <2>1, <2>2 DEF PersistTimer
<1>27. CASE DeleteFile
  <2>1. CASE /\ files' = files \ {drain.item}
             /\ drain' = IF drain.item \in Sounds THEN [drain EXCEPT !.pc = "wav"] ELSE NextItem
    BY <1>27, <2>1, CaptureAssumption DEF DeleteFile, NextItem, IInv, DrainOK, OfKind,
       WatchCommands
  <2>2. CASE drain' = NextItem /\ UNCHANGED files
    BY <1>27, <2>2 DEF DeleteFile, NextItem, IInv, DrainOK
  <2> QED
    BY <1>27, <2>1, <2>2 DEF DeleteFile, DeleteItem
<1>28. CASE DeleteWav
  BY <1>28 DEF DeleteWav, NextItem, IInv, DrainOK
<1>29. CASE Crash
  BY <1>29 DEF Crash, Killed, Idle, IInv, DrainOK
<1>30. ASSUME NEW F \in SUBSET files, ListAs(F) PROVE DrainOK'
  BY <1>30 DEF ListAs, IInv, TypedNative, TypedDrain, NativeOK, DrainOK, Checkoffs
<1>r. ASSUME NEW i \in Items, Refused(i) PROVE DrainOK'
  BY <1>r, RefusedDoes DEF IInv, DrainOK
<1> QED
  BY <1>r, <1>1, <1>2, <1>3, <1>4, <1>5, <1>6, <1>7, <1>8, <1>9, <1>10, <1>11, <1>12, <1>13,
     <1>14, <1>15, <1>16, <1>17, <1>18, <1>19, <1>20, <1>21, <1>22, <1>23, <1>24, <1>25,
     <1>26, <1>27, <1>28, <1>29, <1>30, Listed DEF Next, DrainStep

LEMMA DoneOKKept ==
    ASSUME IInv, Next PROVE DoneOK'
<1>1. ASSUME NEW i \in Items, PublishAudio(i) \/ DiscardDraft(i) \/ ExpireAudio(i) \/
   TakeCorrupt(i) \/ TakePomodoro(i) \/ TakeKnownSound(i) \/ TakeNewSound(i)
      PROVE  UNCHANGED <<memory, disk, row, arrived, seen>>
  BY <1>1 DEF PublishAudio, DiscardDraft, ExpireAudio, Expirable, TakeCorrupt,
     TakePomodoro, Take, TakeKnownSound, TakeNewSound, native, saves
<1>2. ASSUME Tap \/ Prune \/ SnapshotFails \/ AskDrain \/ EndPass \/ NotTranscribed \/
   FlushReturns \/ Hydrate \/ ApplyWatchCommand \/ PersistTimer \/ DeleteFile \/
   DeleteWav
      PROVE  UNCHANGED <<memory, disk, row, arrived, seen>>
  BY <1>2 DEF Tap, Undo, Prune, SnapshotFails, AskDrain, EndPass, NotTranscribed,
     FlushReturns, Flushing, Hydrate, ApplyWatchCommand, PersistTimer, DeleteFile,
     DeleteItem, DeleteWav, native, saves
<1>3. UNCHANGED <<memory, disk, row, arrived, seen>> => DoneOK'
  BY DEF IInv, DoneOK, Wanted
<1>4. ASSUME NEW i \in Items, Write(i) PROVE DoneOK'
  BY <1>4 DEF Write, saves, IInv, DoneOK, Wanted
<1>5. ASSUME NEW i \in Items, Record(i) PROVE DoneOK'
  BY <1>5 DEF Record, saves, IInv, DoneOK, Wanted
<1>6. ASSUME NEW i \in Items, Sweep(i) PROVE DoneOK'
  BY <1>6 DEF Sweep, WriteCompletion, saves, IInv, DoneOK, Wanted
<1>7. ASSUME NEW i \in Items, SweepKilled(i) PROVE DoneOK'
  BY <1>7 DEF SweepKilled, WriteCompletion, Killed, IInv, DoneOK, Wanted, NoRow
<1>8. ASSUME NEW i \in Items, TakeCompletion(i) PROVE DoneOK'
  <2>1. i \in arrived /\ (KindOf[i] = "checkoff" => i \in seen)
    BY <1>8, Taken DEF TakeCompletion, Take, IInv, Checkoffs, OfKind
  <2>2. Wanted'
    BY <1>8, <2>1 DEF TakeCompletion, native, Wanted
  <2> QED
    BY <2>2 DEF DoneOK
<1>9. ASSUME NEW i \in Items, TakeDefer(i) PROVE DoneOK'
  BY <1>9 DEF TakeDefer, Take, SaveRow, native, IInv, TypedSaves, DoneOK, Wanted,
     Document
<1>10. ASSUME NEW i \in Items, TakeText(i) PROVE DoneOK'
  BY <1>10 DEF TakeText, Take, AddTask, native, IInv, TypedSaves, DoneOK, Wanted,
     Document
<1>11. ASSUME NEW c \in Captures, DeleteCaptured(c) PROVE DoneOK'
  BY <1>11 DEF DeleteCaptured, native, IInv, DoneOK, Wanted
<1>12. CASE DeleteTarget
  BY <1>12 DEF DeleteTarget, native, IInv, DoneOK, Wanted
<1>13. CASE RowSaved
  BY <1>13 DEF RowSaved, native, IInv, DoneOK, Wanted, NoRow
<1>14. CASE RowFails
  BY <1>14 DEF RowFails, native, IInv, DoneOK, Wanted, NoRow
<1>15. CASE SnapshotSaved
  BY <1>15 DEF SnapshotSaved, native, IInv, DoneOK, Wanted
<1>16. CASE Transcribed
  BY <1>16 DEF Transcribed, AddTask, native, IInv, TypedSaves, DoneOK, Wanted, Document
<1>17. CASE Crash
  BY <1>17 DEF Crash, Killed, IInv, DoneOK, Wanted, NoRow
<1>18. ASSUME NEW F \in SUBSET files, ListAs(F) PROVE DoneOK'
  BY <1>18 DEF ListAs, saves, IInv, DoneOK, Wanted
<1>r. ASSUME NEW i \in Items, Refused(i) PROVE DoneOK'
  BY <1>r, RefusedDoes DEF IInv, DoneOK, Wanted
<1> QED
  BY <1>r, <1>1, <1>2, <1>3, <1>4, <1>5, <1>6, <1>7, <1>8, <1>9, <1>10, <1>11, <1>12, <1>13,
     <1>14, <1>15, <1>16, <1>17, <1>18, Listed DEF Next, DrainStep

LEMMA OnceOKKept ==
    ASSUME IInv, Next PROVE OnceOK'
<1>1. ASSUME NEW i \in Items, Write(i) \/ Record(i) \/ PublishAudio(i) \/
   DiscardDraft(i) \/ ExpireAudio(i) \/ Sweep(i) \/ TakeCorrupt(i) \/ TakePomodoro(i)
   \/ TakeKnownSound(i) \/ TakeNewSound(i)
      PROVE  UNCHANGED <<memory, disk>>
  BY <1>1 DEF Write, Record, PublishAudio, DiscardDraft, ExpireAudio, Expirable, Sweep,
     WriteCompletion, TakeCorrupt, TakePomodoro, Take, TakeKnownSound, TakeNewSound,
     saves
<1>2. ASSUME Tap \/ Prune \/ RowFails \/ SnapshotFails \/ AskDrain \/ EndPass \/
   NotTranscribed \/ FlushReturns \/ Hydrate \/ ApplyWatchCommand \/ PersistTimer \/
   DeleteFile \/ DeleteWav
      PROVE  UNCHANGED <<memory, disk>>
  BY <1>2 DEF Tap, Prune, RowFails, SnapshotFails, AskDrain, EndPass, NotTranscribed,
     FlushReturns, Flushing, Hydrate, ApplyWatchCommand, PersistTimer, DeleteFile,
     DeleteItem, DeleteWav, saves
<1>3. UNCHANGED <<memory, disk>> => OnceOK'
  BY DEF IInv, OnceOK
<1>4. ASSUME NEW i \in Items, SweepKilled(i) PROVE OnceOK'
  BY <1>4 DEF SweepKilled, WriteCompletion, Killed, IInv, OnceOK
<1>5. ASSUME NEW i \in Items, TakeCompletion(i) PROVE OnceOK'
  BY <1>5 DEF TakeCompletion, Take, SaveRow, IInv, TypedSaves, OnceOK, Document
<1>6. ASSUME NEW i \in Items, TakeDefer(i) PROVE OnceOK'
  BY <1>6 DEF TakeDefer, Take, SaveRow, IInv, TypedSaves, OnceOK, Document
<1>7. ASSUME NEW i \in Items, TakeText(i) PROVE OnceOK'
  BY <1>7 DEF TakeText, Take, AddTask, IInv, TypedSaves, OnceOK, Document, OfKind,
     Captures
<1>8. ASSUME NEW c \in Captures, DeleteCaptured(c) PROVE OnceOK'
  BY <1>8 DEF DeleteCaptured, IInv, OnceOK
<1>9. CASE DeleteTarget
  BY <1>9 DEF DeleteTarget, IInv, OnceOK
<1>10. CASE RowSaved
  BY <1>10 DEF RowSaved, IInv, OnceOK
<1>11. CASE SnapshotSaved
  BY <1>11 DEF SnapshotSaved, IInv, OnceOK
<1>12. CASE Transcribed
  BY <1>12 DEF Transcribed, AddTask, IInv, TypedSaves, OnceOK, Document, OfKind,
     Captures, Known
<1>13. CASE Crash
  BY <1>13 DEF Crash, Killed, IInv, OnceOK
<1>14. ASSUME NEW F \in SUBSET files, ListAs(F) PROVE UNCHANGED <<memory, disk>>
  BY <1>14 DEF ListAs, saves
<1>r. ASSUME NEW i \in Items, Refused(i) PROVE OnceOK'
  BY <1>r, RefusedDoes DEF IInv, OnceOK
<1> QED
  BY <1>r, <1>1, <1>2, <1>3, <1>4, <1>5, <1>6, <1>7, <1>8, <1>9, <1>10, <1>11, <1>12, <1>13,
     <1>14, Listed DEF Next, DrainStep

LEMMA SavesOKKept ==
    ASSUME IInv, Next PROVE SavesOK'
<1>1. ASSUME NEW i \in Items, Write(i) \/ Record(i) \/ PublishAudio(i) \/
   DiscardDraft(i) \/ ExpireAudio(i) \/ Sweep(i) \/ TakeCorrupt(i) \/ TakePomodoro(i)
   \/ TakeNewSound(i)
      PROVE  UNCHANGED <<memory, disk, row, failure, snap>>
  BY <1>1 DEF Write, Record, PublishAudio, DiscardDraft, ExpireAudio, Expirable, Sweep,
     WriteCompletion, TakeCorrupt, TakePomodoro, Take, TakeNewSound, saves
<1>2. ASSUME Tap \/ Prune \/ AskDrain \/ EndPass \/ NotTranscribed \/ FlushReturns \/
   Hydrate \/ ApplyWatchCommand \/ PersistTimer \/ DeleteFile \/ DeleteWav
      PROVE  UNCHANGED <<memory, disk, row, failure, snap>>
  BY <1>2 DEF Tap, Prune, AskDrain, EndPass, NotTranscribed, FlushReturns, Flushing,
     Hydrate, ApplyWatchCommand, PersistTimer, DeleteFile, DeleteItem, DeleteWav, saves
<1>3. UNCHANGED <<memory, disk, row, failure, snap>> => SavesOK'
  BY DEF IInv, SavesOK
<1>4. ASSUME NEW i \in Items, SweepKilled(i) PROVE SavesOK'
  BY <1>4 DEF SweepKilled, WriteCompletion, Killed, IInv, SavesOK
<1>5. ASSUME NEW i \in Items, TakeCompletion(i) PROVE SavesOK'
  BY <1>5 DEF TakeCompletion, Take, SaveRow, IInv, TypedSaves, SavesOK, Document, NoRow
<1>6. ASSUME NEW i \in Items, TakeDefer(i) PROVE SavesOK'
  BY <1>6 DEF TakeDefer, Take, SaveRow, IInv, TypedSaves, SavesOK, Document, NoRow
<1>7. ASSUME NEW i \in Items, TakeText(i) PROVE SavesOK'
  BY <1>7 DEF TakeText, Take, AddTask, IInv, TypedSaves, SavesOK, Document
<1>8. ASSUME NEW i \in Items, TakeKnownSound(i) PROVE SavesOK'
  BY <1>8 DEF TakeKnownSound, Take, IInv, SavesOK
<1>9. ASSUME NEW c \in Captures, DeleteCaptured(c) PROVE SavesOK'
  BY <1>9 DEF DeleteCaptured, IInv, SavesOK
<1>10. CASE DeleteTarget
  BY <1>10 DEF DeleteTarget, IInv, SavesOK
<1>11. CASE RowSaved
  BY <1>11 DEF RowSaved, IInv, SavesOK
<1>12. CASE RowFails
  BY <1>12 DEF RowFails, IInv, SavesOK
<1>13. CASE SnapshotSaved
  BY <1>13 DEF SnapshotSaved, IInv, SavesOK
<1>14. CASE SnapshotFails
  BY <1>14 DEF SnapshotFails, IInv, SavesOK
<1>15. CASE Transcribed
  BY <1>15 DEF Transcribed, AddTask, IInv, TypedSaves, SavesOK, Document
<1>16. CASE Crash
  BY <1>16 DEF Crash, Killed, IInv, SavesOK
<1>17. ASSUME NEW F \in SUBSET files, ListAs(F) PROVE UNCHANGED <<memory, disk, row, failure, snap>>
  BY <1>17 DEF ListAs, saves
<1>r. ASSUME NEW i \in Items, Refused(i) PROVE SavesOK'
  BY <1>r, RefusedDoes DEF IInv, SavesOK
<1> QED
  BY <1>r, <1>1, <1>2, <1>3, <1>4, <1>5, <1>6, <1>7, <1>8, <1>9, <1>10, <1>11, <1>12, <1>13,
     <1>14, <1>15, <1>16, <1>17, Listed DEF Next, DrainStep

LEMMA AppliedOKKept ==
    ASSUME IInv, Next PROVE AppliedOK'
<1>1. ASSUME NEW i \in Items, Write(i) \/ Record(i) \/ PublishAudio(i) \/
   DiscardDraft(i) \/ ExpireAudio(i) \/ Sweep(i)
      PROVE  UNCHANGED <<drain, memory, disk, row, failure>>
  BY <1>1 DEF Write, Record, PublishAudio, DiscardDraft, ExpireAudio, Expirable, Sweep,
     WriteCompletion, saves
<1>2. ASSUME Tap \/ Prune \/ Hydrate
      PROVE  UNCHANGED <<drain, memory, disk, row, failure>>
  BY <1>2 DEF Tap, Prune, Hydrate, saves
<1>3. UNCHANGED <<drain, memory, disk, row, failure>> => AppliedOK'
  BY DEF IInv, AppliedOK
<1>4. ASSUME NEW i \in Items, SweepKilled(i) PROVE AppliedOK'
  BY <1>4 DEF SweepKilled, WriteCompletion, Killed, Idle, IInv, AppliedOK
<1>5. ASSUME NEW i \in Items, TakeCorrupt(i) PROVE AppliedOK'
  BY <1>5 DEF TakeCorrupt, IInv, AppliedOK
<1>6. ASSUME NEW i \in Items, TakeCompletion(i) PROVE AppliedOK'
  BY <1>6 DEF TakeCompletion, Take, SaveRow, IInv, TypedSaves, AppliedOK, Has, Document,
     Captures, OfKind
<1>7. ASSUME NEW i \in Items, TakeDefer(i) PROVE AppliedOK'
  BY <1>7 DEF TakeDefer, Take, SaveRow, IInv, TypedSaves, AppliedOK, Has, Document,
     Captures, OfKind
<1>8. ASSUME NEW i \in Items, TakePomodoro(i) PROVE AppliedOK'
  BY <1>8 DEF TakePomodoro, Take, IInv, AppliedOK
<1>9. ASSUME NEW i \in Items, TakeText(i) PROVE AppliedOK'
  BY <1>9 DEF TakeText, Take, AddTask, IInv, TypedSaves, AppliedOK, Has, Document, Known
<1>10. ASSUME NEW i \in Items, TakeKnownSound(i) PROVE AppliedOK'
  BY <1>10 DEF TakeKnownSound, Take, IInv, AppliedOK, Has, Known
<1>11. ASSUME NEW i \in Items, TakeNewSound(i) PROVE AppliedOK'
  BY <1>11 DEF TakeNewSound, Take, IInv, AppliedOK
<1>12. ASSUME NEW c \in Captures, DeleteCaptured(c) PROVE AppliedOK'
  BY <1>12 DEF DeleteCaptured, IInv, AppliedOK, Has
<1>13. CASE DeleteTarget
  BY <1>13 DEF DeleteTarget, IInv, AppliedOK, Has
<1>14. CASE RowSaved
  BY <1>14 DEF RowSaved, IInv, AppliedOK
<1>15. CASE RowFails
  BY <1>15 DEF RowFails, NextItem, IInv, AppliedOK
<1>16. CASE SnapshotSaved
  BY <1>16 DEF SnapshotSaved, IInv, AppliedOK
<1>17. CASE SnapshotFails
  BY <1>17 DEF SnapshotFails, NextItem, IInv, TypedDrain, AppliedOK
<1>18. CASE AskDrain
  BY <1>18 DEF AskDrain, saves, IInv, AppliedOK
<1>19. CASE EndPass
  BY <1>19 DEF EndPass, IInv, AppliedOK
<1>20. CASE Transcribed
  BY <1>20 DEF Transcribed, AddTask, IInv, TypedSaves, AppliedOK, DrainOK, Has,
     Document, OfKind, Sounds, Known
<1>21. CASE NotTranscribed
  BY <1>21 DEF NotTranscribed, NextItem, IInv, AppliedOK
<1>22. CASE FlushReturns
  BY <1>22 DEF FlushReturns, Flushing, saves, IInv, AppliedOK, SavesOK, Has
<1>23. CASE ApplyWatchCommand
  BY <1>23 DEF ApplyWatchCommand, IInv, TypedDrain, AppliedOK, DrainOK, Has, Captures,
     OfKind, Pomodoros
<1>24. CASE PersistTimer
  <2>1. CASE timer' = [timer EXCEPT !.stored = timer.session.at] /\ drain' = [drain EXCEPT !.pc = "delete"]
    BY <1>24, <2>1 DEF PersistTimer, IInv, AppliedOK, DrainOK, Has, Captures, OfKind,
       Pomodoros
  <2>2. CASE drain' = NextItem /\ UNCHANGED timer
    BY <1>24, <2>2 DEF PersistTimer, NextItem, IInv, AppliedOK
  <2> QED
    BY <1>24, <2>1, <2>2 DEF PersistTimer
<1>25. CASE DeleteFile
  <2>1. CASE /\ files' = files \ {drain.item}
             /\ drain' = IF drain.item \in Sounds THEN [drain EXCEPT !.pc = "wav"] ELSE NextItem
    BY <1>25, <2>1 DEF DeleteFile, NextItem, IInv, AppliedOK
  <2>2. CASE drain' = NextItem /\ UNCHANGED files
    BY <1>25, <2>2 DEF DeleteFile, NextItem, IInv, AppliedOK
  <2> QED
    BY <1>25, <2>1, <2>2 DEF DeleteFile, DeleteItem
<1>26. CASE DeleteWav
  BY <1>26 DEF DeleteWav, NextItem, IInv, AppliedOK
<1>27. CASE Crash
  BY <1>27 DEF Crash, Killed, Idle, IInv, AppliedOK
<1>28. ASSUME NEW F \in SUBSET files, ListAs(F) PROVE AppliedOK'
  BY <1>28 DEF ListAs, IInv, AppliedOK
<1>r. ASSUME NEW i \in Items, Refused(i) PROVE AppliedOK'
  BY <1>r, RefusedDoes DEF IInv, AppliedOK
<1> QED
  BY <1>r, <1>1, <1>2, <1>3, <1>4, <1>5, <1>6, <1>7, <1>8, <1>9, <1>10, <1>11, <1>12, <1>13,
     <1>14, <1>15, <1>16, <1>17, <1>18, <1>19, <1>20, <1>21, <1>22, <1>23, <1>24, <1>25,
     <1>26, <1>27, <1>28, Listed DEF Next, DrainStep

LEMMA TimerOKKept ==
    ASSUME IInv, Next PROVE TimerOK'
<1>1. ASSUME NEW i \in Items, Record(i) \/ DiscardDraft(i) \/ ExpireAudio(i)
      PROVE  UNCHANGED <<timer, drain, files>>
  BY <1>1 DEF Record, DiscardDraft, ExpireAudio, Expirable
<1>2. ASSUME Prune \/ DeleteTarget \/ RowSaved \/ SnapshotSaved \/ \E c \in Captures :
   DeleteCaptured(c)
      PROVE  UNCHANGED <<timer, drain, files>>
  BY <1>2 DEF Prune, DeleteTarget, RowSaved, SnapshotSaved, DeleteCaptured, native
<1>3. UNCHANGED <<timer, drain, files>> => TimerOK'
  BY DEF IInv, TimerOK
<1>4. ASSUME NEW i \in Items, Write(i) PROVE TimerOK'
  BY <1>4 DEF Write, IInv, TimerOK
<1>5. ASSUME NEW i \in Items, PublishAudio(i) PROVE TimerOK'
  BY <1>5 DEF PublishAudio, IInv, TimerOK
<1>6. ASSUME NEW i \in Items, Sweep(i) PROVE TimerOK'
  BY <1>6 DEF Sweep, WriteCompletion, IInv, TimerOK
<1>7. ASSUME NEW i \in Items, SweepKilled(i) PROVE TimerOK'
  BY <1>7 DEF SweepKilled, WriteCompletion, Killed, Cold, Idle, IInv, TypedTimer,
     TimerOK
<1>8. ASSUME NEW i \in Items, TakeCorrupt(i) PROVE TimerOK'
  BY <1>8 DEF TakeCorrupt, IInv, TimerOK, OfKind, Pomodoros
<1>9. ASSUME NEW i \in Items, TakeCompletion(i) PROVE TimerOK'
  BY <1>9 DEF TakeCompletion, Take, SaveRow, native, IInv, TimerOK
<1>10. ASSUME NEW i \in Items, TakeDefer(i) PROVE TimerOK'
  BY <1>10 DEF TakeDefer, Take, SaveRow, native, IInv, TimerOK
<1>11. ASSUME NEW i \in Items, TakePomodoro(i) PROVE TimerOK'
  BY <1>11 DEF TakePomodoro, Take, native, IInv, TimerOK
<1>12. ASSUME NEW i \in Items, TakeText(i) PROVE TimerOK'
  BY <1>12 DEF TakeText, Take, AddTask, native, IInv, TimerOK
<1>13. ASSUME NEW i \in Items, TakeKnownSound(i) PROVE TimerOK'
  BY <1>13 DEF TakeKnownSound, Take, native, IInv, TimerOK
<1>14. ASSUME NEW i \in Items, TakeNewSound(i) PROVE TimerOK'
  BY <1>14 DEF TakeNewSound, Take, native, IInv, TimerOK
<1>15. CASE Tap
  <2>1. /\ UNCHANGED <<arrived, drafts, seen>>
        /\ files' \subseteq files /\ files \ {widget.committed} \subseteq files'
    BY <1>15, TapDoes DEF IInv
  <2>2. widget.committed \notin WatchCommands /\ widget.committed \notin Pomodoros
    BY CaptureAssumption DEF IInv, TypedNative, Checkoffs, WatchCommands, Pomodoros, OfKind
  <2>3. UNCHANGED <<drain, timer>>
    BY <1>15 DEF Tap
  <2> QED
    BY <2>1, <2>2, <2>3 DEF IInv, TimerOK
<1>16. CASE RowFails
  BY <1>16 DEF RowFails, NextItem, native, IInv, TimerOK
<1>17. CASE SnapshotFails
  BY <1>17 DEF SnapshotFails, NextItem, native, IInv, TypedDrain, TimerOK
<1>18. CASE AskDrain
  BY <1>18 DEF AskDrain, native, IInv, TimerOK
<1>19. CASE EndPass
  BY <1>19 DEF EndPass, native, IInv, TimerOK
<1>20. CASE Transcribed
  BY <1>20 DEF Transcribed, AddTask, native, IInv, TimerOK
<1>21. CASE NotTranscribed
  BY <1>21 DEF NotTranscribed, NextItem, native, IInv, TimerOK
<1>22. CASE FlushReturns
  BY <1>22 DEF FlushReturns, Flushing, native, IInv, TimerOK, DrainOK
<1>23. CASE Hydrate
  BY <1>23 DEF Hydrate, IInv, TypedTimer, TimerOK
<1>24. CASE ApplyWatchCommand
  BY <1>24, CaptureAssumption DEF ApplyWatchCommand, native, IInv, TypedTimer,
     TypedDrain, TimerOK, DrainOK, OfKind, Pomodoros
<1>25. CASE PersistTimer
  <2>1. CASE timer' = [timer EXCEPT !.stored = timer.session.at] /\ drain' = [drain EXCEPT !.pc = "delete"]
    BY <1>25, <2>1, CaptureAssumption DEF PersistTimer, IInv, TimerOK, DrainOK, OfKind,
       Pomodoros
  <2>2. CASE drain' = NextItem /\ UNCHANGED timer
    BY <1>25, <2>2 DEF PersistTimer, NextItem, native, IInv, TimerOK
  <2> QED
    BY <1>25, <2>1, <2>2 DEF PersistTimer
<1>26. CASE DeleteFile
  <2>1. CASE /\ files' = files \ {drain.item}
             /\ drain' = IF drain.item \in Sounds THEN [drain EXCEPT !.pc = "wav"] ELSE NextItem
    BY <1>26, <2>1, CaptureAssumption DEF DeleteFile, NextItem, IInv, TypedTimer,
       TimerOK, OfKind, Pomodoros
  <2>2. CASE drain' = NextItem /\ UNCHANGED files
    BY <1>26, <2>2 DEF DeleteFile, NextItem, IInv, TimerOK
  <2> QED
    BY <1>26, <2>1, <2>2 DEF DeleteFile, DeleteItem
<1>27. CASE DeleteWav
  BY <1>27 DEF DeleteWav, NextItem, IInv, TimerOK
<1>28. CASE Crash
  BY <1>28 DEF Crash, Killed, Cold, Idle, IInv, TypedTimer, TimerOK
<1>29. ASSUME NEW F \in SUBSET files, ListAs(F) PROVE TimerOK'
  BY <1>29 DEF ListAs, IInv, TimerOK
<1>r. ASSUME NEW i \in Items, Refused(i) PROVE TimerOK'
  BY <1>r, RefusedDoes DEF IInv, TimerOK
<1> QED
  BY <1>r, <1>1, <1>2, <1>3, <1>4, <1>5, <1>6, <1>7, <1>8, <1>9, <1>10, <1>11, <1>12, <1>13,
     <1>14, <1>15, <1>16, <1>17, <1>18, <1>19, <1>20, <1>21, <1>22, <1>23, <1>24, <1>25,
     <1>26, <1>27, <1>28, <1>29, Listed DEF Next, DrainStep

LEMMA WavKeptKept ==
    ASSUME IInv, Next PROVE WavKept'
<1>1. ASSUME NEW i \in Items, TakeCompletion(i) \/ TakeDefer(i) \/ TakePomodoro(i) \/
   TakeText(i) \/ TakeKnownSound(i) \/ TakeNewSound(i)
      PROVE  UNCHANGED <<files, drafts, wavs>>
  BY <1>1 DEF TakeCompletion, Take, SaveRow, TakeDefer, TakePomodoro, TakeText, AddTask,
     TakeKnownSound, TakeNewSound, native
<1>2. ASSUME Prune \/ DeleteTarget \/ RowSaved \/ RowFails \/ SnapshotSaved \/
   SnapshotFails \/ AskDrain \/ EndPass \/ Transcribed \/ NotTranscribed \/
   FlushReturns \/ Hydrate \/ ApplyWatchCommand \/ PersistTimer \/ \E c \in Captures :
   DeleteCaptured(c)
      PROVE  UNCHANGED <<files, drafts, wavs>>
  BY <1>2 DEF Prune, DeleteTarget, RowSaved, RowFails, SnapshotSaved, SnapshotFails,
     AskDrain, EndPass, Transcribed, AddTask, NotTranscribed, FlushReturns, Flushing,
     Hydrate, ApplyWatchCommand, PersistTimer, DeleteCaptured, native
<1>3. UNCHANGED <<files, drafts, wavs>> => WavKept'
  BY DEF IInv, WavKept
<1>4. ASSUME NEW i \in Items, Write(i) PROVE WavKept'
  BY <1>4 DEF Write, IInv, WavKept, OfKind, Sounds
<1>5. ASSUME NEW i \in Items, Record(i) PROVE WavKept'
  BY <1>5 DEF Record, IInv, WavKept
<1>6. ASSUME NEW i \in Items, PublishAudio(i) PROVE WavKept'
  BY <1>6 DEF PublishAudio, IInv, WavKept
<1>7. ASSUME NEW i \in Items, DiscardDraft(i) PROVE WavKept'
  BY <1>7 DEF DiscardDraft, IInv, WavKept
<1>8. ASSUME NEW i \in Items, ExpireAudio(i) PROVE WavKept'
  BY <1>8 DEF ExpireAudio, Expirable, IInv, WavKept
<1>9. ASSUME NEW i \in Items, Sweep(i) PROVE WavKept'
  BY <1>9 DEF Sweep, WriteCompletion, IInv, WavKept, OfKind, Sounds
<1>10. ASSUME NEW i \in Items, SweepKilled(i) PROVE WavKept'
  BY <1>10 DEF SweepKilled, WriteCompletion, Killed, IInv, WavKept, OfKind, Sounds
<1>11. ASSUME NEW i \in Items, TakeCorrupt(i) PROVE WavKept'
  BY <1>11 DEF TakeCorrupt, IInv, WavKept
<1>12. CASE Tap
  BY <1>12 DEF Tap, Undo, IInv, WavKept
<1>13. CASE DeleteFile
  BY <1>13 DEF DeleteFile, DeleteItem, IInv, WavKept
<1>14. CASE DeleteWav
  BY <1>14, CaptureAssumption DEF DeleteWav, IInv, WavKept, DrainOK, OfKind, Sounds
<1>15. CASE Crash
  BY <1>15 DEF Crash, Killed, IInv, WavKept
<1>16. ASSUME NEW F \in SUBSET files, ListAs(F) PROVE UNCHANGED <<files, drafts, wavs>>
  BY <1>16 DEF ListAs
<1>r. ASSUME NEW i \in Items, Refused(i) PROVE WavKept'
  BY <1>r, RefusedDoes DEF IInv, WavKept
<1> QED
  BY <1>r, <1>1, <1>2, <1>3, <1>4, <1>5, <1>6, <1>7, <1>8, <1>9, <1>10, <1>11, <1>12, <1>13,
     <1>14, <1>15, <1>16, Listed DEF Next, DrainStep

LEMMA CheckoffKeptKept ==
    ASSUME IInv, Next PROVE CheckoffKept'
<1>1. ASSUME NEW i \in Items, Record(i) \/ DiscardDraft(i) \/ ExpireAudio(i) \/
   TakeCompletion(i) \/ TakeDefer(i) \/ TakePomodoro(i) \/ TakeText(i) \/
   TakeKnownSound(i) \/ TakeNewSound(i)
      PROVE  UNCHANGED <<widget, files, seen, undone>>
  BY <1>1 DEF Record, DiscardDraft, ExpireAudio, TakeCompletion, TakeDefer, TakePomodoro,
     TakeText, TakeKnownSound, TakeNewSound, native
<1>2. ASSUME DeleteTarget \/ RowSaved \/ RowFails \/ SnapshotSaved \/ SnapshotFails \/
   AskDrain \/ EndPass \/ Transcribed \/ NotTranscribed \/ FlushReturns \/ Hydrate \/
   ApplyWatchCommand \/ PersistTimer \/ DeleteWav \/ Crash \/ \E c \in Captures :
   DeleteCaptured(c)
      PROVE  UNCHANGED <<widget, files, seen, undone>>
  BY <1>2 DEF DeleteTarget, RowSaved, RowFails, SnapshotSaved, SnapshotFails, AskDrain,
     EndPass, Transcribed, NotTranscribed, FlushReturns, Hydrate, ApplyWatchCommand,
     PersistTimer, DeleteWav, Crash, Killed, DeleteCaptured, native
<1>3. UNCHANGED <<widget, files, seen, undone>> => CheckoffKept'
  BY DEF IInv, CheckoffKept
<1>4. ASSUME NEW i \in Items, Write(i) \/ PublishAudio(i) PROVE CheckoffKept'
  <2>1. UNCHANGED <<widget, seen, undone>> /\ files \subseteq files'
    BY <1>4 DEF Write, PublishAudio
  <2> QED
    BY <2>1 DEF IInv, CheckoffKept
<1>5. ASSUME NEW i \in Items, Sweep(i) \/ SweepKilled(i) PROVE CheckoffKept'
  <2>1. i \in Checkoffs /\ i \notin arrived /\ i \in files' /\ UNCHANGED undone
    BY <1>5 DEF Sweep, SweepKilled, Killed, WriteCompletion, New, Checkoffs, OfKind
  <2>2. i \notin undone'
    BY <2>1 DEF IInv, TypedNative
  <2> QED
    BY <2>1, <2>2 DEF CheckoffKept
<1>6. ASSUME NEW i \in Items, TakeCorrupt(i) PROVE CheckoffKept'
  <2>1. i \notin Checkoffs /\ UNCHANGED <<widget, seen, undone>> /\ files \ {i} \subseteq files'
    BY <1>6 DEF TakeCorrupt, Checkoffs, OfKind
  <2> QED
    BY <2>1 DEF IInv, CheckoffKept
<1>7. CASE Tap
  BY <1>7, TapDoes DEF IInv, CheckoffKept
<1>8. CASE Prune
  <2>1. /\ UNCHANGED <<files, seen, undone>>
        /\ widget'.wish = widget.wish /\ widget'.pending = widget.pending
    BY <1>8 DEF Prune, IInv, TypedNative
  <2> QED
    BY <2>1 DEF IInv, CheckoffKept
<1>9. CASE DeleteFile
  <2>1. /\ UNCHANGED <<widget, seen, undone>> /\ files \ {drain.item} \subseteq files'
        /\ drain.item # None
    BY <1>9 DEF DeleteFile, DeleteItem, IInv, TypedDrain
  <2>2. drain.item \in Checkoffs => drain.item \in seen
    BY <2>1 DEF IInv, DrainOK
  <2> QED
    BY <2>1, <2>2 DEF IInv, CheckoffKept
<1>10. ASSUME NEW F \in SUBSET files, ListAs(F) PROVE CheckoffKept'
  <2>1. UNCHANGED <<widget, files, undone>> /\ seen \subseteq seen'
    BY <1>10 DEF ListAs
  <2> QED
    BY <2>1 DEF IInv, CheckoffKept
<1>r. ASSUME NEW i \in Items, Refused(i) PROVE CheckoffKept'
  BY <1>r, <1>3, RefusedDoes DEF IInv
<1> QED
  BY <1>r, <1>1, <1>2, <1>3, <1>4, <1>5, <1>6, <1>7, <1>8, <1>9, <1>10, Listed
     DEF Next, DrainStep

-----------------------------------------------------------------------------
LEMMA InitIInv == Init => IInv
<1> SUFFICES ASSUME Init PROVE IInv
  OBVIOUS
<1>1. EmptyDocument \in Document /\ \A c \in Captures : EmptyDocument.made[c] = 0
  BY DEF EmptyDocument, Document
<1>2. OfKind({"audio"}) \subseteq Captures
  BY DEF OfKind, Captures
<1>3. TypedNative /\ TypedTimer /\ TypedDrain /\ TypedCounts
  BY CaptureAssumption DEF Init, TypedNative, TypedTimer, TypedDrain, TypedCounts, Cold,
     Idle
<1>4. TypedSaves
  BY <1>1 DEF Init, TypedSaves
<1>5. NativeOK /\ WavKept /\ CheckoffKept
  BY DEF Init, NativeOK, WavKept, CheckoffKept
<1>6. DrainOK /\ AppliedOK
  BY DEF Init, DrainOK, AppliedOK, Idle
<1>7. TimerOK
  BY DEF Init, TimerOK, Idle, Cold
<1>8. DoneOK /\ SavesOK
  BY DEF Init, DoneOK, SavesOK, EmptyDocument, NoRow
<1>9. OnceOK
  BY <1>1, <1>2 DEF Init, OnceOK
<1> QED
  BY <1>3, <1>4, <1>5, <1>6, <1>7, <1>8, <1>9 DEF IInv

LEMMA NextIInv == IInv /\ [Next]_vars => IInv'
<1> SUFFICES ASSUME IInv, [Next]_vars PROVE IInv'
  OBVIOUS
<1>1. CASE Next
  BY <1>1, TypedNativeKept, TypedSavesKept, TypedTimerKept, TypedDrainKept,
     TypedCountsKept, NativeOKKept, DrainOKKept, DoneOKKept, OnceOKKept, SavesOKKept,
     AppliedOKKept, TimerOKKept, WavKeptKept, CheckoffKeptKept DEF IInv
<1>2. CASE UNCHANGED vars
  BY <1>2 DEF vars, IInv, TypedNative, TypedSaves, TypedTimer, TypedDrain, TypedCounts,
     NativeOK, DrainOK, DoneOK, Wanted, OnceOK, SavesOK, AppliedOK, TimerOK, WavKept,
     CheckoffKept
<1> QED
  BY <1>1, <1>2

LEMMA Invariance == Spec => []IInv
BY InitIInv, NextIInv, PTL DEF Spec

-----------------------------------------------------------------------------
(* The theorems.                                                            *)

\* The files, the documents, the session and the drain keep their types.
THEOREM CapturesTypeCorrect == Spec => []TypeOK
<1>1. IInv => TypeOK
  BY TypeParts DEF IInv
<1> QED
  BY <1>1, Invariance, PTL

\* However often a drain is killed, fails or is asked for, an Android recording
\* becomes one task, also after the user has deleted it.
THEOREM RecordingBecomesOneTask == Spec => []AudioOnce
<1>1. IInv => AudioOnce
  BY DEF IInv, OnceOK, AudioOnce
<1> QED
  BY <1>1, Invariance, PTL

\* A recording that is queued or held by its dialog has its WAV.
THEOREM QueuedRecordingKept == Spec => []WavKept
<1>1. IInv => WavKept
  BY DEF IInv
<1> QED
  BY <1>1, Invariance, PTL

\* A check-off that is taken back before the app has read it completes nothing,
\* unless the widget has lost track of its file: by a kill inside sweep, by a delete
\* that failed, or because the task had left the widget.
THEOREM UndoIsHonoured == Spec => []UndoHonoured
<1>1. IInv => UndoHonoured
  <2> SUFFICES ASSUME IInv, memory.status = "done"
               PROVE  \E i \in arrived :
                        \/ KindOf[i] = "complete"
                        \/ /\ KindOf[i] = "checkoff" /\ i \in seen
                           /\ i \in undone => i \in widget.stray
    BY DEF UndoHonoured
  <2>1. PICK i \in arrived : KindOf[i] = "complete" \/ (KindOf[i] = "checkoff" /\ i \in seen)
    BY DEF IInv, DoneOK, Wanted
  <2>2. i \in undone /\ i \in seen => i \in widget.stray
    BY DEF IInv, NativeOK
  <2> QED
    BY <2>1, <2>2
<1> QED
  BY <1>1, Invariance, PTL

\* No order of taps, sweeps, drains and kills loses a check-off that the user has
\* not taken back before the app has read it.
THEOREM CheckoffsAreKept == Spec => []CheckoffKept
<1>1. IInv => CheckoffKept
  BY DEF IInv
<1> QED
  BY <1>1, Invariance, PTL

\* What the drain is about to delete has landed, or the banner is shown.
LEMMA DeletedHasLanded ==
    ASSUME IInv, drain.pc = "delete" PROVE Landed(drain.item) \/ failure
<1> DEFINE i == drain.item
<1>1. i \in Items /\ KindOf[i] \in Kinds
  BY CaptureAssumption DEF IInv, TypedDrain
<1>2. CASE i \in Pomodoros
  <2>1. CreatedAt[i] \in Nat /\ timer.stored \in Nat /\ \A j \in Items : CreatedAt[j] \in Nat
    BY <1>1, CaptureAssumption DEF IInv, TypedTimer
  <2>2. \/ timer.stored >= CreatedAt[i]
        \/ \E j \in files : KindOf[j] = "pomodoro" /\ CreatedAt[j] > CreatedAt[i]
    BY <1>2, <2>1 DEF IInv, TimerOK, Pomodoros, OfKind
  <2> QED
    BY <1>2, <2>2 DEF Landed, Pomodoros, OfKind
<1>3. CASE i \notin Pomodoros
  <2>1. failure \/ Has(disk, i)
    BY <1>3 DEF IInv, AppliedOK
  <2> QED
    BY <1>1, <1>3, <2>1 DEF Has, Landed, Kinds, Captures, Pomodoros, OfKind
<1> QED
  BY <1>2, <1>3

\* A file leaves the queue only by an undo, with its effect on disk, or while
\* the user is told that saving failed.
THEOREM NothingLostInSilence == Spec => AckSafe
<1> DEFINE Safe == \A i \in files \ files' : i = widget.committed \/ Landed(i) \/ failure
<1>1. ASSUME IInv, Next PROVE Safe
  <2>1. CASE Tap
    BY <1>1, <2>1, TapDoes DEF IInv
  <2>2. CASE DeleteFile
    <3>1. files \ files' \subseteq {drain.item} /\ drain.pc = "delete"
      BY <2>2 DEF DeleteFile, DeleteItem
    <3> QED
      BY <1>1, <3>1, DeletedHasLanded
  <2>3. ASSUME NEW i \in Items, TakeCorrupt(i) PROVE Safe
    <3>1. files \ files' \subseteq {i} /\ KindOf[i] = "corrupt"
      BY <2>3 DEF TakeCorrupt
    <3> QED
      BY <3>1 DEF Landed
  <2>4. ASSUME NEW i \in Items, \/ Write(i) \/ Record(i) \/ PublishAudio(i) \/ DiscardDraft(i)
                                \/ ExpireAudio(i) \/ Sweep(i) \/ SweepKilled(i) \/ TakeCompletion(i)
                                \/ TakeDefer(i) \/ TakePomodoro(i) \/ TakeText(i)
                                \/ TakeKnownSound(i) \/ TakeNewSound(i)
        PROVE  files \subseteq files'
    BY <2>4 DEF Write, Record, PublishAudio, DiscardDraft, ExpireAudio, Sweep,
       SweepKilled, WriteCompletion, TakeCompletion, TakeDefer, TakePomodoro, TakeText,
       TakeKnownSound, TakeNewSound, native
  <2>5. ASSUME \/ Prune \/ DeleteTarget \/ RowSaved \/ RowFails \/ SnapshotSaved \/ SnapshotFails
               \/ AskDrain \/ EndPass \/ Transcribed \/ NotTranscribed \/ FlushReturns \/ Hydrate
               \/ ApplyWatchCommand \/ PersistTimer \/ DeleteWav \/ Crash
               \/ \E c \in Captures : DeleteCaptured(c)
        PROVE  UNCHANGED files
    BY <2>5 DEF Prune, DeleteTarget, RowSaved, RowFails, SnapshotSaved, SnapshotFails,
       AskDrain, EndPass, Transcribed, NotTranscribed, FlushReturns, Hydrate,
       ApplyWatchCommand, PersistTimer, DeleteWav, Crash, DeleteCaptured, native
  <2>6. ASSUME NEW F \in SUBSET files, ListAs(F) PROVE UNCHANGED files
    BY <2>6 DEF ListAs
  <2>7. ASSUME NEW i \in Items, Refused(i) PROVE UNCHANGED files
    BY <2>7, <1>1, RefusedDoes DEF IInv
  <2> QED
    BY <2>7, <1>1, <2>1, <2>2, <2>3, <2>4, <2>5, <2>6, Listed DEF Next, DrainStep
<1>2. IInv /\ [Next]_vars => [Safe]_vars
  BY <1>1
<1> QED
  BY <1>2, Invariance, PTL DEF Spec, AckSafe

-----------------------------------------------------------------------------
(* Repeats.                                                                 *)

\* The item whose task has been made, or found, and whose file is still there.
AtHand == IF drain.pc \in {"replay", "flush", "delete"} THEN {drain.item} ELSE {}

\* The tasks that will have been made of each capture once its file, if the
\* queue still holds it, is drained.
Owed == [c \in Captures |-> IF c \in files \ AtHand THEN memory.made[c] + 1 ELSE memory.made[c]]

\* A capture in the drain's list, or taken from it, is still in the queue.
QueuedOK ==
    /\ drain.places \cap Captures \subseteq files \ {drain.item}
    /\ drain.item \in Captures /\ drain.pc # "wav" => drain.item \in files

\* Only a queued capture has tasks, and none more on disk than in memory.
MadeOK ==
    \A c \in Captures :
        /\ disk.made[c] <= memory.made[c]
        /\ memory.made[c] > 0 => c \in arrived \ drafts

\* Counting what is owed, each repetition has its failure or kill.
OwedOK ==
    /\ IsFiniteSet(Repeats(Owed))
    /\ Cardinality(Repeats(Owed)) <= faults + crashes

CopyInv == QueuedOK /\ MadeOK /\ OwedOK

\* A text or a recording that the drain takes is the one listed at its own place.
LEMMA TakesCapture ==
    ASSUME IInv, QueuedOK, NEW i \in Captures, NEW q, Take(i, q)
    PROVE  /\ i \in files
           /\ drain' = [drain EXCEPT !.pc = q, !.item = i, !.places = @ \ {i}, !.commands = @ \ {i}]
           /\ drain.pc = "next" /\ drain.item = None
<1>1. PICK p \in drain.places :
        /\ Follows(i, p)
        /\ drain' = [drain EXCEPT !.pc = q, !.item = i, !.places = @ \ {p}, !.commands = @ \ {i}]
  BY DEF Take
<1>2. i \notin drain.commands
  BY DEF IInv, DrainOK, WatchCommands, Captures, OfKind
<1>3. i = p
  BY <1>1, <1>2 DEF Follows
<1> QED
  BY <1>1, <1>3 DEF QueuedOK, Take, IInv, TypedDrain

LEMMA QueuedOKKept ==
    ASSUME IInv, QueuedOK, Next PROVE QueuedOK'
<1>0. /\ drain.places \subseteq Items /\ None \notin Items
      /\ Captures \subseteq Items /\ None \notin Captures
      /\ Captures \cap Checkoffs = {} /\ Captures \cap Pomodoros = {}
  BY CaptureAssumption DEF IInv, TypedDrain, Captures, Checkoffs, Pomodoros, OfKind
<1>t. ASSUME NEW i \in Captures, NEW q \in {"flush", "replay", "transcribe"}, Take(i, q),
             UNCHANGED files
      PROVE  QueuedOK'
  <2>1. i \in files /\ drain'.places = drain.places \ {i} /\ drain'.item = i /\ drain'.pc = q
    <3>1. /\ i \in files
          /\ drain' = [drain EXCEPT !.pc = q, !.item = i, !.places = @ \ {i}, !.commands = @ \ {i}]
      BY <1>t, TakesCapture
    <3> QED
      BY <3>1 DEF IInv, TypedDrain
  <2>2. drain.item = None
    BY <1>t, TakesCapture
  <2> QED
    BY <1>0, <1>t, <2>1, <2>2 DEF QueuedOK
<1>u. ASSUME NEW i \in Items \ Captures, NEW q, Take(i, q), UNCHANGED files
      PROVE  QueuedOK'
  <2>1. /\ drain'.places \subseteq drain.places /\ drain'.item = i
        /\ drain.pc = "next"
    BY <1>u DEF Take, IInv, TypedDrain
  <2>2. drain.item = None
    BY <2>1 DEF IInv, TypedDrain
  <2> QED
    BY <1>0, <1>u, <2>1, <2>2 DEF QueuedOK
<1>1. ASSUME NEW i \in Items, Record(i) \/ DiscardDraft(i) \/ ExpireAudio(i)
      PROVE  UNCHANGED <<drain, files>>
  BY <1>1 DEF Record, New, DiscardDraft, ExpireAudio, native, saves
<1>2. ASSUME Prune \/ DeleteTarget \/ RowSaved \/ SnapshotSaved \/ Hydrate \/ \E c \in
   Captures : DeleteCaptured(c)
      PROVE  UNCHANGED <<drain, files>>
  BY <1>2 DEF Prune, DeleteTarget, RowSaved, SnapshotSaved, Hydrate, DeleteCaptured,
     native, saves
<1>3. UNCHANGED <<drain, files>> => QueuedOK'
  BY DEF QueuedOK
<1>4. ASSUME NEW i \in Items, Write(i) PROVE QueuedOK'
  BY <1>4, <1>0 DEF Write, New, native, saves, IInv, TypedNative, TypedDrain, QueuedOK
<1>5. ASSUME NEW i \in Items, PublishAudio(i) PROVE QueuedOK'
  BY <1>5, <1>0 DEF PublishAudio, native, saves, IInv, TypedNative, TypedDrain, QueuedOK
<1>6. ASSUME NEW i \in Items, Sweep(i) PROVE QueuedOK'
  BY <1>6, <1>0 DEF Sweep, WriteCompletion, native, saves, IInv, TypedNative,
     TypedDrain, QueuedOK
<1>7. ASSUME NEW i \in Items, SweepKilled(i) PROVE QueuedOK'
  BY <1>7, <1>0 DEF SweepKilled, WriteCompletion, Killed, Idle, native, saves, IInv,
     TypedNative, TypedDrain, QueuedOK
<1>8. ASSUME NEW i \in Items, TakeCorrupt(i) PROVE QueuedOK'
  BY <1>8, <1>0 DEF TakeCorrupt, native, saves, IInv, TypedNative, TypedDrain, QueuedOK
<1>9. ASSUME NEW i \in Items, TakeCompletion(i) PROVE QueuedOK'
  <2>1. i \notin Captures
    BY <1>9 DEF TakeCompletion, Captures, OfKind
  <2> QED
    BY <1>9, <2>1, <1>u DEF TakeCompletion, native
<1>10. ASSUME NEW i \in Items, TakeDefer(i) PROVE QueuedOK'
  <2>1. i \notin Captures
    BY <1>10 DEF TakeDefer, Captures, OfKind
  <2> QED
    BY <1>10, <2>1, <1>u DEF TakeDefer, native
<1>11. ASSUME NEW i \in Items, TakePomodoro(i) PROVE QueuedOK'
  <2>1. i \notin Captures
    BY <1>11 DEF TakePomodoro, Captures, OfKind
  <2> QED
    BY <1>11, <2>1, <1>u DEF TakePomodoro, native
<1>12. ASSUME NEW i \in Items, TakeText(i) PROVE QueuedOK'
  <2>1. i \in Captures
    BY <1>12 DEF TakeText, Captures, OfKind
  <2> QED
    BY <1>12, <2>1, <1>t DEF TakeText, native
<1>13. ASSUME NEW i \in Items, TakeKnownSound(i) PROVE QueuedOK'
  <2>1. i \in Captures
    BY <1>13 DEF TakeKnownSound, Captures, OfKind
  <2> QED
    BY <1>13, <2>1, <1>t DEF TakeKnownSound, native
<1>14. ASSUME NEW i \in Items, TakeNewSound(i) PROVE QueuedOK'
  <2>1. i \in Captures
    BY <1>14 DEF TakeNewSound, Captures, OfKind
  <2> QED
    BY <1>14, <2>1, <1>t DEF TakeNewSound, native
<1>15. CASE Tap
  <2>1. files' = files \ {widget.committed} \/ UNCHANGED files
    BY <1>15, TapDoes DEF IInv
  <2>2. widget.committed \notin Captures /\ UNCHANGED drain
    BY <1>15, <1>0 DEF Tap, IInv, TypedNative, Checkoffs
  <2> QED
    BY <2>1, <2>2 DEF QueuedOK
<1>16. CASE RowFails
  BY <1>16, <1>0 DEF RowFails, NextItem, native, saves, IInv, TypedNative, TypedDrain,
     QueuedOK
<1>17. CASE SnapshotFails
  BY <1>17, <1>0 DEF SnapshotFails, NextItem, native, saves, IInv, TypedNative,
     TypedDrain, QueuedOK
<1>18. CASE AskDrain
  BY <1>18, <1>0 DEF AskDrain, native, saves, IInv, TypedNative, TypedDrain, QueuedOK
<1>19. CASE EndPass
  BY <1>19, <1>0 DEF EndPass, native, saves, IInv, TypedNative, TypedDrain, QueuedOK
<1>20. CASE Transcribed
  BY <1>20, <1>0 DEF Transcribed, native, saves, IInv, TypedNative, TypedDrain, QueuedOK
<1>21. CASE NotTranscribed
  BY <1>21, <1>0 DEF NotTranscribed, NextItem, native, saves, IInv, TypedNative,
     TypedDrain, QueuedOK
<1>22. CASE FlushReturns
  BY <1>22, <1>0 DEF FlushReturns, Flushing, native, saves, IInv, TypedNative,
     TypedDrain, QueuedOK
<1>23. CASE ApplyWatchCommand
  BY <1>23, <1>0 DEF ApplyWatchCommand, native, saves, IInv, TypedNative, TypedDrain,
     QueuedOK
<1>24. CASE PersistTimer
  BY <1>24, <1>0 DEF PersistTimer, NextItem, native, saves, IInv, TypedNative,
     TypedDrain, QueuedOK
<1>25. CASE DeleteFile
  BY <1>25, <1>0 DEF DeleteFile, DeleteItem, NextItem, native, saves, IInv, TypedNative,
     TypedDrain, QueuedOK
<1>26. CASE DeleteWav
  BY <1>26, <1>0 DEF DeleteWav, NextItem, native, saves, IInv, TypedNative, TypedDrain,
     QueuedOK
<1>27. CASE Crash
  BY <1>27, <1>0 DEF Crash, Killed, Idle, native, saves, IInv, TypedNative, TypedDrain,
     QueuedOK
<1>28. ASSUME NEW F \in SUBSET files, ListAs(F) PROVE QueuedOK'
  BY <1>28, <1>0 DEF ListAs, saves, IInv, TypedNative, TypedDrain, QueuedOK
<1>r. ASSUME NEW i \in Items, Refused(i) PROVE QueuedOK'
  BY <1>r, <1>0, RefusedDoes DEF IInv, QueuedOK
<1> QED
  BY <1>r, <1>1, <1>2, <1>3, <1>4, <1>5, <1>6, <1>7, <1>8, <1>9, <1>10, <1>11, <1>12, <1>13,
     <1>14, <1>15, <1>16, <1>17, <1>18, <1>19, <1>20, <1>21, <1>22, <1>23, <1>24, <1>25,
     <1>26, <1>27, <1>28, Listed DEF Next, DrainStep

\* addTask makes at most one task, of the item at hand only.
LEMMA AddTaskMakes ==
    ASSUME TypedSaves, NEW i \in Captures, AddTask(i)
    PROVE  /\ \A c \in Captures \ {i} : memory'.made[c] = memory.made[c]
           /\ memory'.made[i] \in {memory.made[i], memory.made[i] + 1}
           /\ UNCHANGED memory.deleted
<1>1. CASE Known(i)
  BY <1>1 DEF AddTask
<1>2. CASE ~Known(i)
  <2>1. memory' = [memory EXCEPT !.made = [memory.made EXCEPT ![i] = memory.made[i] + 1]]
    BY <1>2 DEF AddTask
  <2>2. memory'.made = [memory.made EXCEPT ![i] = memory.made[i] + 1] /\ UNCHANGED memory.deleted
    BY <2>1 DEF TypedSaves, Document
  <2> QED
    BY <2>2 DEF TypedSaves, Document
<1> QED
  BY <1>1, <1>2

LEMMA MadeOKKept ==
    ASSUME IInv, QueuedOK, MadeOK, Next PROVE MadeOK'
<1>0. /\ Captures \subseteq Items
      /\ memory \in Document /\ disk \in Document
      /\ \A c \in Captures : memory.made[c] \in Nat /\ disk.made[c] \in Nat
  BY DEF IInv, TypedSaves, Document, Captures, OfKind
<1>a. ASSUME NEW i \in Captures, AddTask(i), i \in files, UNCHANGED <<disk, arrived, drafts>>
      PROVE  MadeOK'
  <2>1. i \in arrived \ drafts
    BY <1>a DEF IInv, TypedNative, NativeOK
  <2>2. /\ \A c \in Captures \ {i} : memory'.made[c] = memory.made[c]
        /\ memory'.made[i] \in {memory.made[i], memory.made[i] + 1}
    BY <1>a, AddTaskMakes DEF IInv
  <2> QED
    BY <1>0, <1>a, <2>1, <2>2 DEF MadeOK
<1>1. ASSUME NEW i \in Items, Write(i) \/ PublishAudio(i) \/ DiscardDraft(i) \/
   ExpireAudio(i) \/ Sweep(i) \/ TakeCorrupt(i) \/ TakePomodoro(i) \/ TakeKnownSound(i)
   \/ TakeNewSound(i)
      PROVE  UNCHANGED <<memory, disk>> /\ arrived \subseteq arrived' /\ drafts' \subseteq drafts
  BY <1>1 DEF Write, New, PublishAudio, DiscardDraft, ExpireAudio, Sweep,
     WriteCompletion, TakeCorrupt, TakePomodoro, Take, TakeKnownSound, TakeNewSound,
     native, saves
<1>2. ASSUME Tap \/ Prune \/ RowFails \/ SnapshotFails \/ AskDrain \/ EndPass \/
   NotTranscribed \/ FlushReturns \/ Hydrate \/ ApplyWatchCommand \/ PersistTimer \/
   DeleteFile \/ DeleteWav \/ \E F \in SUBSET files : ListAs(F)
      PROVE  UNCHANGED <<memory, disk>> /\ arrived \subseteq arrived' /\ drafts' \subseteq drafts
  BY <1>2 DEF Tap, Undo, Prune, RowFails, NextItem, SnapshotFails, AskDrain, EndPass,
     NotTranscribed, FlushReturns, Flushing, Hydrate, ApplyWatchCommand, PersistTimer,
     DeleteFile, DeleteItem, DeleteWav, ListAs, native, saves
<1>3. ASSUME UNCHANGED <<memory, disk>> /\ arrived \subseteq arrived' /\ drafts' \subseteq drafts
      PROVE  MadeOK'
  BY <1>3 DEF MadeOK
<1>4. ASSUME NEW i \in Items, Record(i) PROVE MadeOK'
  <2>1. /\ UNCHANGED <<memory, disk>> /\ i \notin arrived
        /\ arrived' = arrived \cup {i} /\ drafts' = drafts \cup {i}
    BY <1>4 DEF Record, New, saves
  <2> QED
    BY <2>1 DEF MadeOK
<1>5. ASSUME NEW i \in Items, SweepKilled(i) PROVE MadeOK'
  <2>1. memory' = disk /\ UNCHANGED disk /\ drafts' = {} /\ arrived \subseteq arrived'
    BY <1>5 DEF SweepKilled, Killed, WriteCompletion
  <2> QED
    BY <1>0, <2>1 DEF MadeOK
<1>6. ASSUME NEW i \in Items, TakeCompletion(i) PROVE MadeOK'
  <2>1. memory'.made = memory.made /\ UNCHANGED <<disk, arrived, drafts>>
    BY <1>6, <1>0 DEF TakeCompletion, SaveRow, native, Document
  <2> QED
    BY <2>1 DEF MadeOK
<1>7. ASSUME NEW i \in Items, TakeDefer(i) PROVE MadeOK'
  <2>1. memory'.made = memory.made /\ UNCHANGED <<disk, arrived, drafts>>
    BY <1>7, <1>0 DEF TakeDefer, SaveRow, native, Document
  <2> QED
    BY <2>1 DEF MadeOK
<1>8. ASSUME NEW i \in Items, TakeText(i) PROVE MadeOK'
  <2>1. i \in Captures
    BY <1>8 DEF TakeText, Captures, OfKind
  <2>2. i \in files
    BY <1>8, <2>1, TakesCapture DEF TakeText
  <2> QED
    BY <1>8, <2>1, <2>2, <1>a DEF TakeText, native
<1>9. CASE DeleteTarget
  <2>1. memory'.made = memory.made /\ UNCHANGED <<disk, arrived, drafts>>
    BY <1>9, <1>0 DEF DeleteTarget, native, Document
  <2> QED
    BY <1>0, <2>1 DEF MadeOK
<1>10. CASE RowSaved
  <2>1. disk'.made = disk.made /\ UNCHANGED <<memory, arrived, drafts>>
    BY <1>10, <1>0 DEF RowSaved, native, Document
  <2> QED
    BY <1>0, <2>1 DEF MadeOK
<1>11. CASE SnapshotSaved
  <2>1. disk' = memory /\ UNCHANGED <<memory, arrived, drafts>>
    BY <1>11, <1>0 DEF SnapshotSaved, native
  <2> QED
    BY <1>0, <2>1 DEF MadeOK
<1>12. CASE Transcribed
  <2>1. drain.item \in Captures
    BY <1>12 DEF Transcribed, IInv, DrainOK, Sounds, Captures, OfKind
  <2>2. drain.item \in files
    BY <1>12, <2>1 DEF Transcribed, QueuedOK
  <2> QED
    BY <1>12, <2>1, <2>2, <1>a DEF Transcribed, native
<1>13. CASE Crash
  <2>1. memory' = disk /\ UNCHANGED disk /\ drafts' = {} /\ arrived \subseteq arrived'
    BY <1>13 DEF Crash, Killed, WriteCompletion
  <2> QED
    BY <1>0, <2>1 DEF MadeOK
<1>14. ASSUME NEW c \in Captures, DeleteCaptured(c) PROVE MadeOK'
  <2>1. memory'.made = memory.made /\ UNCHANGED <<disk, arrived, drafts>>
    BY <1>14, <1>0 DEF DeleteCaptured, native, Document
  <2> QED
    BY <1>0, <2>1 DEF MadeOK
<1>r. ASSUME NEW i \in Items, Refused(i) PROVE MadeOK'
  BY <1>r, RefusedDoes DEF IInv, MadeOK
<1> QED
  BY <1>r, <1>1, <1>2, <1>3, <1>4, <1>5, <1>6, <1>7, <1>8, <1>9, <1>10, <1>11, <1>12, <1>13,
     <1>14, Listed DEF Next, DrainStep

\* No step takes a failure or a kill back.
LEMMA CountsGrow ==
    ASSUME IInv, Next
    PROVE  /\ faults' \in {faults, faults + 1} /\ crashes' \in {crashes, crashes + 1}
           /\ faults \in Nat /\ crashes \in Nat
<1> DEFINE Grow == faults' \in {faults, faults + 1} /\ crashes' \in {crashes, crashes + 1}
<1>1. ASSUME NEW i \in Items, Write(i) \/ Record(i) \/ PublishAudio(i) \/
   DiscardDraft(i) \/ ExpireAudio(i) \/ Sweep(i) \/ TakeCompletion(i) \/ TakeDefer(i) \/
   TakePomodoro(i) \/ TakeText(i) \/ TakeKnownSound(i) \/ TakeNewSound(i)
      PROVE  UNCHANGED <<faults, crashes>>
  BY <1>1 DEF Write, New, Record, PublishAudio, DiscardDraft, ExpireAudio, Sweep,
     WriteCompletion, TakeCompletion, Take, SaveRow, TakeDefer, TakePomodoro, TakeText,
     TakeKnownSound, TakeNewSound
<1>2. ASSUME Prune \/ DeleteTarget \/ RowSaved \/ SnapshotSaved \/ AskDrain \/
   EndPass \/ Transcribed \/ FlushReturns \/ ApplyWatchCommand \/ \E c \in Captures :
   DeleteCaptured(c)
      PROVE  UNCHANGED <<faults, crashes>>
  BY <1>2 DEF Prune, DeleteTarget, RowSaved, SnapshotSaved, AskDrain,
     EndPass, Transcribed, FlushReturns, Flushing, ApplyWatchCommand, DeleteCaptured
<1>3. UNCHANGED <<faults, crashes>> => Grow
  OBVIOUS
<1>4. ASSUME NEW i \in Items, SweepKilled(i) PROVE Grow
  BY <1>4 DEF SweepKilled, WriteCompletion, Killed, Idle, Fault
<1>5. ASSUME NEW i \in Items, TakeCorrupt(i) PROVE Grow
  BY <1>5 DEF TakeCorrupt, Fault
<1>6. ASSUME RowFails PROVE Grow
  BY <1>6 DEF RowFails, NextItem, Fault
<1>7. ASSUME SnapshotFails PROVE Grow
  BY <1>7 DEF SnapshotFails, NextItem, Fault
<1>8. ASSUME NotTranscribed PROVE Grow
  BY <1>8 DEF NotTranscribed, NextItem, Fault
<1>9. ASSUME Hydrate PROVE Grow
  BY <1>9 DEF Hydrate, Fault
<1>10. ASSUME PersistTimer PROVE Grow
  BY <1>10 DEF PersistTimer, NextItem, Fault
<1>11. ASSUME DeleteFile PROVE Grow
  BY <1>11 DEF DeleteFile, DeleteItem, NextItem, Fault
<1>12. ASSUME DeleteWav PROVE Grow
  BY <1>12 DEF DeleteWav, NextItem, Fault
<1>13. ASSUME Crash PROVE Grow
  BY <1>13 DEF Crash, Killed, Idle, Fault
<1>14. ASSUME List \/ ListFails PROVE Grow
  <2>1. UNCHANGED crashes
    BY <1>14, Listed DEF ListAs
  <2> QED
    BY <1>14, <2>1 DEF List, ListFails, Fault
<1>15. faults \in Nat /\ crashes \in Nat
  BY CaptureAssumption DEF IInv, TypedCounts
<1>p. ASSUME Tap PROVE Grow
  BY <1>p, TapDoes DEF IInv, Fault
<1>r. ASSUME NEW i \in Items, Refused(i) PROVE Grow
  BY <1>r, RefusedDoes DEF IInv, Fault
<1> QED
  BY <1>p, <1>r, <1>1, <1>2, <1>3, <1>4, <1>5, <1>6, <1>7, <1>8, <1>9, <1>10, <1>11, <1>12, <1>13,
     <1>14, <1>15 DEF Next, DrainStep

\* What a step may do to the tasks owed: nothing but to let a new capture in, or
\* to owe one more of the item at hand, for a failure or a kill.
LEMMA OwedMoves ==
    ASSUME IInv, QueuedOK, MadeOK, Next
    PROVE  \/ \A c \in Captures : Owed'[c] <= Owed[c] \/ Owed'[c] <= 1
           \/ /\ faults' + crashes' = faults + crashes + 1
              /\ \E j \in Captures : \A c \in Captures :
                    Owed'[c] <= Owed[c] \/ (c = j /\ Owed'[c] <= Owed[c] + 1)
<1> DEFINE Within == \A c \in Captures : Owed'[c] <= Owed[c] \/ Owed'[c] <= 1
           OneMore == \E j \in Captures : \A c \in Captures :
                         Owed'[c] <= Owed[c] \/ (c = j /\ Owed'[c] <= Owed[c] + 1)
           Goal == Within \/ (faults' + crashes' = faults + crashes + 1 /\ OneMore)
<1>0. /\ Captures \subseteq Items /\ None \notin Captures
      /\ Captures \cap Checkoffs = {} /\ Captures \cap Pomodoros = {}
      /\ memory \in Document /\ disk \in Document
      /\ \A c \in Captures : memory.made[c] \in Nat /\ disk.made[c] \in Nat
      /\ faults \in Nat /\ crashes \in Nat
  BY CaptureAssumption, CountsGrow
     DEF IInv, TypedSaves, Document, Captures, Checkoffs, Pomodoros, OfKind
<1>s. ASSUME memory'.made = memory.made,
             \A c \in Captures : c \in files' \ AtHand' => c \in files \ AtHand
      PROVE  Goal
  <2>1. ASSUME NEW c \in Captures PROVE Owed'[c] <= Owed[c]
    BY <1>0, <1>s DEF Owed
  <2> QED
    BY <2>1
<1>n. ASSUME NEW i, i \in Captures => memory.made[i] = 0, UNCHANGED <<memory, drain>>,
             files' = files \cup {i}
      PROVE  Goal
  <2>1. ASSUME NEW c \in Captures PROVE Owed'[c] <= Owed[c] \/ Owed'[c] <= 1
    <3>1. CASE c = i
      BY <1>0, <1>n, <3>1 DEF Owed
    <3>2. CASE c # i
      BY <1>0, <1>n, <3>2 DEF Owed, AtHand
    <3> QED
      BY <3>1, <3>2
  <2> QED
    BY <2>1
<1>f. ASSUME \A c \in Captures : memory'.made[c] \in Nat /\ memory'.made[c] <= memory.made[c],
             \A c \in Captures : c \in files' => c \in files,
             faults' + crashes' = faults + crashes + 1
      PROVE  Goal
  <2>1. ASSUME NEW c \in Captures, c # drain.item PROVE Owed'[c] <= Owed[c]
    <3>1. c \notin AtHand
      BY <2>1 DEF AtHand
    <3> QED
      BY <1>0, <1>f, <3>1 DEF Owed
  <2>2. ASSUME NEW c \in Captures PROVE Owed'[c] <= Owed[c] + 1
    BY <1>0, <1>f DEF Owed
  <2>3. CASE drain.item \in Captures
    BY <1>f, <2>1, <2>2, <2>3
  <2>4. CASE drain.item \notin Captures
    BY <2>1, <2>4
  <2> QED
    BY <2>3, <2>4
<1>a. ASSUME NEW i \in Captures, AddTask(i), i \in files, AtHand = {}, AtHand' = {i},
             UNCHANGED files
      PROVE  Goal
  <2>1. /\ \A c \in Captures \ {i} : memory'.made[c] = memory.made[c]
        /\ memory'.made[i] \in {memory.made[i], memory.made[i] + 1}
    BY <1>a, AddTaskMakes DEF IInv
  <2>2. ASSUME NEW c \in Captures PROVE Owed'[c] <= Owed[c]
    <3>1. CASE c = i
      BY <1>0, <1>a, <2>1, <3>1 DEF Owed
    <3>2. CASE c # i
      BY <1>0, <1>a, <2>1, <3>2 DEF Owed
    <3> QED
      BY <3>1, <3>2
  <2> QED
    BY <2>2
<1> HIDE DEF Goal
<1>1. ASSUME NEW i \in Items, Record(i) \/ DiscardDraft(i) \/ ExpireAudio(i)
      PROVE  UNCHANGED <<files, memory, drain>>
  BY <1>1 DEF Record, New, DiscardDraft, ExpireAudio, native, saves
<1>2. ASSUME Prune \/ RowSaved \/ SnapshotSaved \/ Hydrate
      PROVE  UNCHANGED <<files, memory, drain>>
  BY <1>2 DEF Prune, RowSaved, SnapshotSaved, Hydrate, native, saves
<1>3. UNCHANGED <<files, memory, drain>> => Goal
  BY <1>s DEF AtHand
<1>4. ASSUME NEW i \in Items, TakePomodoro(i) \/ TakeKnownSound(i) \/ TakeNewSound(i) \/
   TakeCorrupt(i)
      PROVE  UNCHANGED memory /\ files' \ AtHand' \subseteq files \ AtHand
  BY <1>4 DEF TakePomodoro, Take, TakeKnownSound, TakeNewSound, TakeCorrupt, native,
     saves, AtHand, IInv, TypedDrain
<1>5. ASSUME EndPass \/ NotTranscribed \/ FlushReturns \/ AskDrain \/ DeleteWav \/
   ApplyWatchCommand \/ PersistTimer \/ \E F \in SUBSET files : ListAs(F)
      PROVE  UNCHANGED memory /\ files' \ AtHand' \subseteq files \ AtHand
  BY <1>5 DEF EndPass, NotTranscribed, NextItem, FlushReturns, Flushing, AskDrain,
     ListAs, DeleteWav, ApplyWatchCommand, PersistTimer, native, saves, AtHand, IInv,
     TypedDrain
<1>6. ASSUME UNCHANGED memory /\ files' \ AtHand' \subseteq files \ AtHand
      PROVE  Goal
  BY <1>s, <1>6
<1>7. ASSUME NEW i \in Items, Write(i) PROVE Goal
  <2>1. i \in Captures => memory.made[i] = 0
    BY <1>7, <1>0 DEF Write, New, MadeOK
  <2> QED
    BY <1>7, <1>n, <2>1 DEF Write, saves
<1>8. ASSUME NEW i \in Items, PublishAudio(i) PROVE Goal
  <2>1. i \in Captures => memory.made[i] = 0
    BY <1>8, <1>0 DEF PublishAudio, MadeOK
  <2> QED
    BY <1>8, <1>n, <2>1 DEF PublishAudio, saves
<1>9. ASSUME NEW i \in Items, Sweep(i) PROVE Goal
  <2>1. i \notin Captures
    BY <1>9 DEF Sweep, WriteCompletion, Captures, OfKind
  <2> QED
    BY <1>9, <1>n, <2>1 DEF Sweep, WriteCompletion, saves
<1>10. ASSUME NEW i \in Items, SweepKilled(i) PROVE Goal
  <2>1. memory' = disk /\ faults' = faults /\ crashes' = crashes + 1
    BY <1>10 DEF SweepKilled, Killed
  <2>2. \A c \in Captures : c \in files' => c \in files
    BY <1>10 DEF SweepKilled, WriteCompletion, Captures, OfKind
  <2>3. faults' + crashes' = faults + crashes + 1
    BY <1>0, <2>1
  <2>4. \A c \in Captures : memory'.made[c] \in Nat /\ memory'.made[c] <= memory.made[c]
    BY <1>0, <2>1 DEF MadeOK
  <2> QED
    BY <1>f, <2>2, <2>3, <2>4
<1>11. ASSUME NEW i \in Items, TakeCompletion(i) PROVE Goal
  <2>1. memory'.made = memory.made /\ UNCHANGED files
    BY <1>11, <1>0 DEF TakeCompletion, SaveRow, native, Document
  <2>2. AtHand = {}
    BY <1>11 DEF TakeCompletion, Take, AtHand
  <2> QED
    BY <1>s, <2>1, <2>2
<1>12. ASSUME NEW i \in Items, TakeDefer(i) PROVE Goal
  <2>1. memory'.made = memory.made /\ UNCHANGED files
    BY <1>12, <1>0 DEF TakeDefer, SaveRow, native, Document
  <2>2. AtHand = {}
    BY <1>12 DEF TakeDefer, Take, AtHand
  <2> QED
    BY <1>s, <2>1, <2>2
<1>13. ASSUME NEW i \in Items, TakeText(i) PROVE Goal
  <2>1. i \in Captures
    BY <1>13 DEF TakeText, Captures, OfKind
  <2>2. i \in files /\ AtHand = {} /\ AtHand' = {i}
    <3>1. /\ i \in files /\ drain.pc = "next"
          /\ drain' = [drain EXCEPT !.pc = "flush", !.item = i, !.places = drain.places \ {i},
                               !.commands = drain.commands \ {i}]
      BY <1>13, <2>1, TakesCapture DEF TakeText
    <3> QED
      BY <3>1 DEF AtHand, IInv, TypedDrain
  <2> QED
    BY <1>13, <2>1, <2>2, <1>a DEF TakeText, native
<1>14. ASSUME Tap PROVE Goal
  <2>1. files' \subseteq files /\ UNCHANGED <<memory, drain>>
    BY <1>14 DEF Tap, Undo, saves
  <2> QED
    BY <1>s, <2>1 DEF AtHand
<1>15. ASSUME DeleteTarget PROVE Goal
  <2>1. memory'.made = memory.made /\ UNCHANGED <<files, drain>>
    BY <1>15, <1>0 DEF DeleteTarget, native, Document
  <2> QED
    BY <1>0, <1>s, <2>1 DEF AtHand
<1>16. ASSUME RowFails PROVE Goal
  <2>1. UNCHANGED <<files, memory, crashes>> /\ faults' = faults + 1
    BY <1>16 DEF RowFails, Fault, native
  <2>2. faults' + crashes' = faults + crashes + 1
    BY <1>0, <2>1
  <2> QED
    BY <1>0, <1>f, <2>1, <2>2
<1>17. ASSUME SnapshotFails PROVE Goal
  <2>1. UNCHANGED <<files, memory, crashes>> /\ faults' = faults + 1
    BY <1>17 DEF SnapshotFails, Fault, native
  <2>2. faults' + crashes' = faults + crashes + 1
    BY <1>0, <2>1
  <2> QED
    BY <1>0, <1>f, <2>1, <2>2
<1>18. ASSUME Transcribed PROVE Goal
  <2>1. drain.item \in Captures
    BY <1>18 DEF Transcribed, IInv, DrainOK, Sounds, Captures, OfKind
  <2>2. drain.item \in files /\ AtHand = {} /\ AtHand' = {drain.item}
    BY <1>18, <2>1 DEF Transcribed, QueuedOK, AtHand, IInv, TypedDrain
  <2> QED
    BY <1>18, <2>1, <2>2, <1>a DEF Transcribed, native
<1>19. ASSUME DeleteFile PROVE Goal
  <2>1. drain.pc = "delete" /\ UNCHANGED <<memory, crashes>>
    BY <1>19 DEF DeleteFile, saves
  <2>2. CASE files' = files \ {drain.item}
    BY <1>s, <2>1, <2>2 DEF AtHand
  <2>3. CASE Fault /\ UNCHANGED files
    <3>1. faults' + crashes' = faults + crashes + 1
      BY <1>0, <2>1, <2>3 DEF Fault
    <3> QED
      BY <1>0, <1>f, <2>1, <2>3, <3>1
  <2> QED
    BY <1>19, <2>2, <2>3 DEF DeleteFile, DeleteItem
<1>20. ASSUME Crash PROVE Goal
  <2>1. memory' = disk /\ faults' = faults /\ crashes' = crashes + 1
    BY <1>20 DEF Crash, Killed
  <2>2. \A c \in Captures : c \in files' => c \in files
    BY <1>20 DEF Crash, Captures, OfKind
  <2>3. faults' + crashes' = faults + crashes + 1
    BY <1>0, <2>1
  <2>4. \A c \in Captures : memory'.made[c] \in Nat /\ memory'.made[c] <= memory.made[c]
    BY <1>0, <2>1 DEF MadeOK
  <2> QED
    BY <1>f, <2>2, <2>3, <2>4
<1>21. ASSUME NEW c \in Captures, DeleteCaptured(c) PROVE Goal
  <2>1. memory'.made = memory.made /\ UNCHANGED <<files, drain>>
    BY <1>21, <1>0 DEF DeleteCaptured, native, Document
  <2> QED
    BY <1>0, <1>s, <2>1 DEF AtHand
<1>r. ASSUME NEW i \in Items, Refused(i) PROVE Goal
  BY <1>r, <1>6, RefusedDoes DEF IInv, AtHand
<1> QED
  BY <1>r, <1>1, <1>2, <1>3, <1>4, <1>5, <1>6, <1>7, <1>8, <1>9, <1>10, <1>11, <1>12, <1>13,
     <1>14, <1>15, <1>16, <1>17, <1>18, <1>19, <1>20, <1>21, Listed DEF Next, DrainStep, Goal

\* A repetition is a capture and a number from 2 up to the tasks made of it.
LEMMA RepeatsMember ==
    ASSUME NEW f, NEW r
    PROVE  r \in Repeats(f) <=> \E c \in Captures : \E n \in 2..f[c] : r = <<c, n>>
BY DEF Repeats

\* One more task of one capture is one more repetition at most; a first task is
\* none.
LEMMA RepeatsGrow ==
    ASSUME NEW f \in [Captures -> Nat], NEW g \in [Captures -> Nat], NEW j \in Captures,
           \A c \in Captures : g[c] <= f[c] \/ (c = j /\ g[c] <= f[c] + 1)
    PROVE  Repeats(g) \subseteq Repeats(f) \cup {<<j, f[j] + 1>>}
<1> SUFFICES ASSUME NEW r \in Repeats(g)
             PROVE  r \in Repeats(f) \/ r = <<j, f[j] + 1>>
  OBVIOUS
<1>0. PICK c \in Captures : \E n \in 2..g[c] : r = <<c, n>>
  BY RepeatsMember
<1>1. PICK n \in 2..g[c] : r = <<c, n>>
  BY <1>0
<1>2. f[c] \in Nat /\ g[c] \in Nat
  OBVIOUS
<1>3. n \in 2..f[c] \/ (c = j /\ n = f[c] + 1)
  BY <1>2
<1>4. CASE n \in 2..f[c]
  BY <1>1, <1>4, RepeatsMember
<1>5. CASE c = j /\ n = f[c] + 1
  BY <1>1, <1>5
<1> QED
  BY <1>3, <1>4, <1>5

LEMMA RepeatsWithin ==
    ASSUME NEW f \in [Captures -> Nat], NEW g \in [Captures -> Nat],
           \A c \in Captures : g[c] <= f[c] \/ g[c] <= 1
    PROVE  Repeats(g) \subseteq Repeats(f)
<1> SUFFICES ASSUME NEW r \in Repeats(g)
             PROVE  r \in Repeats(f)
  OBVIOUS
<1>0. PICK c \in Captures : \E n \in 2..g[c] : r = <<c, n>>
  BY RepeatsMember
<1>1. PICK n \in 2..g[c] : r = <<c, n>>
  BY <1>0
<1>2. f[c] \in Nat /\ g[c] \in Nat
  OBVIOUS
<1>3. n \in 2..f[c]
  BY <1>2
<1> QED
  BY <1>1, <1>3, RepeatsMember

LEMMA OneElementMore ==
    ASSUME NEW S, NEW T, NEW x, IsFiniteSet(S), T \subseteq S \cup {x}
    PROVE  /\ IsFiniteSet(T)
           /\ Cardinality(T) <= Cardinality(S) + 1
           /\ Cardinality(T) \in Nat
<1> DEFINE U == S \cup {x}
<1>1. /\ IsFiniteSet(U)
      /\ Cardinality(U) = Cardinality(S) \/ Cardinality(U) = Cardinality(S) + 1
  BY FS_AddElement
<1>2. T \in SUBSET U
  OBVIOUS
<1> HIDE DEF U
<1>3. IsFiniteSet(T) /\ Cardinality(T) <= Cardinality(U)
  BY <1>1, <1>2, FS_Subset
<1>4. Cardinality(T) \in Nat /\ Cardinality(U) \in Nat /\ Cardinality(S) \in Nat
  BY <1>1, <1>3, FS_CardinalityType
<1> QED
  BY <1>1, <1>3, <1>4

LEMMA OwedOKKept ==
    ASSUME IInv, IInv', QueuedOK, MadeOK, OwedOK, Next PROVE OwedOK'
<1>1. Owed \in [Captures -> Nat]
  BY DEF IInv, TypedSaves, Document, Owed
<1>2. Owed' \in [Captures -> Nat]
  <2>1. \A c \in Captures : memory'.made[c] \in Nat
    BY DEF IInv, TypedSaves, Document
  <2> QED
    BY <2>1 DEF Owed
<1>3. /\ faults' \in {faults, faults + 1} /\ crashes' \in {crashes, crashes + 1}
      /\ faults \in Nat /\ crashes \in Nat
  BY CountsGrow
<1>4. IsFiniteSet(Repeats(Owed)) /\ Cardinality(Repeats(Owed)) <= faults + crashes
  BY DEF OwedOK
<1>5. Cardinality(Repeats(Owed)) \in Nat
  BY <1>4, FS_CardinalityType
<1>g. Repeats(Owed)' = Repeats(Owed')
  BY DEF Repeats
<1>6. CASE \A c \in Captures : Owed'[c] <= Owed[c] \/ Owed'[c] <= 1
  <2>1. Repeats(Owed') \subseteq Repeats(Owed)
    BY <1>1, <1>2, <1>6, RepeatsWithin
  <2>2. /\ IsFiniteSet(Repeats(Owed'))
        /\ Cardinality(Repeats(Owed')) <= Cardinality(Repeats(Owed))
        /\ Cardinality(Repeats(Owed')) \in Nat
    BY <1>4, <2>1, FS_Subset, FS_CardinalityType
  <2>3. Cardinality(Repeats(Owed')) <= faults' + crashes'
    BY <1>3, <1>4, <1>5, <2>2
  <2> QED
    BY <1>g, <2>2, <2>3 DEF OwedOK
<1>7. CASE /\ faults' + crashes' = faults + crashes + 1
           /\ \E j \in Captures : \A c \in Captures :
                 Owed'[c] <= Owed[c] \/ (c = j /\ Owed'[c] <= Owed[c] + 1)
  <2>1. PICK j \in Captures : \A c \in Captures :
                 Owed'[c] <= Owed[c] \/ (c = j /\ Owed'[c] <= Owed[c] + 1)
    BY <1>7
  <2>2. Repeats(Owed') \subseteq Repeats(Owed) \cup {<<j, Owed[j] + 1>>}
    BY <1>1, <1>2, <2>1, RepeatsGrow
  <2>3. /\ IsFiniteSet(Repeats(Owed'))
        /\ Cardinality(Repeats(Owed')) <= Cardinality(Repeats(Owed)) + 1
        /\ Cardinality(Repeats(Owed')) \in Nat
    BY <1>4, <2>2, OneElementMore
  <2>4. Cardinality(Repeats(Owed')) <= faults' + crashes'
    <3> DEFINE n == Cardinality(Repeats(Owed))
               m == Cardinality(Repeats(Owed'))
    <3>1. n \in Nat /\ m \in Nat /\ m <= n + 1 /\ n <= faults + crashes
      BY <1>4, <1>5, <2>3
    <3>2. faults' + crashes' = faults + crashes + 1
      BY <1>7
    <3> HIDE DEF n, m
    <3>3. faults \in Nat /\ crashes \in Nat
      BY <1>3
    <3>4. m <= faults + crashes + 1
      BY <3>1, <3>3
    <3> QED
      BY <3>2, <3>4 DEF m
  <2> QED
    BY <1>g, <2>3, <2>4 DEF OwedOK
<1> QED
  BY <1>6, <1>7, OwedMoves

LEMMA InitCopyInv == Init => CopyInv
<1> SUFFICES ASSUME Init PROVE CopyInv
  OBVIOUS
<1>1. \A c \in Captures : EmptyDocument.made[c] = 0
  BY DEF EmptyDocument
<1>2. QueuedOK
  BY CaptureAssumption DEF Init, Idle, QueuedOK, Captures, OfKind
<1>3. MadeOK
  BY <1>1 DEF Init, MadeOK
<1>4. Repeats(Owed) = {}
  <2>1. \A c \in Captures : Owed[c] = 0
    BY <1>1 DEF Init, Owed
  <2> QED
    BY <2>1, RepeatsMember
<1>5. OwedOK
  BY <1>4, FS_EmptySet DEF Init, OwedOK
<1> QED
  BY <1>2, <1>3, <1>5 DEF CopyInv

LEMMA NextCopyInv == IInv /\ CopyInv /\ [Next]_vars => CopyInv'
<1> SUFFICES ASSUME IInv, CopyInv, [Next]_vars PROVE CopyInv'
  OBVIOUS
<1>1. CASE Next
  BY <1>1, NextIInv, QueuedOKKept, MadeOKKept, OwedOKKept DEF CopyInv
<1>2. CASE UNCHANGED vars
  BY <1>2 DEF vars, CopyInv, QueuedOK, MadeOK, OwedOK, Owed, AtHand, Repeats
<1> QED
  BY <1>1, <1>2

\* A capture becomes more than one task only by failures and kills, and the
\* tasks too many are no more than these: a drain that is asked for while
\* another runs, and any order of the saves, repeat nothing.
THEOREM RepeatsHaveTheirFault == Spec => []OneCopyPerFault
<1>1. IInv /\ CopyInv => OneCopyPerFault
  <2> SUFFICES ASSUME IInv, CopyInv PROVE OneCopyPerFault
    OBVIOUS
  <2>1. memory.made \in [Captures -> Nat] /\ Owed \in [Captures -> Nat]
    BY DEF IInv, TypedSaves, Document, Owed
  <2>2. \A c \in Captures : memory.made[c] <= Owed[c]
    BY <2>1 DEF Owed
  <2>3. Repeats(memory.made) \subseteq Repeats(Owed)
    BY <2>1, <2>2, RepeatsWithin
  <2>4. IsFiniteSet(Repeats(Owed)) /\ Cardinality(Repeats(Owed)) <= faults + crashes
    BY DEF CopyInv, OwedOK
  <2>5. /\ Cardinality(Repeats(memory.made)) <= Cardinality(Repeats(Owed))
        /\ Cardinality(Repeats(memory.made)) \in Nat /\ Cardinality(Repeats(Owed)) \in Nat
    BY <2>3, <2>4, FS_Subset, FS_CardinalityType
  <2>6. faults + crashes \in Nat
    BY CaptureAssumption DEF IInv, TypedCounts
  <2> QED
    BY <2>4, <2>5, <2>6 DEF OneCopyPerFault
<1> QED
  BY <1>1, InitCopyInv, NextCopyInv, Invariance, PTL DEF Spec
=============================================================================
