---------------------------- MODULE WatchDelivery ----------------------------
(* From the Apple Watch to the phone's capture queue.  The Watch keeps an   *)
(* outbox (WatchOutbox.swift, WatchConnectivityModel.swift) and resends it  *)
(* until the phone has confirmed; the phone's receiver (MindwtrWatch-       *)
(* ConnectivityReceiver.swift) journals each item by its id, stages the     *)
(* queue file and renames it into the queue.  Both processes may be killed  *)
(* between any two file operations, and an update of the phone app moves    *)
(* its container, and with it every absolute path.                          *)
(*                                                                          *)
(* A step of the receiver is one durable file operation; the operations of  *)
(* one delivery run one after the other on a serial queue.                  *)
EXTENDS Naturals

CONSTANTS
    Texts, Commands, Recordings,  \* items, by what they hold
    None,        \* no item, no stage
    Batches,     \* bound: sets of items that one behaviour sees together
    MaxFaults,   \* bound: failed operations
    MaxCrashes,  \* bound: kills of either app
    MaxMoves     \* bound: updates of the phone app

Items == Texts \cup Commands \cup Recordings

ASSUME DeliveryAssumption ==
    /\ None \notin Items /\ None \notin Nat
    /\ Texts \cap Commands = {} /\ Recordings \cap (Texts \cup Commands) = {}
    /\ Batches \subseteq SUBSET Items
    /\ MaxFaults \in Nat /\ MaxCrashes \in Nat /\ MaxMoves \in Nat

VARIABLES
    \* Watch
    made,       \* items the user has made
    outbox,     \* records of the outbox
    inFlight,   \* commands whose answer is awaited
    \* WatchConnectivity
    infos,      \* outstanding transfers of user info
    transfers,  \* outstanding transfers of recordings
    messages,   \* messages that have not reached the phone
    replies,    \* answers to messages, on their way: <<id, accepted>>
    acks,       \* delivery receipts, on their way
    \* phone, durable
    receipt,    \* the journal
    stage,      \* the staged queue file: the container its path names
    queue,      \* queue files
    original,   \* transferred recordings
    waves,      \* converted recordings
    container,  \* of the phone app
    \* phone, volatile
    launch,     \* receipts the launch has still to recover
    retained,   \* recordings handed over to the worker
    work,       \* what the worker does: pc, item, on whose behalf
    consumed,   \* recordings the drain is about to remove
    faults, crashes

watch == <<made, outbox, inFlight>>
air == <<infos, transfers, messages, replies, acks>>
durable == <<receipt, stage, queue, original, waves, container>>
vars == <<made, outbox, inFlight, infos, transfers, messages, replies, acks, receipt,
          stage, queue, original, waves, container, launch, retained, work, consumed,
          faults, crashes>>

Receipts == {"none", "awaitingAudio", "audioRetained", "prepared", "published"}
Idle == [pc |-> "idle", item |-> None, for |-> "nobody"]

Init ==
    /\ made = {} /\ outbox = {} /\ inFlight = {}
    /\ infos = {} /\ transfers = {} /\ messages = {} /\ replies = {} /\ acks = {}
    /\ receipt = [i \in Items |-> "none"]
    /\ stage = [i \in Items |-> None]
    /\ queue = {} /\ original = {} /\ waves = {} /\ container = 0
    /\ launch = {} /\ retained = {} /\ work = Idle /\ consumed = {}
    /\ faults = 0 /\ crashes = 0

Fault == faults < MaxFaults /\ faults' = faults + 1

-----------------------------------------------------------------------------
(* The Watch *)

\* flushOutbox: a record is sent unless a transfer of it is outstanding; a
\* command goes as a message when the phone is reachable.
FlushOutbox(records, reachable) ==
    LET commands == (records \cap Commands) \ inFlight
    IN  /\ infos' = infos \cup (records \cap Texts) \cup (IF reachable THEN {} ELSE commands)
        /\ transfers' = transfers \cup (records \cap Recordings)
        /\ messages' = IF reachable THEN messages \cup commands ELSE messages
        /\ inFlight' = IF reachable THEN inFlight \cup commands ELSE inFlight

\* enqueue: the record is saved and the outbox flushed, if the session is active.
Save(i) ==
    /\ i \notin made
    /\ \E B \in Batches : made \cup {i} \subseteq B
    /\ made' = made \cup {i}
    /\ outbox' = outbox \cup {i}
    /\ \/ \E reachable \in BOOLEAN : FlushOutbox(outbox', reachable)
       \/ UNCHANGED <<infos, transfers, messages, inFlight>>
    /\ UNCHANGED <<replies, acks, durable, launch, retained, work, consumed, faults, crashes>>

\* The session is activated, reachability changes, or the app comes to the front.
Flush ==
    /\ \E reachable \in BOOLEAN : FlushOutbox(outbox, reachable)
    /\ UNCHANGED <<made, outbox, replies, acks, durable, launch, retained, work, consumed,
                   faults, crashes>>

\* A record is removed from the outbox; a failure to remove it is ignored.
RemoveRecord(i) ==
    \/ outbox' = outbox \ {i} /\ UNCHANGED faults
    \/ Fault /\ UNCHANGED outbox

\* The answer to a message: an accepted command is removed, another one queued.
Answered(i, accepted) ==
    IF accepted THEN RemoveRecord(i) /\ UNCHANGED infos
    ELSE infos' = infos \cup {i} /\ UNCHANGED <<outbox, faults>>

Reply(i, accepted) ==
    /\ i \in inFlight
    /\ <<i, accepted>> \in replies
    /\ replies' = replies \ {<<i, accepted>>}
    /\ inFlight' = inFlight \ {i}
    /\ Answered(i, accepted)
    /\ UNCHANGED <<made, transfers, messages, acks, durable, launch, retained, work,
                   consumed, crashes>>

\* errorHandler: the phone may have received the message or not.  The command is
\* queued, unless the session is not active.
MessageFails(i) ==
    /\ i \in inFlight
    /\ inFlight' = inFlight \ {i}
    /\ \/ infos' = infos \cup {i} /\ UNCHANGED faults
       \/ Fault /\ UNCHANGED infos
    /\ \/ messages' = messages \ {i}
       \/ UNCHANGED messages
    /\ replies' = {r \in replies : r[1] # i}
    /\ UNCHANGED <<made, outbox, transfers, acks, durable, launch, retained, work, consumed,
                   crashes>>

\* accept(receipt).
Acknowledged(i) ==
    /\ i \in acks
    /\ acks' = acks \ {i}
    /\ RemoveRecord(i)
    /\ UNCHANGED <<made, inFlight, infos, transfers, messages, replies, durable, launch,
                   retained, work, consumed, crashes>>

WatchKilled ==
    /\ crashes < MaxCrashes
    /\ crashes' = crashes + 1
    /\ inFlight' = {}
    /\ replies' = {}
    /\ UNCHANGED <<made, outbox, infos, transfers, messages, acks, durable, launch,
                   retained, work, consumed, faults>>

-----------------------------------------------------------------------------
(* The receiver of the phone *)

\* The worker is free for the next callback: the launch recovers the journal
\* first, and callbacks come one after the other, each behind the work that the
\* one before has handed over.
Free == work.pc = "idle" /\ launch = {} /\ retained = {}

Job(pc, i, for) == [pc |-> pc, item |-> i, for |-> for]

\* Mutant: a second delivery of a published item is not answered.
ReceivePcUnanswered(r) ==
    CASE r = "none" -> "stage" [] r = "prepared" -> "publish" [] OTHER -> "refuse"

\* receivePayload: where a text or a command goes on.
ReceivePc(r) ==
    CASE r = "none" -> "stage" [] r = "prepared" -> "publish" [] r = "published" -> "answer"
      [] OTHER -> "refuse"

ReceiveInfo(i) ==
    /\ Free /\ i \in infos
    /\ infos' = infos \ {i}
    /\ work' = Job(ReceivePc(receipt[i]), i, "info")
    /\ UNCHANGED <<watch, transfers, messages, replies, acks, durable, launch, retained,
                   consumed, faults, crashes>>

ReceiveMessage(i) ==
    /\ Free /\ i \in messages
    /\ messages' = messages \ {i}
    /\ work' = Job(ReceivePc(receipt[i]), i, "message")
    /\ UNCHANGED <<watch, infos, transfers, replies, acks, durable, launch, retained,
                   consumed, faults, crashes>>

\* retainTransferredAudio: the journal entry comes first, then the recording.
RetainPc(i) ==
    CASE receipt[i] = "none" -> "await"
      [] receipt[i] = "awaitingAudio" -> "copy"
      [] receipt[i] = "audioRetained" /\ i \notin original -> "copy"
      [] OTHER -> "handover"

ReceiveFile(i) ==
    /\ Free /\ i \in transfers
    /\ transfers' = transfers \ {i}
    /\ work' = Job(RetainPc(i), i, "file")
    /\ UNCHANGED <<watch, infos, messages, replies, acks, durable, launch, retained,
                   consumed, faults, crashes>>

\* recoverReceipt: where an item of the journal goes on.
RecoverPc(i) ==
    CASE receipt[i] = "published" -> "answer"
      [] receipt[i] = "prepared" -> "publish"
      [] receipt[i] = "awaitingAudio" -> IF i \in original THEN "keep" ELSE "refuse"
      [] receipt[i] = "audioRetained" -> "wave"
      [] OTHER -> "refuse"

\* The worker goes on with a recording it was handed, and answers the Watch.
RecoverRetained(i) ==
    /\ work.pc = "idle" /\ i \in retained
    /\ retained' = retained \ {i}
    /\ work' = Job(RecoverPc(i), i, "retained")
    /\ UNCHANGED <<watch, air, durable, launch, consumed, faults, crashes>>

\* The launch goes over the journal, and answers nobody.
RecoverAtLaunch(i) ==
    /\ work.pc = "idle" /\ i \in launch
    /\ launch' = launch \ {i}
    /\ work' = Job(RecoverPc(i), i, "launch")
    /\ UNCHANGED <<watch, air, durable, retained, consumed, faults, crashes>>

-----------------------------------------------------------------------------
(* The durable steps of a delivery *)

\* The answer to a message, if the Watch still waits for one.
ReplyTo(i, accepted) ==
    replies' = IF work.for = "message" /\ i \in inFlight
               THEN replies \cup {<<i, accepted>>} ELSE replies

At(pc, i) == work.pc = pc /\ work.item = i
Goto(pc) == work' = [work EXCEPT !.pc = pc]

WriteReceipt(i, r) ==
    /\ receipt' = [receipt EXCEPT ![i] = r]
    /\ UNCHANGED <<watch, air, stage, queue, original, waves, container, launch, consumed,
                   faults, crashes>>

Await(i) ==
    /\ At("await", i)
    /\ WriteReceipt(i, "awaitingAudio")
    /\ Goto("copy") /\ UNCHANGED retained

\* A recording that is there is kept.
Copy(i) ==
    /\ At("copy", i)
    /\ original' = original \cup {i}
    /\ Goto("keep")
    /\ UNCHANGED <<watch, air, receipt, stage, queue, waves, container, launch, retained,
                   consumed, faults, crashes>>

\* The recording is journaled: the callback returns and the worker takes over,
\* or the recovery goes on.
Keep(i) ==
    /\ At("keep", i)
    /\ WriteReceipt(i, "audioRetained")
    /\ Goto(IF work.for = "file" THEN "handover" ELSE "wave")
    /\ UNCHANGED retained

Handover(i) ==
    /\ At("handover", i)
    /\ retained' = retained \cup {i}
    /\ work' = Idle
    /\ UNCHANGED <<watch, air, durable, launch, consumed, faults, crashes>>

\* convertToMonoPCM16Wave, unless the WAV is there.
Wave(i) ==
    /\ At("wave", i)
    /\ i \in original
    /\ waves' = waves \cup {i}
    /\ Goto("stage")
    /\ UNCHANGED <<watch, air, receipt, stage, queue, original, container, launch, retained,
                   consumed, faults, crashes>>

\* The queue file of a recording names its WAV by an absolute path.
PathOf(i) == IF i \in Recordings THEN container ELSE 0

\* stageAction: a stage that is there must have the same bytes.
Stage(i) ==
    /\ At("stage", i)
    /\ stage[i] \in {None, PathOf(i)}
    /\ stage' = [stage EXCEPT ![i] = PathOf(i)]
    /\ Goto("prepare")
    /\ UNCHANGED <<watch, air, receipt, queue, original, waves, container, launch, retained,
                   consumed, faults, crashes>>

Prepare(i) ==
    /\ At("prepare", i)
    /\ WriteReceipt(i, "prepared")
    /\ Goto("publish") /\ UNCHANGED retained

\* Mutant: without a stage, a missing queue file is written again.
RenameAgain(i) ==
    /\ queue' = queue \cup {i}
    /\ stage' = [stage EXCEPT ![i] = None]

\* preparedRecoveryAction: the stage is renamed into the queue; without a stage
\* that has happened before, whether or not the queue file is still there.
Rename(i) ==
    /\ queue' = IF stage[i] = None THEN queue ELSE queue \cup {i}
    /\ stage' = [stage EXCEPT ![i] = None]

Publish(i) ==
    /\ At("publish", i)
    /\ stage[i] = None \/ (i \notin queue /\ (i \in Recordings => i \in waves))
    /\ Rename(i)
    /\ Goto("drop")
    /\ UNCHANGED <<watch, air, receipt, original, waves, container, launch, retained,
                   consumed, faults, crashes>>

\* The original recording goes; a failure to remove it is ignored.
DropOriginal(i) ==
    /\ At("drop", i)
    /\ \/ original' = original \ {i} /\ UNCHANGED faults
       \/ i \in original /\ Fault /\ UNCHANGED original
    /\ Goto("compact")
    /\ UNCHANGED <<watch, air, receipt, stage, queue, waves, container, launch, retained,
                   consumed, crashes>>

Compact(i) ==
    /\ At("compact", i)
    /\ WriteReceipt(i, "published")
    /\ Goto("answer") /\ UNCHANGED retained

\* The sender is told; the launch tells nobody, and neither does a phone whose
\* session is not active.
Answer(i) ==
    /\ At("answer", i)
    /\ \/ /\ acks' = IF work.for \in {"info", "retained"} THEN acks \cup {i} ELSE acks
          /\ UNCHANGED faults
       \/ work.for \in {"info", "retained"} /\ Fault /\ UNCHANGED acks
    /\ ReplyTo(i, TRUE)
    /\ work' = Idle
    /\ UNCHANGED <<watch, infos, transfers, messages, durable, launch, retained, consumed,
                   crashes>>

\* The job ends early, and only the sender of a message is told.
Refused == work' = Idle

\* The code refuses: a receipt of the wrong kind or a journaled recording that is
\* not there, a lost original, a stage with other bytes, a collision.
Refusal(i) ==
    \/ At("refuse", i)
    \/ At("wave", i) /\ i \notin original
    \/ At("stage", i) /\ stage[i] \notin {None, PathOf(i)}
    \/ At("publish", i) /\ stage[i] # None /\ (i \in queue \/ i \in Recordings \ waves)

\* A file operation fails, before or after it took effect.
Throws(i) ==
    /\ work.pc # "idle" /\ work.item = i
    /\ \/ Refusal(i) /\ UNCHANGED faults
       \/ ~Refusal(i) /\ Fault
    /\ Refused
    /\ ReplyTo(i, FALSE)
    /\ UNCHANGED <<watch, infos, transfers, messages, acks, durable, launch, retained,
                   consumed, crashes>>

\* The phone app is killed, and updated maybe: its launch goes over the journal.
PhoneKilled ==
    /\ crashes < MaxCrashes
    /\ crashes' = crashes + 1
    /\ container' \in {container} \cup (IF container < MaxMoves THEN {container + 1} ELSE {})
    /\ work' = Idle /\ retained' = {} /\ consumed' = {}
    /\ launch' = {i \in Items : receipt[i] # "none"}
    /\ UNCHANGED <<watch, air, receipt, stage, queue, original, waves, faults>>

-----------------------------------------------------------------------------
(* The drain of the queue (PendingCaptures) *)

\* Mutant: the recording goes with its queue file still there.
ConsumeWavFirst(i) ==
    /\ waves' = waves \ {i}
    /\ UNCHANGED <<queue, consumed>>

\* The queue file goes first.
TakeOut(i) ==
    /\ queue' = queue \ {i}
    /\ consumed' = IF i \in Recordings THEN consumed \cup {i} ELSE consumed
    /\ UNCHANGED waves

Consume(i) ==
    /\ i \in queue
    /\ i \in Recordings => i \in waves
    /\ TakeOut(i)
    /\ UNCHANGED <<watch, air, receipt, stage, original, container, launch, retained, work,
                   faults, crashes>>

RemoveWave(i) ==
    /\ i \in consumed
    /\ consumed' = consumed \ {i}
    /\ waves' = waves \ {i}
    /\ UNCHANGED <<watch, air, receipt, stage, queue, original, container, launch, retained,
                   work, faults, crashes>>

-----------------------------------------------------------------------------
Begin(i) ==
    \/ ReceiveInfo(i) \/ ReceiveMessage(i) \/ ReceiveFile(i)
    \/ RecoverRetained(i) \/ RecoverAtLaunch(i)

Step(i) ==
    \/ Await(i) \/ Copy(i) \/ Keep(i) \/ Handover(i) \/ Wave(i) \/ Stage(i) \/ Prepare(i)
    \/ Publish(i) \/ DropOriginal(i) \/ Compact(i) \/ Answer(i) \/ Throws(i)

Next ==
    \/ \E i \in Items :
        \/ Save(i) \/ MessageFails(i) \/ Acknowledged(i)
        \/ \E accepted \in BOOLEAN : Reply(i, accepted)
        \/ Begin(i) \/ Step(i)
        \/ Consume(i) \/ RemoveWave(i)
    \/ Flush \/ WatchKilled \/ PhoneKilled

Spec == Init /\ [][Next]_vars

\* The Watch app comes to the front again and again, outstanding transfers are
\* delivered in turn, answers arrive, and the worker goes on.
Fairness ==
    /\ WF_vars(Flush)
    /\ WF_vars(\E i \in Items : Begin(i))
    /\ WF_vars(\E i \in Items : Step(i))
    /\ WF_vars(\E i \in Items : Acknowledged(i))
    /\ WF_vars(\E i \in Items : MessageFails(i) \/ \E accepted \in BOOLEAN : Reply(i, accepted))
    /\ SF_vars(\E i \in Items : ReceiveInfo(i))
    /\ SF_vars(\E i \in Items : ReceiveFile(i))

FairSpec == Spec /\ Fairness

-----------------------------------------------------------------------------
(* Properties *)

Pcs == {"idle", "refuse", "await", "copy", "keep", "handover", "wave", "stage", "prepare",
        "publish", "drop", "compact", "answer"}

TypeOK ==
    /\ made \subseteq Items /\ outbox \subseteq made /\ inFlight \subseteq Commands
    /\ infos \subseteq Texts \cup Commands /\ transfers \subseteq Recordings
    /\ messages \subseteq Commands /\ replies \subseteq Commands \X BOOLEAN
    /\ acks \subseteq Items
    /\ receipt \in [Items -> Receipts]
    /\ stage \in [Items -> Nat \cup {None}]
    /\ queue \subseteq Items /\ original \subseteq Recordings /\ waves \subseteq Recordings
    /\ container \in Nat
    /\ launch \subseteq Items /\ retained \subseteq Recordings /\ consumed \subseteq Recordings
    /\ work \in [pc : Pcs, item : Items \cup {None},
                 for : {"info", "message", "file", "retained", "launch", "nobody"}]
    /\ (work.pc = "idle") = (work.item = None)
    /\ faults \in Nat /\ crashes \in Nat

\* The missing stage of a prepared receipt is the durable mark of publication.
IsPublished(i) == receipt[i] = "published" \/ (receipt[i] = "prepared" /\ stage[i] = None)

\* Where item i is.
Place(i) ==
    IF i \in queue THEN "queued" ELSE IF IsPublished(i) THEN "consumed"
    ELSE IF i \in made THEN "saved" ELSE "new"

Exactly == INSTANCE ExactlyOnceQueue WITH item <- [i \in Items |-> Place(i)], kept <- outbox

\* Whatever is killed, fails or is delivered twice: an item is published once,
\* is not published again when the drain has consumed it, and leaves the outbox
\* of the Watch only after it was published.
ExactlyOnce == Exactly!Spec

\* A queued recording has its WAV.
QueuedHasWave == queue \cap Recordings \subseteq waves

\* The staged queue file of a recording names the WAV by the path of an earlier
\* container, and its receipt does not say that it is prepared.
Stranded(i) == receipt[i] = "audioRetained" /\ stage[i] \notin {None, PathOf(i)}

\* Every item made on the Watch is published and leaves the outbox, unless an
\* update has stranded it.
Delivered == \A i \in Items : i \in made ~> (IsPublished(i) /\ i \notin outbox) \/ Stranded(i)

=============================================================================
