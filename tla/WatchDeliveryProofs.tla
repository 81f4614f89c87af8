------------------------ MODULE WatchDeliveryProofs ------------------------
(* WatchDelivery implements ExactlyOnceQueue, for any sets of items and any *)
(* bounds on kills, failures and updates.                                   *)
EXTENDS WatchDelivery, TLAPS

\* Whatever is on its way or in the journal was made on the Watch.
Traced ==
    /\ infos \cup transfers \cup messages \subseteq made
    /\ \A i \in Items : receipt[i] # "none" \/ stage[i] # None => i \in made
    /\ work.item \in made \cup {None}
    /\ inFlight \cup launch \cup retained \subseteq made

\* What the worker has established when it is at each of its steps.
WorkOK ==
    LET i == work.item IN
    /\ work.pc \in {"await", "copy", "keep", "handover", "wave"} => i \in Recordings
    /\ work.pc = "await" => receipt[i] = "none"
    /\ work.pc \in {"copy", "keep"} => receipt[i] \in {"awaitingAudio", "audioRetained"}
    /\ work.pc = "handover" => receipt[i] # "none"
    /\ work.pc = "wave" => receipt[i] = "audioRetained"
    /\ work.pc \in {"stage", "prepare"} =>
        \/ i \in Recordings /\ receipt[i] = "audioRetained" /\ i \in waves
        \/ i \notin Recordings /\ receipt[i] = "none"
    /\ work.pc = "prepare" => stage[i] # None
    /\ work.pc = "publish" => receipt[i] = "prepared"
    /\ work.pc \in {"drop", "compact"} => receipt[i] = "prepared" /\ stage[i] = None
    /\ work.pc = "answer" => receipt[i] = "published"

\* The journal and the files agree.
FilesOK ==
    \A i \in Items :
        /\ stage[i] # None => i \notin queue
        /\ stage[i] # None => receipt[i] \in
            (IF i \in Recordings THEN {"audioRetained", "prepared"} ELSE {"none", "prepared"})
        /\ receipt[i] \in {"awaitingAudio", "audioRetained"} => i \in Recordings
        /\ i \in queue => IsPublished(i)
        /\ i \in Recordings /\ (stage[i] # None \/ i \in queue) => i \in waves
        /\ i \in consumed => i \notin queue /\ IsPublished(i)

\* Whoever is told that an item is published is told the truth, and only then
\* does the Watch forget it.
ToldOK ==
    /\ \A i \in acks : IsPublished(i)
    /\ \A i \in Items : <<i, TRUE>> \in replies => IsPublished(i)
    /\ \A i \in made \ outbox : IsPublished(i)

IInv == TypeOK /\ Traced /\ WorkOK /\ FilesOK /\ ToldOK

-----------------------------------------------------------------------------
(* Every action keeps the invariant.                                        *)

LEMMA ReplyTyped ==
    ASSUME TypeOK, NEW i, NEW b \in BOOLEAN, ReplyTo(i, b)
    PROVE  replies' \subseteq Commands \X BOOLEAN
<1>1. CASE i \in inFlight
  <2>1. <<i, b>> \in Commands \X BOOLEAN
    BY <1>1 DEF TypeOK
  <2>2. replies \subseteq Commands \X BOOLEAN
    BY DEF TypeOK
  <2>3. replies' = replies \cup {<<i, b>>} \/ replies' = replies
    BY DEF ReplyTo
  <2> QED BY <2>1, <2>2, <2>3, Zenon
<1>2. CASE i \notin inFlight
  BY <1>2 DEF TypeOK, ReplyTo
<1> QED BY <1>1, <1>2

LEMMA SaveKeeps == ASSUME IInv, NEW i \in Items, Save(i) PROVE IInv'
<1>1. TypeOK' BY DEF IInv, TypeOK, WorkOK, Save, FlushOutbox, watch, air, durable
<1>2. Traced' BY DEF IInv, TypeOK, Traced, Save, FlushOutbox, watch, air, durable
<1>3. WorkOK' BY DEF IInv, TypeOK, WorkOK, Save, watch, air, durable
<1>4. FilesOK'
  BY DEF IInv, TypeOK, WorkOK, FilesOK, IsPublished, Save, watch, air, durable
<1>5. ToldOK'
  BY DEF IInv, TypeOK, WorkOK, ToldOK, IsPublished, Save, watch, air, durable
<1> QED BY <1>1, <1>2, <1>3, <1>4, <1>5 DEF IInv

LEMMA FlushKeeps == ASSUME IInv, Flush PROVE IInv'
<1>1. TypeOK' BY DEF IInv, TypeOK, WorkOK, Flush, FlushOutbox, watch, air, durable
<1>2. Traced' BY DEF IInv, TypeOK, Traced, Flush, FlushOutbox, watch, air, durable
<1>3. WorkOK' BY DEF IInv, TypeOK, WorkOK, Flush, watch, air, durable
<1>4. FilesOK'
  BY DEF IInv, TypeOK, WorkOK, FilesOK, IsPublished, Flush, watch, air, durable
<1>5. ToldOK'
  BY DEF IInv, TypeOK, WorkOK, ToldOK, IsPublished, Flush, watch, air, durable
<1> QED BY <1>1, <1>2, <1>3, <1>4, <1>5 DEF IInv

LEMMA MessageFailsKeeps == ASSUME IInv, NEW i \in Items, MessageFails(i) PROVE IInv'
<1>1. TypeOK' BY DEF IInv, TypeOK, WorkOK, MessageFails, Fault, watch, air, durable
<1>2. Traced' BY DEF IInv, TypeOK, Traced, MessageFails, watch, air, durable
<1>3. WorkOK' BY DEF IInv, TypeOK, WorkOK, MessageFails, watch, air, durable
<1>4. FilesOK'
  BY DEF IInv, TypeOK, WorkOK, FilesOK, IsPublished, MessageFails, watch, air, durable
<1>5. ToldOK'
  BY DEF IInv, TypeOK, WorkOK, ToldOK, IsPublished, MessageFails, watch, air, durable
<1> QED BY <1>1, <1>2, <1>3, <1>4, <1>5 DEF IInv

LEMMA AcknowledgedKeeps == ASSUME IInv, NEW i \in Items, Acknowledged(i) PROVE IInv'
<1>1. TypeOK'
  BY DEF IInv, TypeOK, WorkOK, Acknowledged, RemoveRecord, Fault, watch, air, durable
<1>2. Traced' BY DEF IInv, TypeOK, Traced, Acknowledged, RemoveRecord, watch, air, durable
<1>3. WorkOK' BY DEF IInv, TypeOK, WorkOK, Acknowledged, watch, air, durable
<1>4. FilesOK'
  BY DEF IInv, TypeOK, WorkOK, FilesOK, IsPublished, Acknowledged, watch, air, durable
<1>5. ToldOK'
  <2>1. \A j \in Items : IsPublished(j)' = IsPublished(j)
    BY DEF IsPublished, Acknowledged, durable
  <2>2. IsPublished(i)
    BY DEF IInv, ToldOK, Acknowledged
  <2>3. ASSUME NEW j \in made \ outbox' PROVE IsPublished(j)
    <3>1. CASE j = i BY <3>1, <2>2
    <3>2. CASE j # i BY <2>3, <3>2 DEF IInv, ToldOK, Acknowledged, RemoveRecord
    <3> QED BY <3>1, <3>2
  <2> QED
    BY <2>1, <2>3 DEF IInv, TypeOK, ToldOK, Acknowledged, RemoveRecord
<1> QED BY <1>1, <1>2, <1>3, <1>4, <1>5 DEF IInv

LEMMA ReplyKeeps == ASSUME IInv, NEW i \in Items, NEW b \in BOOLEAN, Reply(i, b) PROVE IInv'
<1>1. TypeOK'
  BY DEF IInv, TypeOK, WorkOK, Reply, Answered, RemoveRecord, Fault, watch, air, durable
<1>2. Traced' BY DEF IInv, TypeOK, Traced, Reply, Answered, RemoveRecord, watch, air, durable
<1>3. WorkOK' BY DEF IInv, TypeOK, WorkOK, Reply, watch, air, durable
<1>4. FilesOK'
  BY DEF IInv, TypeOK, WorkOK, FilesOK, IsPublished, Reply, watch, air, durable
<1>5. ToldOK'
  <2>1. \A j \in Items : IsPublished(j)' = IsPublished(j)
    BY DEF IsPublished, Reply, durable
  <2>2. ASSUME NEW j \in made \ outbox' PROVE IsPublished(j)
    <3>1. CASE j = i /\ b = TRUE BY <3>1 DEF IInv, ToldOK, Reply
    <3>2. CASE j # i \/ b = FALSE BY <2>2, <3>2 DEF IInv, ToldOK, Reply, Answered, RemoveRecord
    <3> QED BY <3>1, <3>2
  <2> QED
    BY <2>1, <2>2 DEF IInv, TypeOK, ToldOK, Reply
<1> QED BY <1>1, <1>2, <1>3, <1>4, <1>5 DEF IInv

LEMMA WatchKilledKeeps == ASSUME IInv, WatchKilled PROVE IInv'
<1>1. TypeOK' BY DEF IInv, TypeOK, WorkOK, WatchKilled, watch, air, durable
<1>2. Traced' BY DEF IInv, TypeOK, Traced, WatchKilled, watch, air, durable
<1>3. WorkOK' BY DEF IInv, TypeOK, WorkOK, WatchKilled, watch, air, durable
<1>4. FilesOK'
  BY DEF IInv, TypeOK, WorkOK, FilesOK, IsPublished, WatchKilled, watch, air, durable
<1>5. ToldOK'
  BY DEF IInv, TypeOK, WorkOK, ToldOK, IsPublished, WatchKilled, watch, air, durable
<1> QED BY <1>1, <1>2, <1>3, <1>4, <1>5 DEF IInv

LEMMA ReceiveInfoKeeps == ASSUME IInv, NEW i \in Items, ReceiveInfo(i) PROVE IInv'
<1>1. TypeOK'
  BY DeliveryAssumption DEF IInv, TypeOK, WorkOK, ReceiveInfo, Job, ReceivePc, watch,
     air, durable, Pcs
<1>2. Traced' BY DEF IInv, TypeOK, Traced, ReceiveInfo, Job, watch, air, durable
<1>3. WorkOK'
  BY DeliveryAssumption DEF IInv, TypeOK, WorkOK, ReceiveInfo, Job, ReceivePc, watch,
     air, durable
<1>4. FilesOK'
  BY DEF IInv, TypeOK, WorkOK, FilesOK, IsPublished, ReceiveInfo, watch, air, durable
<1>5. ToldOK'
  BY DEF IInv, TypeOK, WorkOK, ToldOK, IsPublished, ReceiveInfo, watch, air, durable
<1> QED BY <1>1, <1>2, <1>3, <1>4, <1>5 DEF IInv

LEMMA ReceiveMessageKeeps == ASSUME IInv, NEW i \in Items, ReceiveMessage(i) PROVE IInv'
<1>1. TypeOK'
  BY DeliveryAssumption DEF IInv, TypeOK, WorkOK, ReceiveMessage, Job, ReceivePc,
     watch, air, durable, Pcs
<1>2. Traced' BY DEF IInv, TypeOK, Traced, ReceiveMessage, Job, watch, air, durable
<1>3. WorkOK'
  BY DeliveryAssumption DEF IInv, TypeOK, WorkOK, ReceiveMessage, Job, ReceivePc,
     watch, air, durable
<1>4. FilesOK'
  BY DEF IInv, TypeOK, WorkOK, FilesOK, IsPublished, ReceiveMessage, watch, air,
     durable
<1>5. ToldOK'
  BY DEF IInv, TypeOK, WorkOK, ToldOK, IsPublished, ReceiveMessage, watch, air,
     durable
<1> QED BY <1>1, <1>2, <1>3, <1>4, <1>5 DEF IInv

LEMMA ReceiveFileKeeps == ASSUME IInv, NEW i \in Items, ReceiveFile(i) PROVE IInv'
<1>1. TypeOK'
  BY DeliveryAssumption DEF IInv, TypeOK, WorkOK, ReceiveFile, Job, RetainPc, watch,
     air, durable, Pcs
<1>2. Traced'
  BY DEF IInv, TypeOK, Traced, ReceiveFile, Job, RetainPc, watch, air, durable
<1>3. WorkOK'
  BY DEF IInv, TypeOK, WorkOK, ReceiveFile, Job, RetainPc, watch, air, durable
<1>4. FilesOK'
  BY DEF IInv, TypeOK, WorkOK, FilesOK, IsPublished, ReceiveFile, RetainPc, watch,
     air, durable
<1>5. ToldOK'
  BY DEF IInv, TypeOK, WorkOK, ToldOK, IsPublished, ReceiveFile, RetainPc, watch, air,
     durable
<1> QED BY <1>1, <1>2, <1>3, <1>4, <1>5 DEF IInv

LEMMA RecoverRetainedKeeps == ASSUME IInv, NEW i \in Items, RecoverRetained(i) PROVE IInv'
<1>1. TypeOK'
  BY DeliveryAssumption DEF IInv, TypeOK, WorkOK, RecoverRetained, Job, RecoverPc,
     watch, air, durable, Pcs
<1>2. Traced' BY DEF IInv, TypeOK, Traced, RecoverRetained, Job, watch, air, durable
<1>3. WorkOK'
  BY DEF IInv, TypeOK, WorkOK, RecoverRetained, Job, RecoverPc, watch, air, durable
<1>4. FilesOK'
  BY DEF IInv, TypeOK, WorkOK, FilesOK, IsPublished, RecoverRetained, watch, air,
     durable
<1>5. ToldOK'
  BY DEF IInv, TypeOK, WorkOK, ToldOK, IsPublished, RecoverRetained, watch, air,
     durable
<1> QED BY <1>1, <1>2, <1>3, <1>4, <1>5 DEF IInv

LEMMA RecoverAtLaunchKeeps == ASSUME IInv, NEW i \in Items, RecoverAtLaunch(i) PROVE IInv'
<1>1. TypeOK'
  BY DeliveryAssumption DEF IInv, TypeOK, WorkOK, RecoverAtLaunch, Job, RecoverPc,
     watch, air, durable, Pcs
<1>2. Traced' BY DEF IInv, TypeOK, Traced, RecoverAtLaunch, Job, watch, air, durable
<1>3. WorkOK'
  BY DEF IInv, TypeOK, WorkOK, FilesOK, RecoverAtLaunch, Job, RecoverPc, watch, air,
     durable
<1>4. FilesOK'
  BY DEF IInv, TypeOK, WorkOK, FilesOK, IsPublished, RecoverAtLaunch, watch, air,
     durable
<1>5. ToldOK'
  BY DEF IInv, TypeOK, WorkOK, ToldOK, IsPublished, RecoverAtLaunch, watch, air,
     durable
<1> QED BY <1>1, <1>2, <1>3, <1>4, <1>5 DEF IInv

LEMMA AwaitKeeps == ASSUME IInv, NEW i \in Items, Await(i) PROVE IInv'
<1>1. TypeOK'
  BY DEF IInv, TypeOK, WorkOK, Receipts, Await, At, Goto, WriteReceipt, watch, air,
     durable, Pcs
<1>2. Traced'
  BY DEF IInv, TypeOK, Traced, Await, At, Goto, WriteReceipt, watch, air, durable
<1>3. WorkOK'
  BY DEF IInv, TypeOK, WorkOK, Await, At, Goto, WriteReceipt, watch, air, durable
<1>4. FilesOK'
  BY DEF IInv, TypeOK, WorkOK, FilesOK, IsPublished, Await, At, WriteReceipt, watch,
     air, durable
<1>5. ToldOK'
  BY DEF IInv, TypeOK, WorkOK, ToldOK, IsPublished, Await, At, WriteReceipt, watch,
     air, durable
<1> QED BY <1>1, <1>2, <1>3, <1>4, <1>5 DEF IInv

LEMMA CopyKeeps == ASSUME IInv, NEW i \in Items, Copy(i) PROVE IInv'
<1>1. TypeOK' BY DEF IInv, TypeOK, WorkOK, Copy, At, Goto, watch, air, durable, Pcs
<1>2. Traced' BY DEF IInv, TypeOK, Traced, Copy, Goto, watch, air, durable
<1>3. WorkOK' BY DEF IInv, TypeOK, WorkOK, Copy, At, Goto, watch, air, durable
<1>4. FilesOK'
  BY DEF IInv, TypeOK, WorkOK, FilesOK, IsPublished, Copy, watch, air, durable
<1>5. ToldOK'
  BY DEF IInv, TypeOK, WorkOK, ToldOK, IsPublished, Copy, watch, air, durable
<1> QED BY <1>1, <1>2, <1>3, <1>4, <1>5 DEF IInv

LEMMA KeepKeeps == ASSUME IInv, NEW i \in Items, Keep(i) PROVE IInv'
<1>1. TypeOK'
  BY DEF IInv, TypeOK, WorkOK, Receipts, Keep, At, Goto, WriteReceipt, watch, air,
     durable, Pcs
<1>2. Traced'
  BY DEF IInv, TypeOK, Traced, Keep, At, Goto, WriteReceipt, watch, air, durable
<1>3. WorkOK'
  BY DEF IInv, TypeOK, WorkOK, Keep, At, Goto, WriteReceipt, watch, air, durable
<1>4. FilesOK'
  BY DEF IInv, TypeOK, WorkOK, FilesOK, IsPublished, Keep, At, WriteReceipt, watch,
     air, durable
<1>5. ToldOK'
  BY DEF IInv, TypeOK, WorkOK, ToldOK, IsPublished, Keep, At, WriteReceipt, watch,
     air, durable
<1> QED BY <1>1, <1>2, <1>3, <1>4, <1>5 DEF IInv

LEMMA HandoverKeeps == ASSUME IInv, NEW i \in Items, Handover(i) PROVE IInv'
<1>1. TypeOK' BY DEF IInv, TypeOK, WorkOK, Idle, Handover, At, watch, air, durable, Pcs
<1>2. Traced' BY DEF IInv, TypeOK, Traced, Idle, Handover, At, watch, air, durable
<1>3. WorkOK' BY DEF IInv, TypeOK, WorkOK, Idle, Handover, watch, air, durable
<1>4. FilesOK'
  BY DEF IInv, TypeOK, WorkOK, FilesOK, IsPublished, Handover, watch, air, durable
<1>5. ToldOK'
  BY DEF IInv, TypeOK, WorkOK, ToldOK, IsPublished, Handover, watch, air, durable
<1> QED BY <1>1, <1>2, <1>3, <1>4, <1>5 DEF IInv

LEMMA WaveKeeps == ASSUME IInv, NEW i \in Items, Wave(i) PROVE IInv'
<1>1. TypeOK' BY DEF IInv, TypeOK, WorkOK, Wave, At, Goto, watch, air, durable, Pcs
<1>2. Traced' BY DEF IInv, TypeOK, Traced, Wave, Goto, watch, air, durable
<1>3. WorkOK' BY DEF IInv, TypeOK, WorkOK, Wave, At, Goto, watch, air, durable
<1>4. FilesOK'
  BY DEF IInv, TypeOK, WorkOK, FilesOK, IsPublished, Wave, watch, air, durable
<1>5. ToldOK'
  BY DEF IInv, TypeOK, WorkOK, ToldOK, IsPublished, Wave, watch, air, durable
<1> QED BY <1>1, <1>2, <1>3, <1>4, <1>5 DEF IInv

LEMMA StageKeeps == ASSUME IInv, NEW i \in Items, Stage(i) PROVE IInv'
<1>1. TypeOK'
  BY DEF IInv, TypeOK, WorkOK, Stage, At, Goto, PathOf, watch, air, durable, Pcs
<1>2. Traced' BY DEF IInv, TypeOK, Traced, Stage, At, Goto, watch, air, durable
<1>3. WorkOK'
  BY DeliveryAssumption DEF IInv, TypeOK, WorkOK, Stage, At, Goto, PathOf, watch, air,
     durable
<1>4. FilesOK'
  BY DEF IInv, TypeOK, WorkOK, FilesOK, IsPublished, Stage, At, watch, air, durable
<1>5. ToldOK'
  BY DEF IInv, TypeOK, WorkOK, ToldOK, IsPublished, Stage, At, watch, air, durable
<1> QED BY <1>1, <1>2, <1>3, <1>4, <1>5 DEF IInv

LEMMA PrepareKeeps == ASSUME IInv, NEW i \in Items, Prepare(i) PROVE IInv'
<1>1. TypeOK'
  BY DEF IInv, TypeOK, WorkOK, Receipts, Prepare, At, Goto, WriteReceipt, watch, air,
     durable, Pcs
<1>2. Traced'
  BY DEF IInv, TypeOK, Traced, Prepare, At, Goto, WriteReceipt, watch, air, durable
<1>3. WorkOK'
  BY DEF IInv, TypeOK, WorkOK, Prepare, At, Goto, WriteReceipt, watch, air, durable
<1>4. FilesOK'
  BY DEF IInv, TypeOK, WorkOK, FilesOK, IsPublished, Prepare, WriteReceipt, watch,
     air, durable
<1>5. ToldOK'
  BY DEF IInv, TypeOK, WorkOK, FilesOK, ToldOK, IsPublished, Prepare, WriteReceipt,
     watch, air, durable
<1> QED BY <1>1, <1>2, <1>3, <1>4, <1>5 DEF IInv

LEMMA PublishKeeps == ASSUME IInv, NEW i \in Items, Publish(i) PROVE IInv'
<1>1. TypeOK'
  BY DEF IInv, TypeOK, WorkOK, Publish, At, Goto, Rename, watch, air, durable, Pcs
<1>2. Traced' BY DEF IInv, TypeOK, Traced, Publish, Goto, Rename, watch, air, durable
<1>3. WorkOK'
  BY DEF IInv, TypeOK, WorkOK, Publish, At, Goto, Rename, watch, air, durable
<1>4. FilesOK'
  BY DEF IInv, TypeOK, WorkOK, FilesOK, IsPublished, Publish, At, Rename, watch, air,
     durable
<1>5. ToldOK'
  BY DEF IInv, TypeOK, WorkOK, ToldOK, IsPublished, Publish, Rename, watch, air,
     durable
<1> QED BY <1>1, <1>2, <1>3, <1>4, <1>5 DEF IInv

LEMMA DropOriginalKeeps == ASSUME IInv, NEW i \in Items, DropOriginal(i) PROVE IInv'
<1>1. TypeOK'
  BY DEF IInv, TypeOK, WorkOK, DropOriginal, At, Goto, Fault, watch, air, durable, Pcs
<1>2. Traced' BY DEF IInv, TypeOK, Traced, DropOriginal, Goto, watch, air, durable
<1>3. WorkOK' BY DEF IInv, TypeOK, WorkOK, DropOriginal, At, Goto, watch, air, durable
<1>4. FilesOK'
  BY DEF IInv, TypeOK, WorkOK, FilesOK, IsPublished, DropOriginal, watch, air, durable
<1>5. ToldOK'
  BY DEF IInv, TypeOK, WorkOK, ToldOK, IsPublished, DropOriginal, watch, air, durable
<1> QED BY <1>1, <1>2, <1>3, <1>4, <1>5 DEF IInv

LEMMA CompactKeeps == ASSUME IInv, NEW i \in Items, Compact(i) PROVE IInv'
<1>1. TypeOK'
  BY DEF IInv, TypeOK, WorkOK, Receipts, Compact, At, Goto, WriteReceipt, watch, air,
     durable, Pcs
<1>2. Traced'
  BY DEF IInv, TypeOK, Traced, Compact, At, Goto, WriteReceipt, watch, air, durable
<1>3. WorkOK'
  BY DEF IInv, TypeOK, WorkOK, Compact, At, Goto, WriteReceipt, watch, air, durable
<1>4. FilesOK'
  BY DEF IInv, TypeOK, WorkOK, FilesOK, IsPublished, Compact, At, WriteReceipt, watch,
     air, durable
<1>5. ToldOK'
  BY DEF IInv, TypeOK, WorkOK, ToldOK, IsPublished, Compact, WriteReceipt, watch, air,
     durable
<1> QED BY <1>1, <1>2, <1>3, <1>4, <1>5 DEF IInv

LEMMA AnswerKeeps == ASSUME IInv, NEW i \in Items, Answer(i) PROVE IInv'
<1>1. TypeOK'
  <2>1. replies' \subseteq Commands \X BOOLEAN
    BY ReplyTyped DEF IInv, Answer
  <2> QED
    BY <2>1, DeliveryAssumption DEF IInv, TypeOK, Answer, Fault, At, Refused, Pcs, Idle,
       watch, air, durable
<1>2. Traced'
  BY DeliveryAssumption DEF IInv, TypeOK, Traced, Idle, Answer, At, ReplyTo, Fault,
     watch, air, durable
<1>3. WorkOK' BY DEF IInv, TypeOK, WorkOK, Idle, Answer, ReplyTo, watch, air, durable
<1>4. FilesOK'
  BY DEF IInv, TypeOK, WorkOK, FilesOK, IsPublished, Answer, ReplyTo, watch, air,
     durable
<1>5. ToldOK'
  BY DEF IInv, TypeOK, WorkOK, ToldOK, IsPublished, Answer, At, ReplyTo, watch, air,
     durable
<1> QED BY <1>1, <1>2, <1>3, <1>4, <1>5 DEF IInv

LEMMA ThrowsKeeps == ASSUME IInv, NEW i \in Items, Throws(i) PROVE IInv'
<1>1. TypeOK'
  <2>1. replies' \subseteq Commands \X BOOLEAN
    BY ReplyTyped DEF IInv, Throws
  <2> QED
    BY <2>1, DeliveryAssumption DEF IInv, TypeOK, Throws, Fault, At, Refused, Pcs, Idle,
       watch, air, durable
<1>2. Traced'
  BY DEF IInv, TypeOK, Traced, Idle, Throws, Refused, ReplyTo, watch, air, durable
<1>3. WorkOK'
  BY DEF IInv, TypeOK, WorkOK, Idle, Throws, Refused, ReplyTo, watch, air, durable
<1>4. FilesOK'
  BY DEF IInv, TypeOK, WorkOK, FilesOK, IsPublished, Throws, Refused, ReplyTo, watch,
     air, durable
<1>5. ToldOK'
  BY DEF IInv, TypeOK, WorkOK, ToldOK, IsPublished, Throws, Refused, ReplyTo, watch,
     air, durable
<1> QED BY <1>1, <1>2, <1>3, <1>4, <1>5 DEF IInv

LEMMA PhoneKilledKeeps == ASSUME IInv, PhoneKilled PROVE IInv'
<1>1. TypeOK' BY DEF IInv, TypeOK, WorkOK, Idle, PhoneKilled, watch, air, durable, Pcs
<1>2. Traced' BY DEF IInv, TypeOK, Traced, Idle, PhoneKilled, watch, air, durable
<1>3. WorkOK' BY DEF IInv, TypeOK, WorkOK, Idle, PhoneKilled, watch, air, durable
<1>4. FilesOK'
  BY DEF IInv, TypeOK, WorkOK, FilesOK, IsPublished, PhoneKilled, watch, air, durable
<1>5. ToldOK'
  BY DEF IInv, TypeOK, WorkOK, ToldOK, IsPublished, PhoneKilled, watch, air, durable
<1> QED BY <1>1, <1>2, <1>3, <1>4, <1>5 DEF IInv

LEMMA ConsumeKeeps == ASSUME IInv, NEW i \in Items, Consume(i) PROVE IInv'
<1>1. TypeOK' BY DEF IInv, TypeOK, WorkOK, Consume, TakeOut, watch, air, durable
<1>2. Traced' BY DEF IInv, TypeOK, Traced, Consume, TakeOut, watch, air, durable
<1>3. WorkOK' BY DEF IInv, TypeOK, WorkOK, Consume, TakeOut, watch, air, durable
<1>4. FilesOK'
  BY DEF IInv, TypeOK, WorkOK, FilesOK, IsPublished, Consume, TakeOut, watch, air,
     durable
<1>5. ToldOK'
  BY DEF IInv, TypeOK, WorkOK, ToldOK, IsPublished, Consume, TakeOut, watch, air,
     durable
<1> QED BY <1>1, <1>2, <1>3, <1>4, <1>5 DEF IInv

LEMMA RemoveWaveKeeps == ASSUME IInv, NEW i \in Items, RemoveWave(i) PROVE IInv'
<1>1. TypeOK' BY DEF IInv, TypeOK, WorkOK, RemoveWave, watch, air, durable
<1>2. Traced' BY DEF IInv, TypeOK, Traced, RemoveWave, watch, air, durable
<1>3. WorkOK'
  BY DEF IInv, TypeOK, WorkOK, FilesOK, IsPublished, RemoveWave, watch, air, durable
<1>4. FilesOK'
  BY DEF IInv, TypeOK, WorkOK, FilesOK, IsPublished, RemoveWave, watch, air, durable
<1>5. ToldOK'
  BY DEF IInv, TypeOK, WorkOK, ToldOK, IsPublished, RemoveWave, watch, air, durable
<1> QED BY <1>1, <1>2, <1>3, <1>4, <1>5 DEF IInv

-----------------------------------------------------------------------------
(* The refinement *)

Places == [i \in Items |-> Place(i)]

LEMMA PlacesKept ==
    ASSUME UNCHANGED <<made, receipt, stage, queue>>
    PROVE  UNCHANGED Places
BY DEF Places, Place, IsPublished

LEMMA SaveRefines == ASSUME IInv, NEW i \in Items, Save(i) PROVE Exactly!Save(i)
<1>1. Place(i) = "new"
  BY DEF IInv, Traced, FilesOK, IsPublished, Place, Save
<1>2. Place(i)' = "saved" /\ \A j \in Items \ {i} : Place(j)' = Place(j)
  BY <1>1 DEF Place, IsPublished, Save, durable
<1> QED
  BY <1>1, <1>2 DEF Exactly!Save, Save

LEMMA PublishRefines ==
    ASSUME IInv, NEW i \in Items, Publish(i)
    PROVE  Exactly!Publish(i) \/ UNCHANGED <<Places, outbox>>
<1>1. UNCHANGED <<made, outbox, receipt>> /\ \A j \in Items \ {i} : Place(j)' = Place(j)
  BY DEF Publish, Rename, Place, IsPublished, watch, IInv, TypeOK
<1>2. CASE stage[i] = None
  <2>1. UNCHANGED <<queue, stage>>
    BY <1>2 DEF Publish, Rename, IInv, TypeOK
  <2> QED BY <1>1, <2>1, PlacesKept
<1>3. CASE stage[i] # None
  <2>1. Place(i) = "saved"
    BY <1>3 DEF Publish, At, Place, IsPublished, IInv, WorkOK, FilesOK, Traced
  <2>2. Place(i)' = "queued"
    BY <1>3 DEF Publish, Rename, Place
  <2> QED
    BY <1>1, <2>1, <2>2 DEF Exactly!Publish
<1> QED BY <1>2, <1>3

LEMMA ConsumeRefines == ASSUME IInv, NEW i \in Items, Consume(i) PROVE Exactly!Consume(i)
<1>1. Place(i) = "queued"
  BY DEF Consume, Place
<1>2. Place(i)' = "consumed" /\ \A j \in Items \ {i} : Place(j)' = Place(j)
  BY DEF Consume, TakeOut, Place, IsPublished, IInv, FilesOK, watch
<1> QED
  BY <1>1, <1>2 DEF Exactly!Consume, Consume, watch

\* The Watch forgets a record only when it has been told, and was told the truth.
LEMMA ForgetRefines ==
    ASSUME IInv, NEW i \in Items, IsPublished(i), outbox' = outbox \ {i},
           UNCHANGED <<made, receipt, stage, queue>>
    PROVE  Exactly!Forget(i)
<1>1. Place(i) \in {"queued", "consumed"}
  BY DEF Place
<1> QED
  BY <1>1, PlacesKept DEF Exactly!Forget, Places

\* The journal of one item is written without a change of its place.
LEMMA ReceiptRefines ==
    ASSUME NEW i \in Items, NEW r \in Receipts, IInv, WriteReceipt(i, r),
           r = "published" => IsPublished(i),
           r = "prepared" => stage[i] # None,
           r # "published" => ~IsPublished(i)
    PROVE  UNCHANGED <<Places, outbox>>
<1>1. \A j \in Items : IsPublished(j)' = IsPublished(j)
  BY DEF IsPublished, WriteReceipt, IInv, TypeOK
<1> QED
  BY <1>1 DEF Places, Place, WriteReceipt, watch

LEMMA StageRefines ==
    ASSUME IInv, NEW i \in Items, Stage(i) PROVE UNCHANGED <<Places, outbox>>
<1>1. \A j \in Items : IsPublished(j)' = IsPublished(j)
  BY DEF IsPublished, Stage, At, IInv, TypeOK, WorkOK
<1> QED
  BY <1>1 DEF Places, Place, Stage, watch

-----------------------------------------------------------------------------
(* The theorems *)

LEMMA InitHolds == Init => IInv
BY DeliveryAssumption DEF Init, IInv, TypeOK, Traced, WorkOK, FilesOK, ToldOK, IsPublished,
   Items, Receipts, Pcs, Idle

LEMMA StutterKeeps == ASSUME IInv, UNCHANGED vars PROVE IInv'
BY DEF vars, IInv, TypeOK, Traced, WorkOK, FilesOK, ToldOK, IsPublished

LEMMA NextKeeps == IInv /\ [Next]_vars => IInv'
<1> SUFFICES ASSUME IInv, [Next]_vars PROVE IInv'
  OBVIOUS
<1>1. ASSUME NEW i \in Items, Save(i) \/ MessageFails(i) \/ Acknowledged(i) PROVE IInv'
  BY <1>1, SaveKeeps, MessageFailsKeeps, AcknowledgedKeeps
<1>2. ASSUME NEW i \in Items, NEW b \in BOOLEAN, Reply(i, b) PROVE IInv'
  BY <1>2, ReplyKeeps
<1>3. ASSUME NEW i \in Items, Begin(i) PROVE IInv'
  BY <1>3, ReceiveInfoKeeps, ReceiveMessageKeeps, ReceiveFileKeeps,
     RecoverRetainedKeeps, RecoverAtLaunchKeeps DEF Begin
<1>4. ASSUME NEW i \in Items, Step(i) PROVE IInv'
  BY <1>4, AwaitKeeps, CopyKeeps, KeepKeeps, HandoverKeeps, WaveKeeps, StageKeeps,
     PrepareKeeps, PublishKeeps, DropOriginalKeeps, CompactKeeps, AnswerKeeps, ThrowsKeeps
     DEF Step
<1>5. ASSUME NEW i \in Items, Consume(i) \/ RemoveWave(i) PROVE IInv'
  BY <1>5, ConsumeKeeps, RemoveWaveKeeps
<1>6. CASE Flush \/ WatchKilled \/ PhoneKilled
  BY <1>6, FlushKeeps, WatchKilledKeeps, PhoneKilledKeeps
<1>7. CASE UNCHANGED vars
  BY <1>7, StutterKeeps
<1> QED
  BY <1>1, <1>2, <1>3, <1>4, <1>5, <1>6, <1>7 DEF Next

LEMMA NextRefines == IInv /\ [Next]_vars => [Exactly!Next]_<<Places, outbox>>
<1> SUFFICES ASSUME IInv, [Next]_vars PROVE Exactly!Next \/ UNCHANGED <<Places, outbox>>
  OBVIOUS
<1> USE DEF watch, durable
<1>1. ASSUME NEW i \in Items, Save(i) PROVE Exactly!Next
  BY <1>1, SaveRefines DEF Exactly!Next
<1>2. ASSUME NEW i \in Items, Acknowledged(i)
      PROVE  Exactly!Next \/ UNCHANGED <<Places, outbox>>
  <2>1. IsPublished(i)
    BY <1>2 DEF Acknowledged, IInv, ToldOK
  <2> QED
    BY <1>2, <2>1, ForgetRefines, PlacesKept DEF Acknowledged, RemoveRecord, Exactly!Next
<1>3. ASSUME NEW i \in Items, NEW b \in BOOLEAN, Reply(i, b)
      PROVE  Exactly!Next \/ UNCHANGED <<Places, outbox>>
  <2>1. CASE b = TRUE
    <3>1. IsPublished(i)
      BY <1>3, <2>1 DEF Reply, IInv, ToldOK
    <3> QED
      BY <1>3, <2>1, <3>1, ForgetRefines, PlacesKept
         DEF Reply, Answered, RemoveRecord, Exactly!Next
  <2>2. CASE b = FALSE
    BY <1>3, <2>2, PlacesKept DEF Reply, Answered, RemoveRecord
  <2> QED BY <2>1, <2>2
<1>4. ASSUME NEW i \in Items, Begin(i) PROVE UNCHANGED <<Places, outbox>>
  BY <1>4, PlacesKept DEF Begin, ReceiveInfo, ReceiveMessage, ReceiveFile,
     RecoverRetained, RecoverAtLaunch
<1>5. ASSUME NEW i \in Items, Step(i) PROVE Exactly!Next \/ UNCHANGED <<Places, outbox>>
  <2>1. CASE Copy(i) \/ Handover(i) \/ Wave(i) \/ DropOriginal(i) \/ Answer(i) \/ Throws(i)
    BY <2>1, PlacesKept DEF Copy, Handover, Wave, DropOriginal, Answer, Throws
  <2>2. CASE Await(i)
    BY <2>2, ReceiptRefines DEF Await, At, Receipts, IsPublished, IInv, WorkOK
  <2>3. CASE Keep(i)
    BY <2>3, ReceiptRefines DEF Keep, At, Receipts, IsPublished, IInv, WorkOK
  <2>4. CASE Stage(i)
    BY <2>4, StageRefines
  <2>5. CASE Prepare(i)
    BY <2>5, ReceiptRefines DEF Prepare, At, Receipts, IsPublished, IInv, WorkOK
  <2>6. CASE Publish(i)
    BY <2>6, PublishRefines DEF Exactly!Next
  <2>7. CASE Compact(i)
    BY <2>7, ReceiptRefines DEF Compact, At, Receipts, IsPublished, IInv, WorkOK
  <2> QED
    BY <1>5, <2>1, <2>2, <2>3, <2>4, <2>5, <2>6, <2>7 DEF Step
<1>6. ASSUME NEW i \in Items, Consume(i) PROVE Exactly!Next
  BY <1>6, ConsumeRefines DEF Exactly!Next
<1>7. ASSUME NEW i \in Items, MessageFails(i) \/ RemoveWave(i)
      PROVE  UNCHANGED <<Places, outbox>>
  BY <1>7, PlacesKept DEF MessageFails, RemoveWave
<1>8. CASE Flush \/ WatchKilled \/ PhoneKilled
  BY <1>8, PlacesKept DEF Flush, WatchKilled, PhoneKilled
<1>9. CASE UNCHANGED vars
  BY <1>9, PlacesKept DEF vars
<1> QED
  BY <1>1, <1>2, <1>3, <1>4, <1>5, <1>6, <1>7, <1>8, <1>9 DEF Next

\* The inductive invariant holds: in particular every variable keeps its type.
THEOREM TypeCorrect == Spec => []TypeOK
<1>1. IInv => TypeOK
  BY DEF IInv
<1> QED
  BY InitHolds, NextKeeps, <1>1, PTL DEF Spec

\* A recording in the queue always has the WAV its queue file names: the
\* receiver converts before it stages, and the drain removes the WAV last.
THEOREM QueuedAudioPlayable == Spec => []QueuedHasWave
<1>1. IInv => QueuedHasWave
  BY DEF IInv, TypeOK, FilesOK, QueuedHasWave
<1> QED
  BY InitHolds, NextKeeps, <1>1, PTL DEF Spec

\* The journal of the receiver and the outbox of the Watch implement delivery
\* into the queue exactly once, for any number of kills, failed operations,
\* repeated deliveries and updates.
THEOREM DeliveryImplementsExactlyOnce == Spec => ExactlyOnce
<1>1. Init => Exactly!Init
  BY DEF Init, Exactly!Init, Place, IsPublished
<1>2. [Exactly!Next]_<<Places, outbox>>
        <=> [Exactly!Next]_<<[i \in Items |-> Place(i)], outbox>>
  BY DEF Places
<1> QED
  BY InitHolds, NextKeeps, NextRefines, <1>1, <1>2, PTL
     DEF Spec, ExactlyOnce, Exactly!Spec

=============================================================================
