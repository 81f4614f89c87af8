-------------------------- MODULE SaveQueueProofs --------------------------
(***************************************************************************)
(* Proofs about SaveQueue for every set of rows, every number of           *)
(* overlapping flushes and every value of the limits.                      *)
(*                                                                         *)
(* NoSilentLoss alone is not inductive.  IInv says in addition where every *)
(* unsaved revision is kept (Covered), that snapshots grow with their      *)
(* versions (Monotone), and that no snapshot lacks a row that storage has  *)
(* or is about to have, so that writing it removes nothing (Anchored).     *)
(* FInv, inductive once IInv holds, is about the calls: a write under way  *)
(* has an owner (Owned), and what a resolved call promised is on storage   *)
(* or, while the failure is on display, in every write that could take the *)
(* display down (Reported).                                                *)
(***************************************************************************)
EXTENDS SaveQueue, TLAPS

Le(d, e) == \A r \in Row : d[r] <= e[r]

\* Only the snapshot at the front of the queue can be a retry.
RetryAtFront == \A i \in 2..Len(pendingSaves) : pendingSaves[i].attempts = 0

\* The snapshots that wait, and with them every write that is under way.
Queued == {pendingSaves[i] : i \in 1..Len(pendingSaves)}
InFlight == IF SavingNow THEN {saveInFlight} ELSE {}
InPlay == Queued \cup immediateSaves \cup InFlight

\* No snapshot that waits is newer than p.
Newest(p) == \A q \in Queued : q.version <= p.version

\* Every version in play was drawn, is newer than what was saved and belongs to
\* one write only; the snapshot in flight is the oldest.
Drawn ==
    /\ savedVersion <= pendingVersion
    /\ \A p \in InPlay : savedVersion < p.version /\ p.version <= pendingVersion
    /\ \A p, q \in InPlay : p.version = q.version => p = q
    /\ SavingNow => \A p \in Queued \cup immediateSaves : saveInFlight.version < p.version

\* A later version is a later state of the store, and none is ahead of memory.
Monotone ==
    /\ Le(disk, memory)
    /\ \A p \in InPlay : Le(p.data, memory)
    /\ \A p, q \in InPlay : p.version < q.version => Le(p.data, q.data)

\* The last revision of r is on storage or on its way as a row write.
Written(r) ==
    \/ disk[r] = memory[r]
    \/ \E s \in immediateSaves : s.row = r /\ s.data[r] = memory[r]

\* Every unsaved revision is kept by the newest snapshot or by a row write.
Covered ==
    /\ \A p \in InPlay : Newest(p) =>
          \A r \in Row : p.data[r] = memory[r] \/ Written(r)
    /\ \/ persistenceFailure
       \/ Queued # {}
       \/ SavingNow
       \/ \A r \in Row : Written(r)

\* Storage has row r, or a row write will create it there.
OnDisk(r) == disk[r] > 0 \/ \E s \in immediateSaves : s.row = r

\* No snapshot lacks a row that storage has, and none that could become the
\* newest lacks a row of memory.
Anchored ==
    /\ \A p \in InPlay : \A r \in Row : OnDisk(r) => p.data[r] > 0
    /\ \A p \in InPlay : Newest(p) => \A r \in Row : memory[r] > 0 => p.data[r] > 0

\* The queue is ordered by version.
Sorted ==
    \A i, j \in 1..Len(pendingSaves) :
        i < j => pendingSaves[i].version < pendingSaves[j].version

IInv ==
    /\ TypeOK
    /\ RetryAtFront
    /\ Sorted
    /\ Drawn
    /\ Monotone
    /\ Covered
    /\ Anchored

\* The snapshot being written belongs to a call that waits for the answer.
Owned == SavingNow => \E f \in Flusher : flush[f].pc = "saving"

\* No call promises more than the store holds.
Goals == \A f \in Flusher : Le(flush[f].goal, memory)

\* What a resolved call promised is on storage; or a failure is on display, and
\* no write that could take it down holds less than was promised.
Reported ==
    \A f \in Flusher : flush[f].pc = "resolved" =>
        \/ Le(flush[f].goal, disk)
        \/ persistenceFailure /\ \A p \in InPlay : Le(flush[f].goal, p.data)

FInv == Owned /\ NoSilentStall /\ Goals /\ Reported

-----------------------------------------------------------------------------
(* The queue operators *)

\* enforcePendingSaveCap keeps the newest part of the queue: a suffix of it, not
\* empty when the queue was not, and within the limit.
LEMMA CapKeepsSuffix ==
    ASSUME NEW q \in Seq(Save), Len(q) > 0
    PROVE  /\ Cap(q) \in Seq(Save)
           /\ Len(Cap(q)) > 0
           /\ Len(Cap(q)) <= MaxPendingSaves
           /\ \E k \in Nat :
                 /\ Len(q) = Len(Cap(q)) + k
                 /\ \A i \in 1..Len(Cap(q)) : Cap(q)[i] = q[i + k]
<1> DEFINE n == Len(q) - MaxPendingSaves
<1>1. CASE Len(q) > MaxPendingSaves
  <2>1. Cap(q) = SubSeq(q, n + 1, Len(q))
    BY <1>1 DEF Cap
  <2>2. n \in Nat /\ n > 0 /\ Len(q) \in Nat
    BY <1>1, SaveQueueAssumption
  <2>3. /\ SubSeq(q, n + 1, Len(q)) \in Seq(Save)
        /\ Len(SubSeq(q, n + 1, Len(q))) = MaxPendingSaves
        /\ \A i \in 1..MaxPendingSaves : SubSeq(q, n + 1, Len(q))[i] = q[i + n]
    BY <2>2, SaveQueueAssumption
  <2>4. Len(q) = Len(Cap(q)) + n
    BY <2>1, <2>2, <2>3, SaveQueueAssumption
  <2>5. \A i \in 1..Len(Cap(q)) : Cap(q)[i] = q[i + n]
    BY <2>1, <2>3
  <2>6. Cap(q) \in Seq(Save) /\ Len(Cap(q)) > 0 /\ Len(Cap(q)) <= MaxPendingSaves
    BY <2>1, <2>2, <2>3, SaveQueueAssumption
  <2> HIDE DEF n
  <2>7. QED
    BY <2>2, <2>4, <2>5, <2>6
<1>2. CASE ~(Len(q) > MaxPendingSaves)
  <2>1. Cap(q) = q
    BY <1>2 DEF Cap
  <2>2. Len(q) = Len(Cap(q)) + 0
    BY <2>1
  <2>3. \A i \in 1..Len(Cap(q)) : Cap(q)[i] = q[i + 0]
    BY <2>1
  <2>4. Len(q) <= MaxPendingSaves
    BY <1>2, SaveQueueAssumption
  <2>5. QED
    BY <2>1, <2>2, <2>3, <2>4
<1>3. QED
  BY <1>1, <1>2

\* What pushing x and enforcing the cap leaves in the queue.
Pushed(q, x) ==
    /\ q \in Seq(Save)
    /\ Len(q) > 0
    /\ Len(q) <= MaxPendingSaves
    /\ q[Len(q)] = x
    /\ \E k \in Nat : \A i \in 1..Len(q) :
          i < Len(q) => i + k \in 1..Len(pendingSaves) /\ q[i] = pendingSaves[i + k]

\* Pushing x and enforcing the cap leaves x last and otherwise old snapshots.
LEMMA CapPushes ==
    ASSUME TypeOK, NEW x \in Save
    PROVE  Pushed(Cap(Append(pendingSaves, x)), x)
<1> DEFINE a == Append(pendingSaves, x)
           c == Cap(a)
<1>1. pendingSaves \in Seq(Save)
  BY DEF TypeOK
<1>2. /\ a \in Seq(Save) /\ Len(a) = Len(pendingSaves) + 1
      /\ a[Len(a)] = x
      /\ \A i \in 1..Len(pendingSaves) : a[i] = pendingSaves[i]
      /\ Len(a) > 0
  BY <1>1
<1>3. PICK k \in Nat : /\ c \in Seq(Save) /\ Len(c) > 0 /\ Len(c) <= MaxPendingSaves
                       /\ Len(a) = Len(c) + k
                       /\ \A i \in 1..Len(c) : c[i] = a[i + k]
  <2> HIDE DEF a
  <2> QED BY <1>2, CapKeepsSuffix
<1>4. c[Len(c)] = x
  BY <1>2, <1>3
<1>5. \A i \in 1..Len(c) :
         i < Len(c) => i + k \in 1..Len(pendingSaves) /\ c[i] = pendingSaves[i + k]
  BY <1>1, <1>2, <1>3
<1>6. QED
  BY <1>3, <1>4, <1>5 DEF Pushed

\* A queue of one is within the cap.
LEMMA CapSingleton ==
    ASSUME NEW x \in Save
    PROVE  Cap(<<x>>) = <<x>>
BY SaveQueueAssumption DEF Cap

\* The types of what is in play.
LEMMA QueuedFacts ==
    ASSUME TypeOK
    PROVE  /\ Queued \subseteq Save
           /\ Queued = {} <=> pendingSaves = <<>>
           /\ \A p \in InPlay : p.version \in Nat /\ p.data \in Rows
<1>1. pendingSaves \in Seq(Save) /\ Len(pendingSaves) \in Nat
  BY DEF TypeOK
<1>2. Queued \subseteq Save
  BY <1>1 DEF Queued
<1>3. Queued = {} <=> pendingSaves = <<>>
  <2>1. pendingSaves = <<>> => Queued = {}
    BY DEF Queued
  <2>2. pendingSaves # <<>> => pendingSaves[1] \in Queued
    BY <1>1 DEF Queued
  <2>3. QED
    BY <2>1, <2>2
<1>4. \A p \in InPlay : p.version \in Nat /\ p.data \in Rows
  BY <1>2 DEF InPlay, InFlight, TypeOK, Save, RowSave
<1>5. QED
  BY <1>2, <1>3, <1>4

\* The snapshot a flush writes is the newest of the queue.
LEMMA LastIsNewest ==
    ASSUME TypeOK, Sorted, pendingSaves # <<>>
    PROVE  /\ pendingSaves[Len(pendingSaves)] \in Queued
           /\ Newest(pendingSaves[Len(pendingSaves)])
<1> DEFINE n == Len(pendingSaves)
<1>1. pendingSaves \in Seq(Save) /\ n \in Nat /\ n > 0
  BY DEF TypeOK
<1>2. pendingSaves[n] \in Queued
  BY <1>1 DEF Queued
<1>3. ASSUME NEW i \in 1..n
      PROVE  pendingSaves[i].version <= pendingSaves[n].version
  <2>1. n \in 1..n /\ pendingSaves[i] \in Save /\ pendingSaves[n] \in Save
    BY <1>1
  <2>2. CASE i = n
    BY <2>1, <2>2 DEF Save
  <2>3. CASE i < n
    BY <2>1, <2>3 DEF Sorted, Save
  <2>4. QED
    BY <1>1, <2>2, <2>3
<1>4. QED
  BY <1>2, <1>3 DEF Newest, Queued

\* Pushing a snapshot newer than those that wait.
LEMMA PushFacts ==
    ASSUME TypeOK, RetryAtFront, Sorted,
           NEW x \in Save, x.attempts = 0, \A p \in Queued : p.version < x.version,
           pendingSaves' = Cap(Append(pendingSaves, x))
    PROVE  /\ pendingSaves' \in Seq(Save) /\ Len(pendingSaves') <= MaxPendingSaves
           /\ RetryAtFront'
           /\ Sorted'
           /\ Queued' \subseteq Queued \cup {x}
           /\ x \in Queued'
<1> DEFINE L == Len(pendingSaves')
<1>1. Pushed(pendingSaves', x)
  BY CapPushes
<1>2. PICK k \in Nat : \A i \in 1..L :
         i < L => i + k \in 1..Len(pendingSaves) /\ pendingSaves'[i] = pendingSaves[i + k]
  BY <1>1 DEF Pushed
<1>3. /\ pendingSaves' \in Seq(Save) /\ L \in Nat /\ L > 0 /\ L <= MaxPendingSaves
      /\ pendingSaves'[L] = x /\ Len(pendingSaves) \in Nat
  BY <1>1 DEF Pushed, TypeOK
<1>4. RetryAtFront'
  <2> SUFFICES ASSUME NEW i \in 2..L PROVE pendingSaves'[i].attempts = 0
    BY DEF RetryAtFront
  <2>1. CASE i = L
    BY <2>1, <1>3
  <2>2. CASE i < L
    <3>1. i + k \in 2..Len(pendingSaves) /\ pendingSaves'[i] = pendingSaves[i + k]
      BY <2>2, <1>2, <1>3
    <3>2. QED
      BY <3>1 DEF RetryAtFront
  <2>3. QED
    BY <2>1, <2>2, <1>3
<1>5. Sorted'
  <2> SUFFICES ASSUME NEW i \in 1..L, NEW j \in 1..L, i < j
               PROVE  pendingSaves'[i].version < pendingSaves'[j].version
    BY DEF Sorted
  <2>1. i < L /\ i + k \in 1..Len(pendingSaves) /\ pendingSaves'[i] = pendingSaves[i + k]
    BY <1>2, <1>3
  <2>2. CASE j = L
    BY <2>1, <2>2, <1>3 DEF Queued
  <2>3. CASE j < L
    <3>1. j + k \in 1..Len(pendingSaves) /\ pendingSaves'[j] = pendingSaves[j + k]
      BY <2>3, <1>2, <1>3
    <3>2. i + k < j + k
      BY <1>3
    <3>3. QED
      BY <2>1, <3>1, <3>2 DEF Sorted
  <2>4. QED
    BY <2>2, <2>3, <1>3
<1>6. Queued' \subseteq Queued \cup {x}
  <2> SUFFICES ASSUME NEW i \in 1..L PROVE pendingSaves'[i] \in Queued \cup {x}
    BY DEF Queued
  <2>1. CASE i = L
    BY <2>1, <1>3
  <2>2. CASE i < L
    BY <2>2, <1>2 DEF Queued
  <2>3. QED
    BY <2>1, <2>2, <1>3
<1>7. x \in Queued'
  BY <1>3 DEF Queued
<1>8. QED
  BY <1>3, <1>4, <1>5, <1>6, <1>7

-----------------------------------------------------------------------------
(* Each step keeps the invariant *)

\* Storage has no row that memory lacks.
LEMMA OnDiskIsInMemory ==
    ASSUME IInv, NEW r \in Row, OnDisk(r)
    PROVE  memory[r] > 0
<1>1. TypeOK /\ Monotone /\ Anchored
  BY DEF IInv
<1>2. disk[r] \in Nat /\ memory[r] \in Nat
  BY <1>1 DEF TypeOK, Rows
<1>3. CASE disk[r] > 0
  BY <1>1, <1>2, <1>3 DEF Monotone, Le
<1>4. CASE \E s \in immediateSaves : s.row = r
  <2>1. PICK s \in immediateSaves : s.row = r
    BY <1>4
  <2>2. s \in InPlay /\ s.data[r] > 0 /\ s.data[r] \in Nat
    BY <1>1, QueuedFacts DEF Anchored, InPlay, Rows
  <2>3. QED
    BY <1>1, <1>2, <2>2 DEF Monotone, Le
<1>5. QED
  BY <1>3, <1>4 DEF OnDisk

\* An empty store satisfies the invariant.
LEMMA InitIInv == Init => IInv
<1> SUFFICES ASSUME Init PROVE IInv
  OBVIOUS
<1>1. NoRows \in Rows /\ NoSave \in Save
  BY SaveQueueAssumption DEF NoRows, Rows, NoSave, Save
<1>2. NoCall("idle") \in Call
  BY <1>1 DEF NoCall, Call, FlushState
<1>3. TypeOK
  <2>1. /\ memory \in Rows /\ disk \in Rows /\ saveInFlight \in Save
        /\ flush \in [Flusher -> Call]
    BY <1>1, <1>2 DEF Init
  <2>2. /\ pendingSaves \in Seq(Save) /\ Len(pendingSaves) <= MaxPendingSaves
        /\ storageQueue \in Seq(Nat)
    BY SaveQueueAssumption DEF Init
  <2>3. QED
    BY <2>1, <2>2 DEF Init, TypeOK
<1>4. pendingSaves = <<>> /\ immediateSaves = {} /\ ~SavingNow
  BY DEF Init, SavingNow, NoSave
<1>5. InPlay = {} /\ Queued = {} /\ RetryAtFront /\ Sorted
  BY <1>4 DEF InPlay, InFlight, Queued, RetryAtFront, Sorted
<1>6. disk = memory /\ savedVersion = 0 /\ pendingVersion = 0 /\ memory \in [Row -> Nat]
  BY <1>1 DEF Init, Rows
<1>7. Drawn /\ Monotone
  BY <1>4, <1>5, <1>6 DEF Drawn, Monotone, Le
<1>8. Covered /\ Anchored
  BY <1>5, <1>6 DEF Covered, Anchored, Written
<1>9. QED
  BY <1>3, <1>5, <1>7, <1>8 DEF IInv

\* Queuing a snapshot of the store as it now is, whatever was edited.
LEMMA EnqueueKeepsIInv ==
    ASSUME IInv, EnqueuePendingSave(memory'), memory' \in Rows, Le(memory, memory'),
           UNCHANGED <<disk, savedVersion, saveInFlight, immediateSaves>>,
           storageQueue' \in Seq(Nat), flush' \in [Flusher -> Call]
    PROVE  IInv'
<1> DEFINE x == NewSave(pendingVersion + 1, memory')
<1>1. /\ TypeOK /\ RetryAtFront /\ Sorted /\ Drawn /\ Monotone /\ Covered /\ Anchored
      /\ disk' = disk /\ savedVersion' = savedVersion
      /\ saveInFlight' = saveInFlight /\ immediateSaves' = immediateSaves
      /\ disk \in Rows /\ memory \in Rows /\ pendingVersion \in Nat /\ savedVersion \in Nat
  BY DEF IInv, TypeOK
<1>2. /\ x \in Save /\ x.version = pendingVersion + 1 /\ x.data = memory' /\ x.attempts = 0
  BY <1>1, SaveQueueAssumption DEF NewSave, Save
<1>3. pendingVersion' = pendingVersion + 1 /\ pendingSaves' = Cap(Append(pendingSaves, x))
  BY DEF EnqueuePendingSave
<1> HIDE DEF x
<1>4. \A p \in InPlay : p.version \in Nat /\ p.data \in Rows /\ p.version < x.version
  BY <1>1, <1>2, QueuedFacts DEF Drawn
<1>5. \A p \in Queued : p.version < x.version
  BY <1>4 DEF InPlay
<1>6. /\ pendingSaves' \in Seq(Save) /\ Len(pendingSaves') <= MaxPendingSaves
      /\ RetryAtFront' /\ Sorted'
      /\ Queued' \subseteq Queued \cup {x} /\ x \in Queued'
  BY <1>1, <1>2, <1>3, <1>5, PushFacts
<1>7. TypeOK'
  BY <1>1, <1>3, <1>6 DEF TypeOK, EnqueuePendingSave
<1>8. InFlight' = InFlight /\ (SavingNow' <=> SavingNow)
  BY <1>1 DEF InFlight, SavingNow
<1>9. InPlay' \subseteq InPlay \cup {x} /\ x \in InPlay'
  BY <1>1, <1>6, <1>8 DEF InPlay
<1>10. Drawn'
  <2>1. \A p \in InPlay' : savedVersion < p.version /\ p.version <= pendingVersion'
    BY <1>1, <1>2, <1>3, <1>4, <1>9 DEF Drawn
  <2>2. \A p, q \in InPlay' : p.version = q.version => p = q
    BY <1>1, <1>2, <1>4, <1>9 DEF Drawn
  <2>3. SavingNow => saveInFlight \in InPlay
    BY DEF InPlay, InFlight
  <2>4. SavingNow => \A p \in Queued' \cup immediateSaves : saveInFlight.version < p.version
    BY <1>1, <1>4, <1>6, <2>3 DEF Drawn
  <2>5. QED
    BY <1>1, <1>3, <1>8, <2>1, <2>2, <2>4 DEF Drawn
<1>11. Monotone'
  <2>1. Le(disk, memory') /\ \A p \in InPlay : Le(p.data, memory')
    BY <1>1, <1>4 DEF Monotone, Le, Rows
  <2>2. Le(memory', memory')
    BY DEF Le, Rows
  <2>3. \A p \in InPlay' : Le(p.data, memory')
    BY <1>2, <1>9, <2>1, <2>2
  <2>4. \A p, q \in InPlay' : p.version < q.version => Le(p.data, q.data)
    BY <1>1, <1>2, <1>4, <1>9, <2>3 DEF Monotone
  <2>5. QED
    BY <1>1, <2>1, <2>3, <2>4 DEF Monotone
<1>12. \A p \in InPlay' : Newest(p)' => p = x
  BY <1>4, <1>6, <1>9, <1>2, <1>1 DEF Newest
<1>13. Covered'
  BY <1>2, <1>6, <1>12 DEF Covered
<1>14. \A r \in Row : OnDisk(r)' => OnDisk(r)
  BY <1>1 DEF OnDisk
<1>15. \A r \in Row : OnDisk(r) => memory'[r] > 0
  BY <1>1, OnDiskIsInMemory DEF IInv, Le, Rows
<1>16. Anchored'
  BY <1>1, <1>2, <1>9, <1>12, <1>14, <1>15 DEF Anchored
<1>17. QED
  BY <1>6, <1>7, <1>10, <1>11, <1>13, <1>16 DEF IInv

\* An edit persisted by snapshot.
LEMMA EditSnapshotKeepsIInv ==
    ASSUME IInv, NEW r \in Row, EditSnapshot(r)
    PROVE  IInv'
<1>1. /\ memory \in Rows /\ storageQueue \in Seq(Nat) /\ flush \in [Flusher -> Call]
  BY DEF IInv, TypeOK
<1>2. memory' \in Rows /\ Le(memory, memory')
  BY <1>1 DEF EditSnapshot, Rows, Le
<1>3. EnqueuePendingSave(memory')
  BY DEF EditSnapshot
<1>4. UNCHANGED <<disk, savedVersion, saveInFlight, immediateSaves, storageQueue, flush>>
  BY DEF EditSnapshot
<1>5. storageQueue' \in Seq(Nat) /\ flush' \in [Flusher -> Call]
  BY <1>1, <1>4
<1>6. QED
  BY <1>2, <1>3, <1>4, <1>5, EnqueueKeepsIInv

\* retryPersistence and the replay of a capture.
LEMMA RetryKeepsIInv ==
    ASSUME IInv, NEW f \in Flusher, RetryPersistence(f)
    PROVE  IInv'
<1>1. /\ memory \in Rows /\ storageQueue \in Seq(Nat) /\ flush \in [Flusher -> Call]
  BY DEF IInv, TypeOK
<1>2. UNCHANGED <<memory, disk, savedVersion, saveInFlight, immediateSaves, storageQueue>>
  BY DEF RetryPersistence
<1>3. memory' \in Rows /\ Le(memory, memory')
  BY <1>1, <1>2 DEF Rows, Le
<1>4. EnqueuePendingSave(memory')
  BY <1>2 DEF RetryPersistence
<1>5. [NewCall EXCEPT !.pc = "enter"] \in Call
  BY <1>1 DEF NewCall, Call, FlushState
<1>6. storageQueue' \in Seq(Nat) /\ flush' \in [Flusher -> Call]
  BY <1>1, <1>2, <1>5 DEF RetryPersistence
<1>7. QED
  BY <1>2, <1>3, <1>4, <1>6, EnqueueKeepsIInv

\* An edit persisted by an immediate row write.
LEMMA EditRowKeepsIInv ==
    ASSUME IInv, NEW e \in Row, EditRow(e)
    PROVE  IInv'
<1> DEFINE x == [version |-> pendingVersion', data |-> memory', row |-> e]
<1>1. /\ TypeOK /\ RetryAtFront /\ Sorted /\ Drawn /\ Monotone /\ Covered /\ Anchored
      /\ disk \in Rows /\ memory \in Rows /\ pendingVersion \in Nat /\ savedVersion \in Nat
  BY DEF IInv, TypeOK
<1>2. /\ memory' = [memory EXCEPT ![e] = @ + 1] /\ memory[e] > 0
      /\ pendingVersion' = pendingVersion + 1
      /\ immediateSaves' = immediateSaves \cup {x}
      /\ storageQueue' = Append(storageQueue, pendingVersion')
      /\ pendingSaves = <<>>
      /\ disk' = disk /\ pendingSaves' = pendingSaves /\ savedVersion' = savedVersion
      /\ saveInFlight' = saveInFlight /\ scheduledSaveTimer' = scheduledSaveTimer
      /\ persistenceFailure' = persistenceFailure /\ flush' = flush
  BY DEF EditRow
<1>3. /\ memory' \in Rows /\ Le(memory, memory') /\ memory'[e] > 0
      /\ \A r \in Row : r # e => memory'[r] = memory[r]
  BY <1>1, <1>2 DEF Rows, Le
<1>4. /\ x \in RowSave /\ x.version = pendingVersion + 1 /\ x.data = memory' /\ x.row = e
  BY <1>1, <1>2, <1>3 DEF RowSave
<1> HIDE DEF x
<1>5. \A p \in InPlay : p.version \in Nat /\ p.data \in Rows /\ p.version < x.version
  BY <1>1, <1>4, QueuedFacts DEF Drawn
<1>6. Queued = {} /\ Queued' = {}
  BY <1>2 DEF Queued
<1>7. InFlight' = InFlight /\ (SavingNow' <=> SavingNow)
  BY <1>2 DEF InFlight, SavingNow
<1>8. InPlay' = InPlay \cup {x} /\ x \in InPlay'
  BY <1>2, <1>6, <1>7 DEF InPlay
<1>9. TypeOK'
  <2>1. storageQueue' \in Seq(Nat)
    BY <1>1, <1>2 DEF TypeOK
  <2>2. immediateSaves' \in SUBSET RowSave
    BY <1>1, <1>2, <1>4 DEF TypeOK
  <2>3. QED
    BY <1>1, <1>2, <1>3, <2>1, <2>2 DEF TypeOK
<1>10. RetryAtFront' /\ Sorted'
  BY <1>1, <1>2 DEF RetryAtFront, Sorted
<1>11. Drawn'
  <2>1. \A p \in InPlay' : savedVersion < p.version /\ p.version <= pendingVersion'
    BY <1>1, <1>2, <1>4, <1>5, <1>8 DEF Drawn
  <2>2. \A p, q \in InPlay' : p.version = q.version => p = q
    BY <1>1, <1>4, <1>5, <1>8 DEF Drawn
  <2>3. SavingNow => saveInFlight \in InPlay
    BY DEF InPlay, InFlight
  <2>4. SavingNow => \A p \in Queued' \cup immediateSaves' : saveInFlight.version < p.version
    BY <1>1, <1>2, <1>5, <1>6, <2>3 DEF Drawn
  <2>5. QED
    BY <1>1, <1>2, <1>7, <2>1, <2>2, <2>4 DEF Drawn
<1>12. Monotone'
  <2>1. Le(disk, memory') /\ \A p \in InPlay : Le(p.data, memory')
    BY <1>1, <1>3, <1>5 DEF Monotone, Le, Rows
  <2>2. Le(memory', memory')
    BY <1>3 DEF Le, Rows
  <2>3. \A p \in InPlay' : Le(p.data, memory')
    BY <1>4, <1>8, <2>1, <2>2
  <2>4. \A p, q \in InPlay' : p.version < q.version => Le(p.data, q.data)
    BY <1>1, <1>4, <1>5, <1>8, <2>3 DEF Monotone
  <2>5. QED
    BY <1>2, <2>1, <2>3, <2>4 DEF Monotone
<1>13. \A r \in Row : Written(r) \/ r = e => Written(r)'
  BY <1>2, <1>3, <1>4 DEF Written
<1>14. \A p \in InPlay : Newest(p)
  BY <1>6 DEF Newest
<1>15. Covered'
  <2>1. \A p \in InPlay : \A r \in Row : p.data[r] = memory'[r] \/ Written(r)'
    BY <1>1, <1>3, <1>13, <1>14 DEF Covered
  <2>2. \A p \in InPlay' : \A r \in Row : p.data[r] = memory'[r] \/ Written(r)'
    BY <1>4, <1>8, <2>1
  <2>3. \/ persistenceFailure' \/ SavingNow' \/ \A r \in Row : Written(r)'
    BY <1>1, <1>2, <1>6, <1>7, <1>13 DEF Covered
  <2>4. QED
    BY <2>2, <2>3 DEF Covered
<1>16. \A r \in Row : OnDisk(r)' => OnDisk(r) \/ r = e
  BY <1>2, <1>4 DEF OnDisk
<1>17. \A p \in InPlay, r \in Row : memory[r] > 0 => p.data[r] > 0
  BY <1>1, <1>14 DEF Anchored
<1>18. \A r \in Row : memory'[r] > 0 => memory[r] > 0
  BY <1>2, <1>3
<1>19. \A r \in Row : OnDisk(r) => memory'[r] > 0
  BY <1>1, <1>3, OnDiskIsInMemory DEF IInv, Le, Rows
<1>20. Anchored'
  <2>1. \A p \in InPlay' : \A r \in Row : OnDisk(r)' => p.data[r] > 0
    BY <1>1, <1>2, <1>3, <1>4, <1>8, <1>16, <1>17, <1>19 DEF Anchored
  <2>2. \A p \in InPlay' : \A r \in Row : memory'[r] > 0 => p.data[r] > 0
    BY <1>4, <1>8, <1>17, <1>18
  <2>3. QED
    BY <2>1, <2>2 DEF Anchored
<1>21. QED
  BY <1>9, <1>10, <1>11, <1>12, <1>15, <1>20 DEF IInv
\* A step of flushPendingSave: it waits, returns, or takes the whole queue and
\* writes its newest snapshot.
LEMMA FlushLoopKeepsIInv ==
    ASSUME IInv, NEW f \in Flusher, NEW c \in Call, FlushLoop(f, c, pendingSaves),
           scheduledSaveTimer' \in BOOLEAN,
           UNCHANGED <<memory, disk, pendingVersion, savedVersion, immediateSaves,
                       persistenceFailure>>
    PROVE  IInv'
<1>1. /\ TypeOK /\ RetryAtFront /\ Sorted /\ Drawn /\ Monotone /\ Covered /\ Anchored
      /\ pendingSaves \in Seq(Save) /\ saveInFlight \in Save /\ storageQueue \in Seq(Nat)
      /\ flush \in [Flusher -> Call] /\ immediateSaves \in SUBSET RowSave
  BY DEF IInv, TypeOK
<1>2. /\ memory' = memory /\ disk' = disk /\ pendingVersion' = pendingVersion
      /\ savedVersion' = savedVersion /\ immediateSaves' = immediateSaves
      /\ persistenceFailure' = persistenceFailure
  OBVIOUS
<1>3. pendingSaves # <<>> => Fresh(pendingSaves)
  BY <1>1, LastIsNewest, QueuedFacts DEF Fresh, Drawn, InPlay, TypeOK
<1>4. ASSUME NEW pc \in FlushState, NEW on \in SUBSET Nat
      PROVE  [c EXCEPT !.pc = pc, !.on = on] \in Call /\ [c EXCEPT !.pc = pc] \in Call
  BY DEF Call
<1>5. flush' \in [Flusher -> Call]
  <2>1. {s.version : s \in immediateSaves} \in SUBSET Nat
    BY <1>1 DEF RowSave
  <2>2. {"awaitImmediate", "awaitSave", "resolved", "saving"} \subseteq FlushState
    BY DEF FlushState
  <2>3. PICK d \in Call : flush' = [flush EXCEPT ![f] = d]
    <3>1. [c EXCEPT !.pc = "awaitImmediate", !.on = {s.version : s \in immediateSaves}] \in Call
      BY <1>4, <2>1, <2>2
    <3>2. /\ [c EXCEPT !.pc = "awaitSave"] \in Call /\ [c EXCEPT !.pc = "resolved"] \in Call
          /\ [c EXCEPT !.pc = "saving"] \in Call
      BY <1>4, <2>2
    <3>3. QED
      BY <3>1, <3>2 DEF FlushLoop
  <2>4. QED
    BY <1>1, <2>3
<1>6. CASE pendingSaves' = pendingSaves /\ UNCHANGED <<saveInFlight, storageQueue>>
  <2>1. TypeOK'
    BY <1>1, <1>2, <1>5, <1>6 DEF TypeOK
  <2>2. /\ Queued' = Queued /\ InFlight' = InFlight /\ InPlay' = InPlay
        /\ (SavingNow' <=> SavingNow)
    BY <1>2, <1>6 DEF Queued, InFlight, InPlay, SavingNow
  <2>3. \A p : Newest(p)' <=> Newest(p)
    BY <2>2 DEF Newest
  <2>4. \A r : (Written(r)' <=> Written(r)) /\ (OnDisk(r)' <=> OnDisk(r))
    BY <1>2 DEF Written, OnDisk
  <2>5. RetryAtFront' /\ Sorted'
    BY <1>1, <1>6 DEF RetryAtFront, Sorted
  <2>6. Drawn' /\ Monotone'
    BY <1>1, <1>2, <1>6, <2>2 DEF Drawn, Monotone
  <2>7. Covered' /\ Anchored'
    BY <1>1, <1>2, <1>6, <2>2, <2>3, <2>4 DEF Covered, Anchored
  <2>8. QED
    BY <2>1, <2>5, <2>6, <2>7 DEF IInv
<1>7. CASE /\ immediateSaves = {} /\ ~SavingNow /\ Fresh(pendingSaves)
           /\ saveInFlight' = [pendingSaves[Len(pendingSaves)]
                                 EXCEPT !.attempts = MaxAttempts(pendingSaves)]
           /\ storageQueue' = Append(storageQueue, pendingSaves[Len(pendingSaves)].version)
           /\ pendingSaves' = <<>>
  <2> DEFINE n == Len(pendingSaves)
             l == pendingSaves[n]
  <2>1. /\ n \in Nat /\ n > 0 /\ l \in Save /\ l.version > savedVersion
        /\ l \in Queued /\ l \in InPlay /\ Newest(l)
    BY <1>1, <1>7, LastIsNewest DEF Fresh, InPlay
  <2>2. MaxAttempts(pendingSaves) \in 0..(MaxSaveRetryAttempts - 1)
    <3> DEFINE S == {pendingSaves[i].attempts : i \in 1..n}
    <3>1. \A i \in 1..n : pendingSaves[i] \in Save
      BY <1>1
    <3>2. pendingSaves[1].attempts \in S
      BY <2>1
    <3>3. \A i \in 1..n : pendingSaves[i].attempts <= pendingSaves[1].attempts
      <4> SUFFICES ASSUME NEW i \in 1..n
                   PROVE  pendingSaves[i].attempts <= pendingSaves[1].attempts
        OBVIOUS
      <4>1. 1 \in 1..n /\ (i = 1 \/ i \in 2..n)
        BY <2>1
      <4>2. pendingSaves[1].attempts \in Nat
        BY <3>1, <4>1, SaveQueueAssumption DEF Save
      <4>3. QED
        BY <1>1, <4>1, <4>2 DEF RetryAtFront
    <3>4. MaxAttempts(pendingSaves) \in S
      <4>1. \E m \in S : \A i \in 1..n : pendingSaves[i].attempts <= m
        BY <3>2, <3>3
      <4>2. MaxAttempts(pendingSaves)
              = CHOOSE m \in S : \A i \in 1..n : pendingSaves[i].attempts <= m
        BY DEF MaxAttempts
      <4> HIDE DEF S
      <4>3. QED
        BY <4>1, <4>2
    <3>5. QED
      BY <3>1, <3>4 DEF Save
  <2>3. /\ saveInFlight' \in Save /\ saveInFlight'.version = l.version
        /\ saveInFlight'.data = l.data
    BY <1>7, <2>1, <2>2 DEF Save
  <2>4. SavingNow'
    BY <1>1, <2>1, <2>3 DEF SavingNow, TypeOK, Save
  <2>5. Queued' = {} /\ immediateSaves' = {} /\ InPlay' = {saveInFlight'}
    BY <1>2, <1>7, <2>4 DEF Queued, InPlay, InFlight
  <2>6. TypeOK'
    <3>1. storageQueue' \in Seq(Nat) /\ pendingSaves' \in Seq(Save)
      BY <1>1, <1>7, <2>1 DEF Save
    <3>2. Len(pendingSaves') <= MaxPendingSaves
      BY <1>7, SaveQueueAssumption
    <3>3. QED
      BY <1>1, <1>2, <1>5, <2>3, <3>1, <3>2 DEF TypeOK
  <2>7. RetryAtFront' /\ Sorted'
    BY <1>7 DEF RetryAtFront, Sorted
  <2>8. Drawn'
    BY <1>1, <1>2, <2>1, <2>3, <2>5 DEF Drawn
  <2>9. Monotone'
    <3>1. Le(l.data, memory)
      BY <1>1, <2>1 DEF Monotone
    <3>2. saveInFlight'.version \in Nat
      BY <2>3 DEF Save
    <3>3. QED
      BY <1>1, <1>2, <2>3, <2>5, <3>1, <3>2 DEF Monotone
  <2>10. \A r : (Written(r)' <=> Written(r)) /\ (OnDisk(r)' <=> OnDisk(r))
    BY <1>2 DEF Written, OnDisk
  <2>11. Covered' /\ Anchored'
    BY <1>1, <1>2, <2>1, <2>3, <2>4, <2>5, <2>10 DEF Covered, Anchored
  <2>12. QED
    BY <2>6, <2>7, <2>8, <2>9, <2>11 DEF IInv
<1>8. QED
  BY <1>3, <1>6, <1>7 DEF FlushLoop

\* flushPendingSave, entered by a caller or by the timer.
LEMMA FlushEnterKeepsIInv ==
    ASSUME IInv, NEW f \in Flusher, FlushEnter(f)
    PROVE  IInv'
<1>1. NewCall \in Call
  BY DEF NewCall, Call, FlushState, IInv, TypeOK
<1>2. QED
  BY <1>1, FlushLoopKeepsIInv DEF FlushEnter

\* flushPendingSave resumed after an await.
LEMMA FlushContinueKeepsIInv ==
    ASSUME IInv, NEW f \in Flusher, FlushContinue(f)
    PROVE  IInv'
<1>1. flush[f] \in Call /\ scheduledSaveTimer \in BOOLEAN
  BY DEF IInv, TypeOK
<1>2. scheduledSaveTimer' \in BOOLEAN
  BY <1>1 DEF FlushContinue
<1>3. QED
  BY <1>1, <1>2, FlushLoopKeepsIInv DEF FlushContinue

-----------------------------------------------------------------------------
(* The answers of storage *)

\* The calls that an answer wakes stay well typed.
LEMMA WakesTyped ==
    ASSUME flush \in [Flusher -> Call]
    PROVE  /\ \A v \in Nat : /\ RowSaveWakes(v) \in [Flusher -> Call]
                            /\ RowSaveRejects(v) \in [Flusher -> Call]
           /\ \A pc \in {"loop", "sleep", "rejected"} :
                 SaveWakes(pc) \in [Flusher -> Call]
<1>1. NoCall("rejected") \in Call
  BY DEF NoCall, NoRows, Rows, Call, FlushState
<1>2. ASSUME NEW c \in Call
      PROVE  /\ \A pc \in FlushState : [c EXCEPT !.pc = pc] \in Call
             /\ \A pc \in FlushState : [c EXCEPT !.pc = pc, !.on = {}] \in Call
             /\ \A v \in Nat : [c EXCEPT !.on = @ \ {v}] \in Call
  BY DEF Call
<1>3. {"loop", "sleep", "rejected"} \subseteq FlushState
  BY DEF FlushState
<1>4. ASSUME NEW v \in Nat
      PROVE  RowSaveWakes(v) \in [Flusher -> Call] /\ RowSaveRejects(v) \in [Flusher -> Call]
  BY <1>1, <1>2, <1>3 DEF RowSaveWakes, RowSaveRejects
<1>5. ASSUME NEW pc \in {"loop", "sleep", "rejected"}
      PROVE  SaveWakes(pc) \in [Flusher -> Call]
  <2>1. ASSUME NEW f \in Flusher PROVE SaveWakes(pc)[f] \in Call
    <3>1. flush[f] \in Call /\ pc \in FlushState
      BY <1>3
    <3>2. CASE flush[f].pc = "awaitSave"
      BY <1>2, <1>3, <3>1, <3>2 DEF SaveWakes
    <3>3. CASE flush[f].pc = "saving"
      BY <1>1, <1>2, <3>1, <3>3 DEF SaveWakes
    <3>4. CASE flush[f].pc # "awaitSave" /\ flush[f].pc # "saving"
      BY <3>1, <3>4 DEF SaveWakes
    <3>5. QED
      BY <3>2, <3>3, <3>4
  <2>2. QED
    BY <2>1 DEF SaveWakes
<1>6. QED
  BY <1>4, <1>5

\* A row write that succeeds.
LEMMA RowSaveOkKeepsIInv ==
    ASSUME IInv, NEW s \in immediateSaves, RowSaveOk(s)
    PROVE  IInv'
<1>1. /\ TypeOK /\ RetryAtFront /\ Sorted /\ Drawn /\ Monotone /\ Covered /\ Anchored
      /\ disk \in Rows /\ memory \in Rows /\ storageQueue \in Seq(Nat)
      /\ flush \in [Flusher -> Call] /\ s \in RowSave
  BY DEF IInv, TypeOK
<1>2. /\ memory' = memory /\ pendingSaves' = pendingSaves /\ pendingVersion' = pendingVersion
      /\ savedVersion' = savedVersion /\ saveInFlight' = saveInFlight
      /\ scheduledSaveTimer' = scheduledSaveTimer /\ persistenceFailure' = persistenceFailure
      /\ immediateSaves' = immediateSaves \ {s} /\ flush' = RowSaveWakes(s.version)
      /\ disk' = UpsertRow(disk, s.row, s.data[s.row])
      /\ storageQueue # <<>> /\ storageQueue' = Tail(storageQueue)
  BY DEF RowSaveOk
<1>3. /\ s.version \in Nat /\ s.data \in Rows /\ s.row \in Row /\ s \in InPlay
  BY <1>1 DEF RowSave, InPlay
<1>4. /\ disk' \in Rows
      /\ \A r \in Row : r # s.row => disk'[r] = disk[r]
      /\ disk'[s.row] = IF disk[s.row] <= s.data[s.row] THEN s.data[s.row] ELSE disk[s.row]
  BY <1>1, <1>2, <1>3 DEF UpsertRow, Rows
<1>5. TypeOK'
  <2>1. flush' \in [Flusher -> Call]
    BY <1>1, <1>2, <1>3, WakesTyped
  <2>2. storageQueue' \in Seq(Nat)
    BY <1>1, <1>2
  <2>3. QED
    BY <1>1, <1>2, <1>4, <2>1, <2>2 DEF TypeOK
<1>6. /\ Queued' = Queued /\ InFlight' = InFlight /\ InPlay' \subseteq InPlay
      /\ (SavingNow' <=> SavingNow)
  BY <1>2 DEF Queued, InFlight, InPlay, SavingNow
<1>7. \A p : Newest(p)' <=> Newest(p)
  BY <1>6 DEF Newest
<1>8. RetryAtFront' /\ Sorted'
  BY <1>1, <1>2 DEF RetryAtFront, Sorted
<1>9. Drawn'
  BY <1>1, <1>2, <1>6 DEF Drawn
<1>10. Le(s.data, memory) /\ Le(disk, memory)
  BY <1>1, <1>3 DEF Monotone
<1>11. Monotone'
  <2>1. Le(disk', memory)
    BY <1>1, <1>3, <1>4, <1>10 DEF Le, Rows
  <2>2. QED
    BY <1>1, <1>2, <1>6, <2>1 DEF Monotone
<1>12. \A r \in Row : Written(r) => Written(r)'
  <2> SUFFICES ASSUME NEW r \in Row, Written(r) PROVE Written(r)'
    OBVIOUS
  <2>1. disk[r] \in Nat /\ memory[r] \in Nat /\ s.data[r] \in Nat
    BY <1>1, <1>3 DEF Rows
  <2>2. disk[r] <= memory[r] /\ s.data[r] <= memory[r]
    BY <1>10 DEF Le
  <2>3. CASE disk[r] = memory[r]
    BY <1>2, <1>4, <2>1, <2>2, <2>3 DEF Written
  <2>4. CASE s.row = r /\ s.data[r] = memory[r]
    BY <1>2, <1>4, <2>1, <2>2, <2>4 DEF Written
  <2>5. CASE \E t \in immediateSaves : t # s /\ t.row = r /\ t.data[r] = memory[r]
    BY <1>2, <2>5 DEF Written
  <2>6. QED
    BY <2>3, <2>4, <2>5 DEF Written
<1>13. Covered'
  BY <1>1, <1>2, <1>6, <1>7, <1>12 DEF Covered
<1>14. \A r \in Row : OnDisk(r)' => OnDisk(r)
  BY <1>2, <1>4 DEF OnDisk
<1>15. Anchored'
  BY <1>1, <1>2, <1>6, <1>7, <1>14 DEF Anchored
<1>16. QED
  BY <1>5, <1>8, <1>9, <1>11, <1>13, <1>15 DEF IInv

\* The snapshot of a failed row write is queued, or a newer one waits already:
\* what the row write carried is in the newest snapshot either way.
LEMMA RowSaveFailKeepsIInv ==
    ASSUME IInv, NEW s \in immediateSaves, RowSaveFail(s)
    PROVE  IInv'
<1> DEFINE x == NewSave(s.version, s.data)
<1>1. /\ TypeOK /\ RetryAtFront /\ Sorted /\ Drawn /\ Monotone /\ Covered /\ Anchored
      /\ disk \in Rows /\ memory \in Rows /\ storageQueue \in Seq(Nat)
      /\ flush \in [Flusher -> Call] /\ s \in RowSave
      /\ pendingSaves \in Seq(Save) /\ Len(pendingSaves) <= MaxPendingSaves
  BY DEF IInv, TypeOK
<1>2. /\ memory' = memory /\ disk' = disk /\ pendingVersion' = pendingVersion
      /\ savedVersion' = savedVersion /\ saveInFlight' = saveInFlight
      /\ scheduledSaveTimer' = scheduledSaveTimer /\ persistenceFailure' = TRUE
      /\ immediateSaves' = immediateSaves \ {s} /\ flush' = RowSaveRejects(s.version)
      /\ pendingSaves' = RequeueRowSave(s)
      /\ storageQueue # <<>> /\ storageQueue' = Tail(storageQueue)
  BY DEF RowSaveFail
<1>3. /\ s.version \in Nat /\ s.data \in Rows /\ s.row \in Row /\ s \in InPlay
  BY <1>1 DEF RowSave, InPlay
<1>4. x \in Save /\ x.version = s.version /\ x.data = s.data /\ x.attempts = 0
  BY <1>3, SaveQueueAssumption DEF NewSave, Save
<1>5. \A p \in InPlay : p.version \in Nat /\ p.data \in Rows
  BY <1>1, QueuedFacts
<1>6. HasNewer(pendingSaves, s.version) <=> \E q \in Queued : q.version > s.version
  BY DEF HasNewer, Queued
<1>7. \A q \in Queued : q \in InPlay /\ q # s
  BY <1>1, QueuedFacts DEF InPlay, Save, RowSave
<1>8. /\ pendingSaves' \in Seq(Save) /\ Len(pendingSaves') <= MaxPendingSaves
      /\ RetryAtFront' /\ Sorted'
      /\ Queued' \subseteq Queued \cup {x}
      /\ \E q \in Queued' : q.version >= s.version
      /\ (\E q \in Queued : q.version > s.version) => Queued' = Queued
  <2>1. CASE HasNewer(pendingSaves, s.version)
    <3>1. pendingSaves' = pendingSaves
      BY <1>2, <2>1 DEF RequeueRowSave
    <3>2. Queued' = Queued /\ RetryAtFront' /\ Sorted'
      BY <1>1, <3>1 DEF Queued, RetryAtFront, Sorted
    <3>3. QED
      BY <1>1, <1>3, <1>5, <1>6, <1>7, <2>1, <3>1, <3>2
  <2>2. CASE ~HasNewer(pendingSaves, s.version)
    <3>1. pendingSaves' = Cap(Append(pendingSaves, x))
      BY <1>2, <2>2 DEF RequeueRowSave
    <3>2. \A q \in Queued : q.version # s.version
      BY <1>1, <1>3, <1>7 DEF Drawn
    <3>3. \A q \in Queued : q.version < s.version
      BY <1>3, <1>5, <1>6, <1>7, <2>2, <3>2
    <3> HIDE DEF x
    <3>4. \A q \in Queued : q.version < x.version
      BY <1>4, <3>3
    <3>5. /\ pendingSaves' \in Seq(Save) /\ Len(pendingSaves') <= MaxPendingSaves
          /\ RetryAtFront' /\ Sorted'
          /\ Queued' \subseteq Queued \cup {x} /\ x \in Queued'
      BY <1>1, <1>4, <3>1, <3>4, PushFacts
    <3>6. x.version >= s.version
      BY <1>3, <1>4
    <3>7. QED
      BY <1>6, <2>2, <3>5, <3>6
  <2>3. QED
    BY <2>1, <2>2
<1> HIDE DEF x
<1>9. TypeOK'
  <2>1. flush' \in [Flusher -> Call]
    BY <1>1, <1>2, <1>3, WakesTyped
  <2>2. storageQueue' \in Seq(Nat)
    BY <1>1, <1>2
  <2>3. QED
    BY <1>1, <1>2, <1>8, <2>1, <2>2 DEF TypeOK
<1>10. /\ InFlight' = InFlight /\ (SavingNow' <=> SavingNow)
       /\ InPlay' \subseteq (InPlay \ {s}) \cup {x}
  <2>1. InFlight' = InFlight /\ (SavingNow' <=> SavingNow)
    BY <1>2 DEF InFlight, SavingNow
  <2>2. \A p \in InFlight : p # s
    <3>1. SavingNow => saveInFlight.version < s.version
      BY <1>1 DEF Drawn
    <3>2. QED
      BY <1>3, <3>1 DEF InFlight
  <2>3. QED
    BY <1>2, <1>7, <1>8, <2>1, <2>2 DEF InPlay
<1>11. \A p \in InPlay' : \E b \in InPlay : b.version = p.version /\ b.data = p.data
  BY <1>3, <1>4, <1>10
<1>12. Drawn'
  <2>1. \A p \in InPlay' : savedVersion < p.version /\ p.version <= pendingVersion
    BY <1>1, <1>11 DEF Drawn
  <2>2. \A p, q \in InPlay' : p.version = q.version => p = q
    BY <1>1, <1>3, <1>4, <1>10 DEF Drawn
  <2>3. SavingNow => \A p \in Queued' \cup immediateSaves' : saveInFlight.version < p.version
    BY <1>1, <1>2, <1>4, <1>8 DEF Drawn
  <2>4. QED
    BY <1>1, <1>2, <1>10, <2>1, <2>2, <2>3 DEF Drawn
<1>13. Monotone'
  <2>1. \A p \in InPlay' : Le(p.data, memory)
    BY <1>1, <1>11 DEF Monotone
  <2>2. \A p, q \in InPlay' : p.version < q.version => Le(p.data, q.data)
    <3> SUFFICES ASSUME NEW p \in InPlay', NEW q \in InPlay', p.version < q.version
                 PROVE  Le(p.data, q.data)
      OBVIOUS
    <3>1. PICK b \in InPlay : b.version = p.version /\ b.data = p.data
      BY <1>11
    <3>2. PICK d \in InPlay : d.version = q.version /\ d.data = q.data
      BY <1>11
    <3>3. QED
      BY <1>1, <3>1, <3>2 DEF Monotone
  <2>3. QED
    BY <1>1, <1>2, <2>1, <2>2 DEF Monotone
<1>14. ASSUME NEW p \in InPlay', Newest(p)'
       PROVE  \E b \in InPlay : /\ b.version = p.version /\ b.data = p.data
                                /\ Newest(b) /\ s.version <= b.version
  <2>1. PICK b \in InPlay : b.version = p.version /\ b.data = p.data
    BY <1>11
  <2>2. PICK q \in Queued' : q.version >= s.version
    BY <1>8
  <2>3. q.version <= p.version /\ b.version \in Nat /\ q.version \in Nat
    BY <1>3, <1>4, <1>5, <1>7, <1>8, <1>14, <2>1 DEF Newest
  <2>4. s.version <= b.version
    BY <1>3, <2>1, <2>2, <2>3
  <2>5. CASE \E t \in Queued : t.version > s.version
    BY <1>8, <1>14, <2>1, <2>4, <2>5 DEF Newest
  <2>6. CASE ~\E t \in Queued : t.version > s.version
    <3>1. \A t \in Queued : t.version <= s.version
      BY <1>3, <1>5, <1>7, <2>6
    <3>2. Newest(b)
      BY <1>3, <1>5, <1>7, <2>4, <3>1 DEF Newest
    <3>3. QED
      BY <2>1, <2>4, <3>2
  <2>7. QED
    BY <2>5, <2>6
<1>15. \A r \in Row : Written(r) => Written(r)' \/ (s.row = r /\ s.data[r] = memory[r])
  BY <1>2 DEF Written
<1>16. Covered'
  <2> SUFFICES ASSUME NEW p \in InPlay', Newest(p)', NEW r \in Row
               PROVE  p.data[r] = memory[r] \/ Written(r)'
    BY <1>2 DEF Covered
  <2>1. PICK b \in InPlay : /\ b.version = p.version /\ b.data = p.data
                            /\ Newest(b) /\ s.version <= b.version
    BY <1>14
  <2>2. /\ b.data[r] \in Nat /\ s.data[r] \in Nat /\ memory[r] \in Nat
        /\ b.version \in Nat
    BY <1>1, <1>3, <1>5 DEF Rows
  <2>3. s.data[r] <= b.data[r] /\ b.data[r] <= memory[r]
    <3>1. CASE s.version = b.version
      BY <1>1, <1>3, <2>1, <2>2, <3>1 DEF Drawn, Monotone, Le
    <3>2. CASE s.version < b.version
      BY <1>1, <1>3, <2>1, <2>2, <3>2 DEF Monotone, Le
    <3>3. QED
      BY <1>3, <2>1, <2>2, <3>1, <3>2
  <2>4. b.data[r] = memory[r] \/ Written(r)
    BY <1>1, <2>1 DEF Covered
  <2>5. QED
    BY <1>15, <2>1, <2>2, <2>3, <2>4
<1>17. \A r \in Row : OnDisk(r)' => OnDisk(r)
  BY <1>2 DEF OnDisk
<1>18. Anchored'
  <2>1. \A p \in InPlay' : \A r \in Row : OnDisk(r)' => p.data[r] > 0
    BY <1>1, <1>11, <1>17 DEF Anchored
  <2>2. \A p \in InPlay' : Newest(p)' => \A r \in Row : memory[r] > 0 => p.data[r] > 0
    <3> SUFFICES ASSUME NEW p \in InPlay', Newest(p)', NEW r \in Row, memory[r] > 0
                 PROVE  p.data[r] > 0
      OBVIOUS
    <3>1. PICK b \in InPlay : b.data = p.data /\ Newest(b)
      BY <1>14
    <3>2. QED
      BY <1>1, <3>1 DEF Anchored
  <2>3. QED
    BY <1>2, <2>1, <2>2 DEF Anchored
<1>19. QED
  BY <1>8, <1>9, <1>12, <1>13, <1>16, <1>18 DEF IInv

\* Writing the snapshot in flight: Anchored says that it removes no row.
LEMMA SaveOkKeepsIInv ==
    ASSUME IInv, SaveOk
    PROVE  IInv'
<1> DEFINE d == saveInFlight.data
           v == saveInFlight.version
<1>1. /\ TypeOK /\ RetryAtFront /\ Sorted /\ Drawn /\ Monotone /\ Covered /\ Anchored
      /\ disk \in Rows /\ memory \in Rows /\ storageQueue \in Seq(Nat)
      /\ flush \in [Flusher -> Call] /\ saveInFlight \in Save
  BY DEF IInv, TypeOK
<1>2. /\ memory' = memory /\ pendingSaves' = pendingSaves /\ pendingVersion' = pendingVersion
      /\ immediateSaves' = immediateSaves /\ scheduledSaveTimer' = scheduledSaveTimer
      /\ SavingNow /\ saveInFlight' = NoSave /\ persistenceFailure' = FALSE
      /\ savedVersion' = v /\ flush' = SaveWakes("loop") /\ disk' = UpsertAll(disk, d)
      /\ storageQueue # <<>> /\ storageQueue' = Tail(storageQueue)
  BY DEF SaveOk
<1>3. v \in Nat /\ d \in Rows /\ saveInFlight \in InPlay
  BY <1>1, <1>2 DEF Save, InPlay, InFlight
<1>4. /\ disk' \in Rows
      /\ \A r \in Row : disk'[r] = IF d[r] # 0 /\ disk[r] > d[r] THEN disk[r] ELSE d[r]
  BY <1>1, <1>2, <1>3 DEF UpsertAll, Rows
<1>5. TypeOK'
  <2>1. flush' \in [Flusher -> Call]
    BY <1>1, <1>2, WakesTyped
  <2>2. storageQueue' \in Seq(Nat)
    BY <1>1, <1>2
  <2>3. saveInFlight' \in Save
    BY <1>2, SaveQueueAssumption DEF NoSave, Save, NoRows, Rows
  <2>4. QED
    BY <1>1, <1>2, <1>3, <1>4, <2>1, <2>2, <2>3 DEF TypeOK
<1>6. /\ Queued' = Queued /\ ~SavingNow' /\ InPlay' = Queued \cup immediateSaves
      /\ InPlay' \subseteq InPlay
  BY <1>2 DEF Queued, InFlight, InPlay, SavingNow, NoSave
<1>7. \A p : Newest(p)' <=> Newest(p)
  BY <1>6 DEF Newest
<1>8. RetryAtFront' /\ Sorted'
  BY <1>1, <1>2 DEF RetryAtFront, Sorted
<1>9. \A p \in InPlay' : v < p.version
  BY <1>1, <1>2, <1>6 DEF Drawn
<1>10. Drawn'
  <2>1. v <= pendingVersion
    BY <1>1, <1>3 DEF Drawn
  <2>2. \A p \in InPlay' : p.version <= pendingVersion
    BY <1>1, <1>6 DEF Drawn
  <2>3. \A p, q \in InPlay' : p.version = q.version => p = q
    BY <1>1, <1>6 DEF Drawn
  <2>4. QED
    BY <1>2, <1>6, <1>9, <2>1, <2>2, <2>3 DEF Drawn
<1> HIDE DEF d, v
<1>11. Le(d, memory) /\ Le(disk, memory)
  BY <1>1, <1>3 DEF Monotone, d
<1>12. Monotone'
  <2>1. Le(disk', memory)
    BY <1>4, <1>11 DEF Le
  <2>2. QED
    BY <1>1, <1>2, <1>6, <2>1 DEF Monotone
<1>13. \A r \in Row : OnDisk(r) => d[r] > 0
  BY <1>1, <1>3 DEF Anchored, d
<1>14. \A r \in Row : Written(r) \/ d[r] = memory[r] => Written(r)'
  <2> SUFFICES ASSUME NEW r \in Row, Written(r) \/ d[r] = memory[r] PROVE Written(r)'
    OBVIOUS
  <2>1. disk[r] \in Nat /\ memory[r] \in Nat /\ d[r] \in Nat
    BY <1>1, <1>3 DEF Rows
  <2>2. disk[r] <= memory[r] /\ d[r] <= memory[r]
    BY <1>11 DEF Le
  <2>3. disk[r] > 0 => d[r] > 0
    BY <1>13 DEF OnDisk
  <2>4. CASE disk[r] = memory[r] \/ d[r] = memory[r]
    <3>1. disk'[r] = memory[r]
      BY <1>4, <2>1, <2>2, <2>3, <2>4
    <3>2. QED
      BY <1>2, <3>1 DEF Written
  <2>5. CASE \E t \in immediateSaves : t.row = r /\ t.data[r] = memory[r]
    BY <1>2, <2>5 DEF Written
  <2>6. QED
    BY <2>4, <2>5 DEF Written
<1>15. Covered'
  <2>1. ASSUME Queued = {} PROVE \A r \in Row : Written(r)'
    <3>1. Newest(saveInFlight)
      BY <2>1 DEF Newest
    <3>2. \A r \in Row : d[r] = memory[r] \/ Written(r)
      BY <1>1, <1>3, <3>1 DEF Covered, d
    <3>3. QED
      BY <1>14, <3>2
  <2>2. \A p \in InPlay' : Newest(p)' => \A r \in Row : p.data[r] = memory[r] \/ Written(r)'
    BY <1>1, <1>6, <1>7, <1>14 DEF Covered
  <2>3. QED
    BY <1>2, <1>6, <2>1, <2>2 DEF Covered
<1>16. \A r \in Row : OnDisk(r)' => OnDisk(r) \/ d[r] > 0
  BY <1>2, <1>4 DEF OnDisk
<1>17. Anchored'
  <2>1. ASSUME NEW p \in InPlay', NEW r \in Row, OnDisk(r)' PROVE p.data[r] > 0
    <3>1. d[r] > 0
      BY <1>13, <1>16, <2>1
    <3>2. Le(d, p.data)
      BY <1>1, <1>3, <1>6, <1>9 DEF Monotone, d, v
    <3>3. p.data[r] \in Nat /\ d[r] \in Nat
      BY <1>1, <1>3, <1>6, QueuedFacts DEF Rows
    <3>4. QED
      BY <3>1, <3>2, <3>3 DEF Le
  <2>2. QED
    BY <1>1, <1>2, <1>6, <1>7, <2>1 DEF Anchored
<1>18. QED
  BY <1>5, <1>8, <1>10, <1>12, <1>15, <1>17 DEF IInv

\* A failed snapshot is queued again, unless the queue holds a newer one or the
\* failure is reported.
LEMMA SaveFailKeepsIInv ==
    ASSUME IInv, SaveFail
    PROVE  IInv'
<1> DEFINE newer == HasNewer(pendingSaves, saveInFlight.version)
           retry == ~newer /\ saveInFlight.attempts + 1 < MaxSaveRetryAttempts
           again == [saveInFlight EXCEPT !.attempts = @ + 1]
<1>1. /\ TypeOK /\ RetryAtFront /\ Sorted /\ Drawn /\ Monotone /\ Covered /\ Anchored
      /\ disk \in Rows /\ memory \in Rows /\ storageQueue \in Seq(Nat)
      /\ flush \in [Flusher -> Call] /\ saveInFlight \in Save
      /\ pendingSaves \in Seq(Save) /\ persistenceFailure \in BOOLEAN
  BY DEF IInv, TypeOK
<1>2. /\ memory' = memory /\ disk' = disk /\ pendingVersion' = pendingVersion
      /\ savedVersion' = savedVersion /\ immediateSaves' = immediateSaves
      /\ scheduledSaveTimer' = scheduledSaveTimer
      /\ SavingNow /\ saveInFlight' = NoSave
      /\ pendingSaves' = IF retry THEN Cap(<<again>> \o pendingSaves) ELSE pendingSaves
      /\ storageQueue # <<>> /\ storageQueue' = Tail(storageQueue)
      /\ persistenceFailure' = (persistenceFailure \/ (~newer /\ ~retry))
      /\ flush' = SaveWakes(CASE newer -> "loop" [] retry -> "sleep" [] OTHER -> "rejected")
  BY DEF SaveFail, FailureAfterSave
<1>3. /\ saveInFlight \in InPlay /\ saveInFlight.version \in Nat
      /\ saveInFlight.attempts \in 0..(MaxSaveRetryAttempts - 1)
  BY <1>1, <1>2 DEF Save, InPlay, InFlight
<1>4. newer <=> \E q \in Queued : q.version > saveInFlight.version
  BY DEF HasNewer, Queued
<1>5. ~newer => Queued = {} /\ pendingSaves = <<>>
  BY <1>1, <1>2, <1>3, <1>4, QueuedFacts DEF Drawn, InPlay
<1>6. retry => /\ again \in Save /\ again.version = saveInFlight.version
               /\ again.data = saveInFlight.data
  <2> SUFFICES ASSUME saveInFlight.attempts + 1 < MaxSaveRetryAttempts
               PROVE  /\ again \in Save /\ again.version = saveInFlight.version
                      /\ again.data = saveInFlight.data
    OBVIOUS
  <2>1. saveInFlight.attempts + 1 \in 0..(MaxSaveRetryAttempts - 1)
    BY <1>3, SaveQueueAssumption
  <2>2. QED
    BY <1>1, <2>1 DEF Save
<1> HIDE DEF newer, again
<1>7. retry => pendingSaves' = <<again>>
  <2> SUFFICES ASSUME retry PROVE pendingSaves' = <<again>>
    OBVIOUS
  <2>1. <<again>> \o pendingSaves = <<again>>
    BY <1>5, <1>6
  <2>2. QED
    BY <1>2, <1>6, <2>1, CapSingleton
<1>8. ~retry => pendingSaves' = pendingSaves
  BY <1>2
<1>9. ~SavingNow' /\ saveInFlight' \in Save
  BY <1>2, SaveQueueAssumption DEF SavingNow, NoSave, Save, NoRows, Rows
<1>10. TypeOK'
  <2>1. flush' \in [Flusher -> Call]
    <3>1. (CASE newer -> "loop" [] retry -> "sleep" [] OTHER -> "rejected")
            \in {"loop", "sleep", "rejected"}
      OBVIOUS
    <3>2. QED
      BY <1>1, <1>2, <3>1, WakesTyped
  <2>2. storageQueue' \in Seq(Nat)
    BY <1>1, <1>2
  <2>3. pendingSaves' \in Seq(Save) /\ Len(pendingSaves') <= MaxPendingSaves
    <3>1. CASE retry
      <4>1. pendingSaves' = <<again>> /\ again \in Save
        BY <1>6, <1>7, <3>1
      <4>2. <<again>> \in Seq(Save) /\ Len(<<again>>) = 1
        BY <4>1
      <4>3. QED
        BY <4>1, <4>2, SaveQueueAssumption
    <3>2. CASE ~retry
      BY <1>1, <1>8, <3>2 DEF TypeOK
    <3>3. QED
      BY <3>1, <3>2
  <2>4. persistenceFailure' \in BOOLEAN
    BY <1>2
  <2> HIDE DEF retry
  <2>5. QED
    BY <1>1, <1>2, <1>9, <2>1, <2>2, <2>3, <2>4 DEF TypeOK
<1>11. RetryAtFront' /\ Sorted'
  <2>1. CASE retry
    BY <1>7, <2>1 DEF RetryAtFront, Sorted
  <2>2. CASE ~retry
    BY <1>1, <1>8, <2>2 DEF RetryAtFront, Sorted
  <2>3. QED
    BY <2>1, <2>2
<1>12. Queued' = IF retry THEN {again} ELSE Queued
  <2>1. CASE retry
    BY <1>7, <2>1 DEF Queued
  <2>2. CASE ~retry
    BY <1>8, <2>2 DEF Queued
  <2>3. QED
    BY <2>1, <2>2
<1>13. InPlay' = Queued' \cup immediateSaves
  BY <1>2, <1>9 DEF InPlay, InFlight
<1>14. retry => Queued = {}
  BY <1>5
<1> HIDE DEF retry
<1>15. \A p \in InPlay' : \/ p \in InPlay /\ p # saveInFlight
                          \/ p = again /\ retry
  <2>1. \A p \in Queued \cup immediateSaves : p \in InPlay /\ p # saveInFlight
    BY <1>1, <1>2, <1>3 DEF InPlay, Drawn
  <2>2. QED
    BY <1>12, <1>13, <2>1
<1>16. \A p \in InPlay' : \E b \in InPlay :
          b.version = p.version /\ b.data = p.data /\ (p = again /\ retry => b = saveInFlight)
  BY <1>3, <1>6, <1>15
<1>17. Drawn'
  <2>1. \A p \in InPlay' : savedVersion < p.version /\ p.version <= pendingVersion
    BY <1>1, <1>16 DEF Drawn
  <2>2. \A p, q \in InPlay' : p.version = q.version => p = q
    BY <1>1, <1>3, <1>6, <1>15 DEF Drawn
  <2>3. QED
    BY <1>1, <1>2, <1>9, <2>1, <2>2 DEF Drawn
<1>18. Monotone'
  <2>1. \A p \in InPlay' : Le(p.data, memory)
    BY <1>1, <1>16 DEF Monotone
  <2>2. \A p, q \in InPlay' : p.version < q.version => Le(p.data, q.data)
    <3> SUFFICES ASSUME NEW p \in InPlay', NEW q \in InPlay', p.version < q.version
                 PROVE  Le(p.data, q.data)
      OBVIOUS
    <3>1. PICK b \in InPlay : b.version = p.version /\ b.data = p.data
      BY <1>16
    <3>2. PICK e \in InPlay : e.version = q.version /\ e.data = q.data
      BY <1>16
    <3>3. QED
      BY <1>1, <3>1, <3>2 DEF Monotone
  <2>3. QED
    BY <1>1, <1>2, <2>1, <2>2 DEF Monotone
<1>19. ASSUME NEW p \in InPlay', Newest(p)'
       PROVE  \E b \in InPlay : b.data = p.data /\ Newest(b)
  <2>1. PICK b \in InPlay : b.version = p.version /\ b.data = p.data
    BY <1>16
  <2>2. Newest(b)
    BY <1>12, <1>14, <1>19, <2>1 DEF Newest
  <2>3. QED
    BY <2>1, <2>2
<1>20. \A r : (Written(r)' <=> Written(r)) /\ (OnDisk(r)' <=> OnDisk(r))
  BY <1>2 DEF Written, OnDisk
<1>21. Covered'
  <2>1. ASSUME NEW p \in InPlay', Newest(p)', NEW r \in Row
        PROVE  p.data[r] = memory[r] \/ Written(r)'
    <3>1. PICK b \in InPlay : b.data = p.data /\ Newest(b)
      BY <1>19, <2>1
    <3>2. QED
      BY <1>1, <1>20, <3>1 DEF Covered
  <2>2. persistenceFailure' \/ Queued' # {}
    BY <1>2, <1>4, <1>12
  <2>3. QED
    BY <1>2, <2>1, <2>2 DEF Covered
<1>22. Anchored'
  <2>1. \A p \in InPlay' : \A r \in Row : OnDisk(r)' => p.data[r] > 0
    BY <1>1, <1>16, <1>20 DEF Anchored
  <2>2. ASSUME NEW p \in InPlay', Newest(p)', NEW r \in Row, memory[r] > 0
        PROVE  p.data[r] > 0
    <3>1. PICK b \in InPlay : b.data = p.data /\ Newest(b)
      BY <1>19, <2>2
    <3>2. QED
      BY <1>1, <2>2, <3>1 DEF Anchored
  <2>3. QED
    BY <1>2, <2>1, <2>2 DEF Anchored
<1>23. QED
  BY <1>10, <1>11, <1>17, <1>18, <1>21, <1>22 DEF IInv

-----------------------------------------------------------------------------
(* Every step *)

\* Stuttering.
LEMMA StutterKeepsIInv ==
    ASSUME IInv, UNCHANGED vars
    PROVE  IInv'
<1>1. /\ memory' = memory /\ disk' = disk /\ pendingSaves' = pendingSaves
      /\ pendingVersion' = pendingVersion /\ savedVersion' = savedVersion
      /\ saveInFlight' = saveInFlight /\ immediateSaves' = immediateSaves
      /\ persistenceFailure' = persistenceFailure
  BY DEF vars
<1>2. TypeOK'
  BY DEF vars, IInv, TypeOK
<1>3. Queued' = Queued /\ InPlay' = InPlay /\ (SavingNow' <=> SavingNow)
  BY <1>1 DEF Queued, InFlight, InPlay, SavingNow
<1>4. \A p : Newest(p)' <=> Newest(p)
  BY <1>3 DEF Newest
<1>5. \A r : (Written(r)' <=> Written(r)) /\ (OnDisk(r)' <=> OnDisk(r))
  BY <1>1 DEF Written, OnDisk
<1>6. RetryAtFront' /\ Sorted'
  BY <1>1 DEF RetryAtFront, Sorted, IInv
<1>7. Drawn' /\ Monotone'
  BY <1>1, <1>3 DEF Drawn, Monotone, IInv
<1>8. Covered' /\ Anchored'
  BY <1>1, <1>3, <1>4, <1>5 DEF Covered, Anchored, IInv
<1>9. QED
  BY <1>2, <1>6, <1>7, <1>8 DEF IInv

\* Every step of the store keeps the invariant.
LEMMA NextKeepsIInv ==
    ASSUME IInv, [Next]_vars
    PROVE  IInv'
<1>1. ASSUME NEW r \in Row, EditSnapshot(r) \/ EditRow(r) PROVE IInv'
  BY <1>1, EditSnapshotKeepsIInv, EditRowKeepsIInv
<1>2. ASSUME NEW f \in Flusher,
             FlushEnter(f) \/ FlushTimer(f) \/ FlushContinue(f) \/ RetryPersistence(f)
      PROVE  IInv'
  BY <1>2, FlushEnterKeepsIInv, FlushContinueKeepsIInv, RetryKeepsIInv DEF FlushTimer
<1>3. ASSUME NEW s \in immediateSaves, RowSaveOk(s) \/ RowSaveFail(s) PROVE IInv'
  BY <1>3, RowSaveOkKeepsIInv, RowSaveFailKeepsIInv
<1>4. CASE SaveOk \/ SaveFail
  BY <1>4, SaveOkKeepsIInv, SaveFailKeepsIInv
<1>5. CASE UNCHANGED vars
  BY <1>5, StutterKeepsIInv
<1>6. QED
  BY <1>1, <1>2, <1>3, <1>4, <1>5 DEF Next

-----------------------------------------------------------------------------
(* What a flush promises *)

LEMMA LeTransitive ==
    ASSUME NEW d \in Rows, NEW e \in Rows, NEW g \in Rows, Le(d, e), Le(e, g)
    PROVE  Le(d, g)
<1> SUFFICES ASSUME NEW r \in Row PROVE d[r] <= g[r]
  BY DEF Le
<1>1. d[r] \in Nat /\ e[r] \in Nat /\ g[r] \in Nat
  BY DEF Rows
<1>2. d[r] <= e[r] /\ e[r] <= g[r]
  BY DEF Le
<1>3. QED
  BY <1>1, <1>2

\* Storage never goes back: neither a late row write nor a retried snapshot.
LEMMA DiskGrows ==
    ASSUME IInv, [Next]_vars
    PROVE  Le(disk, disk')
<1>1. TypeOK /\ Anchored /\ disk \in Rows /\ immediateSaves \in SUBSET RowSave
  BY DEF IInv, TypeOK
<1> SUFFICES ASSUME NEW r \in Row PROVE disk[r] <= disk'[r]
  BY DEF Le
<1>2. disk[r] \in Nat
  BY <1>1 DEF Rows
<1>3. ASSUME NEW s \in immediateSaves, RowSaveOk(s) PROVE disk[r] <= disk'[r]
  <2>1. s.data \in Rows /\ s.row \in Row
    BY <1>1 DEF RowSave
  <2>2. QED
    BY <1>1, <1>2, <1>3, <2>1 DEF RowSaveOk, UpsertRow, Rows
<1>4. CASE SaveOk
  <2>1. saveInFlight \in InPlay /\ saveInFlight.data \in Rows
    BY <1>1, <1>4 DEF SaveOk, InPlay, InFlight, TypeOK, Save
  <2>2. disk[r] > 0 => saveInFlight.data[r] > 0
    BY <1>1, <2>1 DEF Anchored, OnDisk
  <2>3. disk'[r] = IF saveInFlight.data[r] # 0 /\ disk[r] > saveInFlight.data[r]
                   THEN disk[r] ELSE saveInFlight.data[r]
    BY <1>4 DEF SaveOk, UpsertAll
  <2>4. saveInFlight.data[r] \in Nat
    BY <2>1 DEF Rows
  <2>5. QED
    BY <1>2, <2>2, <2>3, <2>4
<1>5. CASE disk' = disk
  BY <1>2, <1>5
<1>6. ASSUME NEW x \in Row, EditSnapshot(x) \/ EditRow(x) PROVE disk' = disk
  BY <1>6 DEF EditSnapshot, EditRow
<1>7. ASSUME NEW f \in Flusher,
             FlushEnter(f) \/ FlushTimer(f) \/ FlushContinue(f) \/ RetryPersistence(f)
      PROVE  disk' = disk
  BY <1>7 DEF FlushTimer, FlushEnter, FlushContinue, RetryPersistence
<1>8. ASSUME NEW s \in immediateSaves, RowSaveFail(s) PROVE disk' = disk
  BY <1>8 DEF RowSaveFail
<1>9. SaveFail => disk' = disk
  BY DEF SaveFail
<1>10. UNCHANGED vars => disk' = disk
  BY DEF vars
<1>11. QED
  BY <1>3, <1>4, <1>5, <1>6, <1>7, <1>8, <1>9, <1>10 DEF Next

\* Every write in play holds what one held before, or the store as it now is.
Inherited ==
    \A p \in InPlay' : p.data = memory' \/ \E b \in InPlay : b.data = p.data

\* Promises are kept while no failure is taken down and every new write
\* inherits its data; a call that resolves in the step answers for itself.
LEMMA KeepsReported ==
    ASSUME IInv, IInv', FInv, Goals', Le(disk, disk'), Inherited,
           persistenceFailure => persistenceFailure',
           \A f \in Flusher : flush'[f].pc = "resolved" =>
               \/ flush'[f] = flush[f]
               \/ Le(flush'[f].goal, disk')
               \/ persistenceFailure' /\ InPlay' = {}
    PROVE  Reported'
<1> SUFFICES ASSUME NEW f \in Flusher, flush'[f].pc = "resolved", flush'[f] = flush[f]
             PROVE  \/ Le(flush'[f].goal, disk')
                    \/ persistenceFailure' /\ \A p \in InPlay' : Le(flush'[f].goal, p.data)
  BY DEF Reported
<1>1. /\ flush[f].goal \in Rows /\ disk \in Rows /\ disk' \in Rows
      /\ Goals' /\ Reported
  BY DEF IInv, TypeOK, FInv, Call
<1>2. CASE Le(flush[f].goal, disk)
  BY <1>1, <1>2, LeTransitive
<1>3. CASE persistenceFailure /\ \A p \in InPlay : Le(flush[f].goal, p.data)
  <2>1. ASSUME NEW p \in InPlay' PROVE Le(flush[f].goal, p.data)
    <3>1. CASE p.data = memory'
      BY <1>1, <3>1 DEF Goals
    <3>2. CASE \E b \in InPlay : b.data = p.data
      BY <1>3, <3>2
    <3>3. QED
      BY <3>1, <3>2 DEF Inherited
  <2>2. QED
    BY <1>3, <2>1
<1>4. QED
  BY <1>1, <1>2, <1>3 DEF Reported

\* A call keeps its goal, forgets it, or begins with the store as it is.
LEMMA KeepsGoals ==
    ASSUME IInv, IInv', FInv, Le(memory, memory'),
           \A f \in Flusher : flush'[f].goal \in {flush[f].goal, NoRows, memory}
    PROVE  Goals'
<1> SUFFICES ASSUME NEW f \in Flusher PROVE Le(flush'[f].goal, memory')
  BY DEF Goals
<1>1. memory \in Rows /\ memory' \in Rows /\ flush[f].goal \in Rows /\ Goals
  BY DEF IInv, TypeOK, FInv, Call
<1>2. CASE flush'[f].goal = flush[f].goal
  BY <1>1, <1>2, LeTransitive DEF Goals
<1>3. CASE flush'[f].goal = NoRows
  BY <1>1, <1>3 DEF Le, Rows, NoRows
<1>4. CASE flush'[f].goal = memory
  BY <1>4
<1>5. QED
  BY <1>2, <1>3, <1>4

\* A queued copy of the store inherits.
LEMMA EnqueueInherits ==
    ASSUME IInv, memory' \in Rows,
           pendingSaves' = Cap(Append(pendingSaves, NewSave(pendingVersion + 1, memory'))),
           UNCHANGED <<saveInFlight, immediateSaves>>
    PROVE  Inherited
<1> DEFINE x == NewSave(pendingVersion + 1, memory')
<1>1. /\ TypeOK /\ RetryAtFront /\ Sorted /\ Drawn /\ pendingVersion \in Nat
  BY DEF IInv, TypeOK
<1>2. x \in Save /\ x.version = pendingVersion + 1 /\ x.data = memory' /\ x.attempts = 0
  BY <1>1, SaveQueueAssumption DEF NewSave, Save
<1> HIDE DEF x
<1>3. \A p \in Queued : p.version < x.version
  BY <1>1, <1>2, QueuedFacts DEF Drawn, InPlay
<1>4. Queued' \subseteq Queued \cup {x}
  BY <1>1, <1>2, <1>3, PushFacts DEF x
<1>5. InPlay' \subseteq InPlay \cup {x}
  BY <1>4 DEF InPlay, InFlight, SavingNow
<1>6. QED
  BY <1>2, <1>5 DEF Inherited

\* An edit persisted by snapshot.
LEMMA EditSnapshotKeepsFInv ==
    ASSUME IInv, IInv', FInv, Le(disk, disk'), NEW r \in Row, EditSnapshot(r)
    PROVE  FInv'
<1> DEFINE x == NewSave(pendingVersion + 1, memory')
<1>1. /\ flush' = flush /\ saveInFlight' = saveInFlight /\ immediateSaves' = immediateSaves
      /\ scheduledSaveTimer' = TRUE /\ pendingSaves' = Cap(Append(pendingSaves, x))
      /\ persistenceFailure => persistenceFailure'
  BY DEF EditSnapshot, EnqueuePendingSave
<1>2. memory' \in Rows /\ Le(memory, memory')
  BY DEF EditSnapshot, IInv, TypeOK, Rows, Le
<1>3. Goals'
  BY <1>1, <1>2, KeepsGoals
<1>4. Inherited
  BY <1>1, <1>2, EnqueueInherits
<1>5. Reported'
  BY <1>1, <1>3, <1>4, KeepsReported
<1>6. Owned' /\ NoSilentStall'
  BY <1>1 DEF FInv, Owned, SavingNow, NoSilentStall
<1>7. QED
  BY <1>3, <1>5, <1>6 DEF FInv

\* retryPersistence.
LEMMA RetryKeepsFInv ==
    ASSUME IInv, IInv', FInv, Le(disk, disk'), NEW f \in Flusher, RetryPersistence(f)
    PROVE  FInv'
<1> DEFINE x == NewSave(pendingVersion + 1, memory')
           c == [NewCall EXCEPT !.pc = "enter"]
<1>1. /\ saveInFlight' = saveInFlight /\ immediateSaves' = immediateSaves
      /\ memory' = memory /\ flush' = [flush EXCEPT ![f] = c] /\ Finished(f)
      /\ scheduledSaveTimer' = TRUE /\ pendingSaves' = Cap(Append(pendingSaves, x))
      /\ persistenceFailure => persistenceFailure'
  BY DEF RetryPersistence, EnqueuePendingSave
<1>2. memory' \in Rows /\ Le(memory, memory') /\ flush \in [Flusher -> Call]
  BY <1>1 DEF IInv, TypeOK, Rows, Le
<1>3. c.pc = "enter" /\ c.goal = memory
  BY DEF NewCall
<1> HIDE DEF c
<1>4. flush'[f] = c /\ \A g \in Flusher : g # f => flush'[g] = flush[g]
  BY <1>1, <1>2
<1>5. Goals'
  BY <1>2, <1>3, <1>4, KeepsGoals
<1>6. Inherited
  BY <1>1, <1>2, EnqueueInherits
<1>7. Reported'
  BY <1>1, <1>3, <1>4, <1>5, <1>6, KeepsReported
<1>8. Owned'
  BY <1>1, <1>4 DEF FInv, Owned, SavingNow, Finished
<1>9. NoSilentStall'
  BY <1>1 DEF NoSilentStall
<1>10. QED
  BY <1>5, <1>7, <1>8, <1>9 DEF FInv

\* An edit persisted by a row write.
LEMMA EditRowKeepsFInv ==
    ASSUME IInv, IInv', FInv, Le(disk, disk'), NEW r \in Row, EditRow(r)
    PROVE  FInv'
<1> DEFINE x == [version |-> pendingVersion', data |-> memory', row |-> r]
<1>1. /\ flush' = flush /\ saveInFlight' = saveInFlight /\ pendingSaves' = pendingSaves
      /\ immediateSaves' = immediateSaves \cup {x} /\ pendingSaves = <<>>
      /\ persistenceFailure' = persistenceFailure
  BY DEF EditRow
<1>2. Le(memory, memory')
  BY DEF EditRow, IInv, TypeOK, Rows, Le
<1>3. Goals'
  BY <1>1, <1>2, KeepsGoals
<1>4. x.data = memory'
  OBVIOUS
<1> HIDE DEF x
<1>5. InPlay' = InPlay \cup {x}
  BY <1>1 DEF InPlay, Queued, InFlight, SavingNow
<1>6. Inherited
  BY <1>4, <1>5 DEF Inherited
<1>7. Reported'
  BY <1>1, <1>3, <1>6, KeepsReported
<1>8. Owned' /\ NoSilentStall'
  BY <1>1 DEF FInv, Owned, SavingNow, NoSilentStall
<1>9. QED
  BY <1>3, <1>7, <1>8 DEF FInv

\* A step of flushPendingSave: it resolves only when nothing is in play any
\* more, and then storage holds the store or a failure is on display.
LEMMA FlushLoopKeepsFInv ==
    ASSUME IInv, IInv', FInv, NEW f \in Flusher, NEW c \in Call,
           c.goal \in {flush[f].goal, memory},
           Finished(f) \/ flush[f].pc \in {"enter", "loop", "sleep"},
           FlushLoop(f, c, pendingSaves),
           UNCHANGED <<memory, disk, immediateSaves, persistenceFailure>>
    PROVE  FInv'
<1>1. /\ TypeOK /\ Sorted /\ Drawn /\ Covered /\ flush \in [Flusher -> Call]
      /\ memory \in Rows /\ disk \in Rows /\ c.goal \in Rows /\ flush[f].goal \in Rows
      /\ pendingSaves \in Seq(Save)
  BY DEF IInv, TypeOK, Call
<1>2. /\ memory' = memory /\ disk' = disk /\ immediateSaves' = immediateSaves
      /\ persistenceFailure' = persistenceFailure
  OBVIOUS
<1>3. Le(memory, memory') /\ Le(disk, disk')
  BY <1>1, <1>2 DEF Le, Rows
<1>4. pendingSaves # <<>> => Fresh(pendingSaves)
  BY <1>1, LastIsNewest, QueuedFacts DEF Fresh, Drawn, InPlay, TypeOK
<1>5. \A g \in Flusher : g # f => flush'[g] = flush[g]
  BY <1>1 DEF FlushLoop
<1>6. flush'[f].goal = c.goal
  <2>1. CASE immediateSaves # {}
    BY <1>1, <2>1 DEF FlushLoop, Call
  <2>2. CASE immediateSaves = {}
    BY <1>1, <2>2 DEF FlushLoop, Call
  <2>3. QED
    BY <2>1, <2>2
<1>7. Goals'
  BY <1>3, <1>5, <1>6, KeepsGoals
<1>8. CASE /\ flush'[f].pc \in {"awaitImmediate", "awaitSave"}
           /\ pendingSaves' = pendingSaves /\ saveInFlight' = saveInFlight
  <2>1. InPlay' = InPlay
    BY <1>2, <1>8 DEF InPlay, Queued, InFlight, SavingNow
  <2>2. Inherited
    BY <2>1 DEF Inherited
  <2>3. Reported'
    BY <1>2, <1>3, <1>5, <1>7, <1>8, <2>2, KeepsReported
  <2>4. Owned'
    BY <1>5, <1>8 DEF FInv, Owned, SavingNow, Finished
  <2>5. NoSilentStall'
    BY <1>5, <1>8 DEF NoSilentStall, Finished
  <2>6. QED
    BY <1>7, <2>3, <2>4, <2>5 DEF FInv
<1>9. CASE /\ flush'[f].pc = "resolved" /\ pendingSaves' = <<>> /\ saveInFlight' = saveInFlight
           /\ immediateSaves = {} /\ ~SavingNow /\ ~Fresh(pendingSaves)
  <2>1. InPlay' = {} /\ ~SavingNow'
    BY <1>2, <1>9 DEF InPlay, Queued, InFlight, SavingNow
  <2>2. Inherited
    BY <2>1 DEF Inherited
  <2>3. Queued = {}
    BY <1>4, <1>9 DEF Queued
  <2>4. persistenceFailure \/ \A r \in Row : disk[r] = memory[r]
    BY <1>1, <1>9, <2>3 DEF Covered, Written
  <2>5. persistenceFailure \/ disk = memory
    BY <1>1, <2>4 DEF Rows
  <2>6. persistenceFailure' \/ Le(flush'[f].goal, disk')
    BY <1>2, <1>7, <2>5 DEF Goals
  <2>7. Reported'
    BY <1>2, <1>3, <1>5, <1>7, <2>1, <2>2, <2>6, KeepsReported
  <2>8. Owned' /\ NoSilentStall'
    BY <1>9, <2>1 DEF Owned, NoSilentStall
  <2>9. QED
    BY <1>7, <2>7, <2>8 DEF FInv
<1>10. CASE /\ flush'[f].pc = "saving" /\ pendingSaves' = <<>> /\ Fresh(pendingSaves)
            /\ saveInFlight' = [pendingSaves[Len(pendingSaves)]
                                  EXCEPT !.attempts = MaxAttempts(pendingSaves)]
            /\ immediateSaves = {}
  <2> DEFINE l == pendingSaves[Len(pendingSaves)]
  <2>1. l \in Save /\ l \in InPlay
    BY <1>1, <1>10, LastIsNewest, QueuedFacts DEF Fresh, InPlay
  <2>2. saveInFlight'.data = l.data
    BY <1>10, <2>1 DEF Save
  <2>3. InPlay' \subseteq {saveInFlight'}
    BY <1>2, <1>10 DEF InPlay, Queued, InFlight
  <2>4. Inherited
    BY <2>1, <2>2, <2>3 DEF Inherited
  <2>5. Reported'
    BY <1>2, <1>3, <1>5, <1>7, <1>10, <2>4, KeepsReported
  <2>6. Owned' /\ NoSilentStall'
    BY <1>5, <1>10 DEF Owned, NoSilentStall
  <2>7. QED
    BY <1>7, <2>5, <2>6 DEF FInv
<1>11. QED
  <2>1. CASE immediateSaves # {}
    <3>1. flush'[f].pc = "awaitImmediate"
      BY <1>1, <2>1 DEF FlushLoop, Call
    <3>2. QED
      BY <1>8, <2>1, <3>1 DEF FlushLoop
  <2>2. CASE immediateSaves = {} /\ SavingNow
    <3>1. flush'[f].pc = "awaitSave"
      BY <1>1, <2>2 DEF FlushLoop, Call
    <3>2. QED
      BY <1>8, <2>2, <3>1 DEF FlushLoop
  <2>3. CASE immediateSaves = {} /\ ~SavingNow /\ ~Fresh(pendingSaves)
    <3>1. flush'[f].pc = "resolved"
      BY <1>1, <2>3 DEF FlushLoop, Call
    <3>2. QED
      BY <1>9, <2>3, <3>1 DEF FlushLoop
  <2>4. CASE immediateSaves = {} /\ ~SavingNow /\ Fresh(pendingSaves)
    <3>1. flush'[f].pc = "saving"
      BY <1>1, <2>4 DEF FlushLoop, Call
    <3>2. QED
      BY <1>10, <2>4, <3>1 DEF FlushLoop
  <2>5. QED
    BY <2>1, <2>2, <2>3, <2>4

\* What an answer of storage leaves of a call that it does not reject: no call
\* resolves by it, the calls that wait go on, the others stay as they are.
LEMMA WakesKeep ==
    ASSUME TypeOK, NEW f \in Flusher
    PROVE  /\ \A v : /\ RowSaveWakes(v)[f].goal = flush[f].goal
                     /\ \/ RowSaveWakes(v)[f] = flush[f]
                        \/ /\ flush[f].pc = "awaitImmediate"
                           /\ RowSaveWakes(v)[f].pc \in {"awaitImmediate", "loop"}
                     /\ \/ RowSaveRejects(v)[f] = flush[f]
                        \/ /\ flush[f].pc = "awaitImmediate"
                           /\ RowSaveRejects(v)[f] = NoCall("rejected")
           /\ \A pc \in {"loop", "sleep", "rejected"} :
                 \/ /\ flush[f].pc \notin {"awaitSave", "saving"}
                    /\ SaveWakes(pc)[f] = flush[f]
                 \/ /\ flush[f].pc = "awaitSave"
                    /\ SaveWakes(pc)[f].pc = "loop"
                    /\ SaveWakes(pc)[f].goal = flush[f].goal
                 \/ /\ flush[f].pc = "saving"
                    /\ SaveWakes(pc)[f].pc = pc
                    /\ SaveWakes(pc)[f].goal \in {flush[f].goal, NoRows}
<1>1. flush[f] \in Call
  BY DEF TypeOK
<1>2. ASSUME NEW pc \in {"loop", "sleep", "rejected"}
      PROVE  \/ /\ flush[f].pc \notin {"awaitSave", "saving"}
                /\ SaveWakes(pc)[f] = flush[f]
             \/ /\ flush[f].pc = "awaitSave"
                /\ SaveWakes(pc)[f].pc = "loop"
                /\ SaveWakes(pc)[f].goal = flush[f].goal
             \/ /\ flush[f].pc = "saving"
                /\ SaveWakes(pc)[f].pc = pc
                /\ SaveWakes(pc)[f].goal \in {flush[f].goal, NoRows}
  <2>1. CASE flush[f].pc \notin {"awaitSave", "saving"}
    BY <2>1 DEF SaveWakes
  <2>2. CASE flush[f].pc = "awaitSave"
    BY <1>1, <2>2 DEF SaveWakes, Call
  <2>3. CASE flush[f].pc = "saving"
    BY <1>1, <2>3 DEF SaveWakes, Call, NoCall
  <2>4. QED
    BY <2>1, <2>2, <2>3
<1>3. ASSUME NEW v
      PROVE  /\ RowSaveWakes(v)[f].goal = flush[f].goal
             /\ \/ RowSaveWakes(v)[f] = flush[f]
                \/ /\ flush[f].pc = "awaitImmediate"
                   /\ RowSaveWakes(v)[f].pc \in {"awaitImmediate", "loop"}
  BY <1>1 DEF RowSaveWakes, Call
<1>4. ASSUME NEW v
      PROVE  \/ RowSaveRejects(v)[f] = flush[f]
             \/ /\ flush[f].pc = "awaitImmediate"
                /\ RowSaveRejects(v)[f] = NoCall("rejected")
  BY DEF RowSaveRejects
<1>5. QED
  BY <1>2, <1>3, <1>4

\* A row write that succeeds.
LEMMA RowSaveOkKeepsFInv ==
    ASSUME IInv, IInv', FInv, Le(disk, disk'), NEW s \in immediateSaves, RowSaveOk(s)
    PROVE  FInv'
<1>1. /\ memory' = memory /\ pendingSaves' = pendingSaves /\ saveInFlight' = saveInFlight
      /\ scheduledSaveTimer' = scheduledSaveTimer /\ persistenceFailure' = persistenceFailure
      /\ immediateSaves' = immediateSaves \ {s} /\ flush' = RowSaveWakes(s.version)
  BY DEF RowSaveOk
<1>2. TypeOK /\ Le(memory, memory')
  BY <1>1 DEF IInv, TypeOK, Rows, Le
<1>3. \A f \in Flusher :
         /\ flush'[f].goal = flush[f].goal
         /\ \/ flush'[f] = flush[f]
            \/ /\ flush[f].pc = "awaitImmediate"
               /\ flush'[f].pc \in {"awaitImmediate", "loop"}
  BY <1>1, <1>2, WakesKeep
<1>4. Goals'
  BY <1>2, <1>3, KeepsGoals
<1>5. Inherited
  BY <1>1 DEF Inherited, InPlay, Queued, InFlight, SavingNow
<1>6. Reported'
  BY <1>1, <1>3, <1>4, <1>5, KeepsReported
<1>7. Owned'
  BY <1>1, <1>3 DEF FInv, Owned, SavingNow
<1>8. NoSilentStall'
  BY <1>1, <1>3 DEF FInv, NoSilentStall, Finished
<1>9. QED
  BY <1>4, <1>6, <1>7, <1>8 DEF FInv

\* A row write that fails is reported.
LEMMA RowSaveFailKeepsFInv ==
    ASSUME IInv, IInv', FInv, Le(disk, disk'), NEW s \in immediateSaves, RowSaveFail(s)
    PROVE  FInv'
<1> DEFINE x == NewSave(s.version, s.data)
<1>1. /\ memory' = memory /\ saveInFlight' = saveInFlight /\ persistenceFailure' = TRUE
      /\ immediateSaves' = immediateSaves \ {s} /\ flush' = RowSaveRejects(s.version)
      /\ pendingSaves' = RequeueRowSave(s)
  BY DEF RowSaveFail
<1>2. /\ TypeOK /\ RetryAtFront /\ Sorted /\ Drawn /\ s \in RowSave /\ s \in InPlay
      /\ Le(memory, memory')
  BY <1>1 DEF IInv, TypeOK, Rows, Le, InPlay
<1>3. x \in Save /\ x.version = s.version /\ x.data = s.data /\ x.attempts = 0
  BY <1>2, SaveQueueAssumption DEF NewSave, Save, RowSave
<1>4. \A f \in Flusher :
         \/ flush'[f] = flush[f]
         \/ /\ flush[f].pc = "awaitImmediate"
            /\ flush'[f] = NoCall("rejected")
  BY <1>1, <1>2, WakesKeep
<1>5. NoCall("rejected").goal = NoRows /\ NoCall("rejected").pc = "rejected"
  BY DEF NoCall
<1>6. Goals'
  BY <1>2, <1>4, <1>5, KeepsGoals
<1>7. Queued' \subseteq Queued \cup {x}
  <2>1. CASE HasNewer(pendingSaves, s.version)
    BY <1>1, <2>1 DEF RequeueRowSave, Queued
  <2>2. CASE ~HasNewer(pendingSaves, s.version)
    <3>1. \A p \in Queued : p.version \in Nat /\ ~(p.version > s.version) /\ s.version \in Nat
      BY <1>2, <2>2, QueuedFacts DEF HasNewer, Queued, InPlay, RowSave
    <3>2. \A p \in Queued : p.version # s.version
      <4> SUFFICES ASSUME NEW p \in Queued, p.version = s.version PROVE FALSE
        OBVIOUS
      <4>1. p = s
        BY <1>2 DEF Drawn, InPlay
      <4>2. p \in Save
        BY <1>2, QueuedFacts
      <4>3. DOMAIN p = {"version", "data", "attempts"} /\ DOMAIN s = {"version", "data", "row"}
        BY <1>2, <4>2 DEF Save, RowSave
      <4>4. QED
        BY <4>1, <4>3
    <3>3. \A p \in Queued : p.version < x.version
      BY <1>3, <3>1, <3>2
    <3>4. pendingSaves' = Cap(Append(pendingSaves, x))
      BY <1>1, <2>2 DEF RequeueRowSave
    <3> HIDE DEF x
    <3>5. QED
      BY <1>2, <1>3, <3>3, <3>4, PushFacts
  <2>3. QED
    BY <2>1, <2>2
<1> HIDE DEF x
<1>8. InPlay' \subseteq InPlay \cup {x}
  BY <1>1, <1>7 DEF InPlay, InFlight, SavingNow
<1>9. Inherited
  BY <1>2, <1>3, <1>8 DEF Inherited
<1>10. Reported'
  BY <1>1, <1>4, <1>5, <1>6, <1>9, KeepsReported
<1>11. Owned'
  BY <1>1, <1>4 DEF FInv, Owned, SavingNow
<1>12. NoSilentStall'
  BY <1>1 DEF NoSilentStall
<1>13. QED
  BY <1>6, <1>10, <1>11, <1>12 DEF FInv

\* A snapshot that is written takes the failure down: it holds at least what
\* any resolved call had promised.
LEMMA SaveOkKeepsFInv ==
    ASSUME IInv, IInv', FInv, Le(disk, disk'), SaveOk
    PROVE  FInv'
<1>1. /\ memory' = memory /\ saveInFlight' = NoSave /\ flush' = SaveWakes("loop")
      /\ disk' = UpsertAll(disk, saveInFlight.data) /\ SavingNow
  BY DEF SaveOk
<1>2. /\ TypeOK /\ Le(memory, memory') /\ disk \in Rows /\ disk' \in Rows
      /\ saveInFlight \in InPlay /\ saveInFlight.data \in Rows
      /\ \A f \in Flusher : flush[f].goal \in Rows
  <2>1. /\ TypeOK /\ memory \in Rows /\ disk \in Rows /\ disk' \in Rows
        /\ saveInFlight \in Save /\ flush \in [Flusher -> Call]
    BY DEF IInv, TypeOK
  <2>2. Le(memory, memory')
    BY <1>1, <2>1 DEF Rows, Le
  <2>3. saveInFlight \in InPlay
    BY <1>1 DEF InPlay, InFlight
  <2>4. saveInFlight.data \in Rows /\ \A f \in Flusher : flush[f].goal \in Rows
    BY <2>1 DEF Save, Call
  <2>5. QED
    BY <2>1, <2>2, <2>3, <2>4
<1>3. \A f \in Flusher :
         \/ /\ flush[f].pc \notin {"awaitSave", "saving"}
            /\ flush'[f] = flush[f]
         \/ /\ flush[f].pc \in {"awaitSave", "saving"}
            /\ flush'[f].pc = "loop"
            /\ flush'[f].goal \in {flush[f].goal, NoRows}
  BY <1>1, <1>2, WakesKeep
<1>4. Goals'
  BY <1>2, <1>3, KeepsGoals
<1>5. Le(saveInFlight.data, disk')
  <2> SUFFICES ASSUME NEW r \in Row PROVE saveInFlight.data[r] <= disk'[r]
    BY DEF Le
  <2>1. disk[r] \in Nat /\ saveInFlight.data[r] \in Nat
    BY <1>2 DEF Rows
  <2>2. QED
    BY <1>1, <2>1 DEF UpsertAll
<1>6. Reported'
  <2> SUFFICES ASSUME NEW f \in Flusher, flush'[f].pc = "resolved"
               PROVE  Le(flush'[f].goal, disk')
    BY DEF Reported
  <2>1. flush'[f] = flush[f]
    BY <1>3
  <2>2. CASE Le(flush[f].goal, disk)
    BY <1>2, <2>1, <2>2, LeTransitive
  <2>3. CASE \A p \in InPlay : Le(flush[f].goal, p.data)
    BY <1>2, <1>5, <2>1, <2>3, LeTransitive
  <2>4. QED
    BY <2>1, <2>2, <2>3 DEF FInv, Reported
<1>7. Owned'
  BY <1>1 DEF Owned, SavingNow, NoSave
<1>8. NoSilentStall'
  <2>1. PICK f \in Flusher : flush[f].pc = "saving"
    BY <1>1 DEF FInv, Owned
  <2>2. flush'[f].pc = "loop"
    BY <1>3, <2>1
  <2>3. QED
    BY <2>2 DEF NoSilentStall, Finished
<1>9. QED
  BY <1>4, <1>6, <1>7, <1>8 DEF FInv

\* A snapshot that fails goes back to the queue while its owner sleeps, or makes
\* way for a newer one, or is reported.
LEMMA SaveFailKeepsFInv ==
    ASSUME IInv, IInv', FInv, Le(disk, disk'), SaveFail
    PROVE  FInv'
<1> DEFINE newer == HasNewer(pendingSaves, saveInFlight.version)
           retry == ~newer /\ saveInFlight.attempts + 1 < MaxSaveRetryAttempts
           again == [saveInFlight EXCEPT !.attempts = @ + 1]
           next == CASE newer -> "loop" [] retry -> "sleep" [] OTHER -> "rejected"
<1>1. /\ memory' = memory /\ immediateSaves' = immediateSaves
      /\ SavingNow /\ saveInFlight' = NoSave
      /\ pendingSaves' = IF retry THEN Cap(<<again>> \o pendingSaves) ELSE pendingSaves
      /\ persistenceFailure' = (persistenceFailure \/ (~newer /\ ~retry))
      /\ flush' = SaveWakes(next)
  BY DEF SaveFail, FailureAfterSave
<1>2. /\ TypeOK /\ Drawn /\ Le(memory, memory') /\ saveInFlight \in Save
      /\ saveInFlight \in InPlay
  BY <1>1 DEF IInv, TypeOK, Rows, Le, InPlay, InFlight
<1>3. next \in {"loop", "sleep", "rejected"} /\ (next = "rejected" => ~newer /\ ~retry)
  OBVIOUS
<1>4. ~newer => Queued = {} /\ pendingSaves = <<>>
  <2>1. newer <=> \E q \in Queued : q.version > saveInFlight.version
    BY DEF HasNewer, Queued
  <2>2. saveInFlight.version \in Nat
    BY <1>2 DEF Save
  <2>3. QED
    BY <1>1, <1>2, <2>1, <2>2, QueuedFacts DEF Drawn, InPlay
<1>5. saveInFlight.attempts + 1 < MaxSaveRetryAttempts => again \in Save
  <2> SUFFICES ASSUME saveInFlight.attempts + 1 < MaxSaveRetryAttempts PROVE again \in Save
    OBVIOUS
  <2>1. saveInFlight.attempts + 1 \in 0..(MaxSaveRetryAttempts - 1)
    BY <1>2, SaveQueueAssumption DEF Save
  <2>2. QED
    BY <1>2, <2>1 DEF Save
<1>6. again.data = saveInFlight.data
  BY <1>2 DEF Save
<1> HIDE DEF newer, again, next
<1>7. retry => pendingSaves' = <<again>>
  <2> SUFFICES ASSUME retry PROVE pendingSaves' = <<again>>
    OBVIOUS
  <2>1. again \in Save /\ <<again>> \o pendingSaves = <<again>>
    BY <1>4, <1>5
  <2>2. QED
    BY <1>1, <2>1, CapSingleton
<1>8. Queued' \subseteq Queued \cup {again}
  <2>1. CASE retry
    BY <1>7, <2>1 DEF Queued
  <2>2. CASE ~retry
    BY <1>1, <2>2 DEF Queued
  <2>3. QED
    BY <2>1, <2>2
<1>9. ~SavingNow'
  BY <1>1 DEF SavingNow, NoSave
<1>10. InPlay' \subseteq InPlay \cup {again}
  BY <1>1, <1>8, <1>9 DEF InPlay, InFlight
<1>11. Inherited
  BY <1>2, <1>6, <1>10 DEF Inherited
<1>12. \A f \in Flusher :
         \/ flush'[f] = flush[f]
         \/ /\ flush'[f].pc \in {"loop", "sleep", "rejected"}
            /\ flush'[f].goal \in {flush[f].goal, NoRows}
  BY <1>1, <1>2, <1>3, WakesKeep
<1>13. Goals'
  BY <1>2, <1>12, KeepsGoals
<1>14. persistenceFailure => persistenceFailure'
  BY <1>1
<1>15. \A f \in Flusher : flush'[f].pc = "resolved" => flush'[f] = flush[f]
  BY <1>3, <1>12
<1>16. Reported'
  BY <1>11, <1>13, <1>14, <1>15, KeepsReported
<1>17. Owned'
  BY <1>9 DEF Owned
<1>18. NoSilentStall'
  <2>1. PICK f \in Flusher : flush[f].pc = "saving"
    BY <1>1 DEF FInv, Owned
  <2>2. flush'[f].pc = next
    BY <1>1, <1>2, <1>3, <2>1, WakesKeep
  <2>3. CASE next = "rejected"
    BY <1>1, <1>3, <2>3 DEF NoSilentStall
  <2>4. CASE next # "rejected"
    BY <1>3, <2>2, <2>4 DEF NoSilentStall, Finished
  <2>5. QED
    BY <2>3, <2>4
<1>19. QED
  BY <1>13, <1>16, <1>17, <1>18 DEF FInv

\* No call has begun and nothing waits.
LEMMA InitFInv == Init => FInv
<1> SUFFICES ASSUME Init PROVE FInv
  OBVIOUS
<1>1. ~SavingNow /\ pendingSaves = <<>>
  BY DEF Init, SavingNow, NoSave
<1>2. ASSUME NEW f \in Flusher
      PROVE  flush[f].pc = "idle" /\ flush[f].goal = NoRows
  BY DEF Init, NoCall
<1>3. Le(NoRows, memory)
  <2> SUFFICES ASSUME NEW r \in Row PROVE NoRows[r] <= memory[r]
    BY DEF Le
  <2>1. NoRows[r] = 0
    BY DEF NoRows
  <2>2. memory[r] = 0
    BY <2>1 DEF Init
  <2>3. QED
    BY <2>1, <2>2
<1>4. QED
  BY <1>1, <1>2, <1>3 DEF FInv, Owned, NoSilentStall, Goals, Reported

\* Every step keeps the promises of the flushes.
LEMMA NextKeepsFInv ==
    ASSUME IInv, IInv', FInv, [Next]_vars
    PROVE  FInv'
<1>1. Le(disk, disk')
  BY DiskGrows
<1>2. ASSUME NEW r \in Row, EditSnapshot(r) \/ EditRow(r) PROVE FInv'
  BY <1>1, <1>2, EditSnapshotKeepsFInv, EditRowKeepsFInv
<1>3. ASSUME NEW f \in Flusher, FlushEnter(f) PROVE FInv'
  <2>1. NewCall \in Call /\ NewCall.goal = memory
    BY DEF NewCall, Call, FlushState, IInv, TypeOK
  <2>2. QED
    BY <1>3, <2>1, FlushLoopKeepsFInv DEF FlushEnter
<1>4. ASSUME NEW f \in Flusher, FlushContinue(f) PROVE FInv'
  <2>1. flush[f] \in Call
    BY DEF IInv, TypeOK
  <2>2. QED
    BY <1>4, <2>1, FlushLoopKeepsFInv DEF FlushContinue
<1>5. ASSUME NEW f \in Flusher, RetryPersistence(f) PROVE FInv'
  BY <1>1, <1>5, RetryKeepsFInv
<1>6. ASSUME NEW s \in immediateSaves, RowSaveOk(s) \/ RowSaveFail(s) PROVE FInv'
  BY <1>1, <1>6, RowSaveOkKeepsFInv, RowSaveFailKeepsFInv
<1>7. CASE SaveOk \/ SaveFail
  BY <1>1, <1>7, SaveOkKeepsFInv, SaveFailKeepsFInv
<1>8. CASE UNCHANGED vars
  <2>1. /\ memory' = memory /\ disk' = disk /\ pendingSaves' = pendingSaves
        /\ saveInFlight' = saveInFlight /\ immediateSaves' = immediateSaves
        /\ scheduledSaveTimer' = scheduledSaveTimer
        /\ persistenceFailure' = persistenceFailure /\ flush' = flush
    BY <1>8 DEF vars
  <2>2. InPlay' = InPlay /\ (SavingNow' <=> SavingNow)
    BY <2>1 DEF Queued, InFlight, InPlay, SavingNow
  <2>3. QED
    BY <2>1, <2>2 DEF FInv, Owned, NoSilentStall, Finished, Goals, Reported
<1>9. QED
  BY <1>2, <1>3, <1>4, <1>5, <1>6, <1>7, <1>8 DEF Next, FlushTimer

-----------------------------------------------------------------------------
(* The theorems *)

\* The inductive invariant holds in every reachable state.
THEOREM InductiveInvariant == Spec => []IInv
<1>1. Init => IInv
  BY InitIInv
<1>2. IInv /\ [Next]_vars => IInv'
  BY NextKeepsIInv
<1>3. QED
  BY <1>1, <1>2, PTL DEF Spec

\* The variables of the store keep their types: in particular no retry count
\* reaches the limit inside the queue and the queue stays within its cap.
THEOREM TypeCorrect == Spec => []TypeOK
<1>1. IInv => TypeOK
  BY DEF IInv
<1>2. QED
  BY <1>1, InductiveInvariant, PTL

\* Whenever the queue is idle and no failure is on display, storage holds what
\* memory holds: no interleaving of edits, row writes, flushes, failed writes
\* and retries in store.ts drops an edit silently.
THEOREM SilentLossNever == Spec => []NoSilentLoss
<1>1. ASSUME IInv PROVE NoSilentLoss
  <2> SUFFICES ASSUME Settled, ~persistenceFailure PROVE disk = memory
    BY DEF NoSilentLoss
  <2>1. TypeOK /\ Covered
    BY <1>1 DEF IInv
  <2>2. Queued = {} /\ ~SavingNow /\ immediateSaves = {}
    BY DEF Settled, Queued
  <2>3. \A r \in Row : disk[r] = memory[r]
    BY <2>1, <2>2 DEF Covered, Written
  <2>4. QED
    BY <2>1, <2>3 DEF TypeOK, Rows
<1>2. QED
  BY <1>1, InductiveInvariant, PTL

\* The order of versions that lets a flush write only the last snapshot of the
\* queue and forget the others.
THEOREM QueueIsOrdered == Spec => []QueueOrdered
<1>1. ASSUME IInv PROVE QueueOrdered
  <2>1. TypeOK /\ Sorted /\ Drawn
    BY <1>1 DEF IInv
  <2>2. \A p \in Queued \cup immediateSaves :
           p.version > savedVersion /\ p.version > saveInFlight.version
    <3> SUFFICES ASSUME NEW p \in Queued \cup immediateSaves
                 PROVE  p.version > savedVersion /\ p.version > saveInFlight.version
      OBVIOUS
    <3>1. p \in InPlay /\ p.version \in Nat /\ savedVersion \in Nat /\ saveInFlight.version \in Nat
      BY <2>1, QueuedFacts DEF InPlay, TypeOK, Save
    <3>2. savedVersion < p.version
      BY <2>1, <3>1 DEF Drawn
    <3>3. CASE SavingNow
      BY <2>1, <3>1, <3>2, <3>3 DEF Drawn
    <3>4. CASE ~SavingNow
      BY <3>1, <3>2, <3>4 DEF SavingNow
    <3>5. QED
      BY <3>3, <3>4
  <2>3. QED
    BY <2>1, <2>2 DEF QueueOrdered, Sorted, Queued
<1>2. QED
  BY <1>1, InductiveInvariant, PTL

\* No write, however late or often retried, takes storage back to an older
\* revision of a row, and none removes a row.
THEOREM DiskMonotone == Spec => DiskNeverRegresses
<1>1. ASSUME IInv, [Next]_vars
      PROVE  [\A r \in Row : disk[r] <= disk'[r]]_vars
  <2>1. Le(disk, disk')
    BY <1>1, DiskGrows
  <2>2. QED
    BY <2>1 DEF Le
<1>2. QED
  BY <1>1, InductiveInvariant, PTL DEF Spec, DiskNeverRegresses

\* The promises of the flushes hold in every reachable state.
THEOREM PromisesKept == Spec => []FInv
<1>1. Init => FInv
  BY InitFInv
<1>2. IInv /\ IInv' /\ FInv /\ [Next]_vars => FInv'
  BY NextKeepsFInv
<1>3. QED
  BY <1>1, <1>2, InductiveInvariant, PTL DEF Spec

\* A snapshot that waits is never forgotten: the timer, a flush that is under
\* way or the failure banner stands for it, however flushes overlap.
THEOREM StallsAreVisible == Spec => []NoSilentStall
<1>1. FInv => NoSilentStall
  BY DEF FInv
<1>2. QED
  BY <1>1, PromisesKept, PTL

\* A flushPendingSave that has resolved put everything its caller had edited on
\* storage, or the failure is on display, for as long as the call is remembered:
\* no later write takes the banner down before storage has caught up.
THEOREM ResolvedMeansSaved == Spec => []FlushReports
<1>1. FInv => FlushReports
  BY DEF FInv, Reported, FlushReports, Le
<1>2. QED
  BY <1>1, PromisesKept, PTL
=============================================================================
