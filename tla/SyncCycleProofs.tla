--------------------------- MODULE SyncCycleProofs ---------------------------
(***************************************************************************)
(* Proofs about SyncCycle for any devices, edits, times, failed requests   *)
(* and crashes.                                                            *)
(*                                                                         *)
(* FastPairSound is about a backend with a fence.  Its invariant follows   *)
(* the lease of a run: from the read of the shared document to the record  *)
(* of the pair nobody else writes (Guarded), so that what was compared or  *)
(* uploaded is still there (Compared, Placed).                             *)
(*                                                                         *)
(* MergedIsPersisted rests on revisions: as long as the snapshot of a run  *)
(* is fresh, neither the store nor storage has a higher revision than the  *)
(* snapshot, nor later than the merged document (Ahead), and the upsert    *)
(* never refuses it.                                                       *)
(*                                                                         *)
(* NoLostEdit is about the merging server, without deletions and killed    *)
(* apps.  The copies are then in a total order (Below) along which the     *)
(* shared document only grows, and a device has only shared copies and its *)
(* own.  What a run replaces in storage or in the store is shared, or the  *)
(* other of the two has it, or it is below what the run has merged (Kept,  *)
(* Covered); an edit the run has not seen is the newest copy (Newest).     *)
(***************************************************************************)
EXTENDS SyncCycle, TLAPS

\* Where a run comes back to after it has read the local data.
Routed == \A d \in Device : cycle[d].next \in {"check", "pending", "readRemote"}

TInv == TypeOK /\ Routed

\* The steps of a run before it asks for the fence, and those under the fence.
Reading == {"idle", "setup", "readLocal", "check", "merge", "pending", "retryRead"}
Writing == {"writeLocal", "persist", "writeRemote", "upload", "abortClear",
            "finish", "refresh", "apply"}

-----------------------------------------------------------------------------
(* The invariant of the recorded pairs *)

\* No lease was lost by a run that was still using it.
NoLapse == budget.lapses = MaxLapses

\* A run writes only under its lease, and the lease is the one in the record.
Guarded(d) ==
    /\ cycle[d].lease => holder = d /\ cycle[d].pc \notin Reading
    /\ cycle[d].pc \in Writing => cycle[d].lease

\* Before the remote write, what was read is the shared document.
Compared(c) ==
    c.pc \in {"writeLocal", "persist", "writeRemote", "upload"} /\ c.write = "pending"
        => c.compare \subseteq {remote.item}

\* After it, the merged document is.
Placed(c) ==
    c.pc = "finish" \/ (c.pc \in {"writeLocal", "persist"} /\ c.write = "clear")
        => c.merged = remote.item /\ c.wrote \in {0, remote.version}

\* Until then nothing is recorded as written.
Unwritten(c) ==
    /\ c.pc \in Reading \cup {"readRemote", "writeRemote", "upload"} => c.write = "pending"
    /\ c.write = "pending" /\ c.pc \notin {"finish", "refresh", "apply", "abortClear", "error", "reload"}
          => c.wrote = 0
    /\ c.pc = "readRemote" /\ c.lease => c.held = {}

Paired(d) ==
    Guarded(d) /\ Compared(cycle[d]) /\ Placed(cycle[d]) /\ Unwritten(cycle[d])

\* A pair is never ahead of the shared document.
PairsPast == \A d \in Device : fast[d].remote <= remote.version

PInv == (\A d \in Device : Paired(d)) /\ PairsPast /\ FastPairSound

-----------------------------------------------------------------------------
(* The invariant of the local writes *)

\* Nothing has been deleted so far.
NoDeletion == budget.removals = Removals

\* Every copy that d has is live.
AllLive(d) ==
    /\ ~memory[d].item.deleted /\ ~disk[d].item.deleted
    /\ ~cycle[d].snapshot.deleted /\ ~cycle[d].merged.deleted
    /\ \A e \in cycle[d].held : ~e.deleted

\* Neither the store nor the storage of d has a later revision than e.
Latest(d, e) == memory[d].item.rev <= e.rev /\ disk[d].item.rev <= e.rev

\* While no edit has landed, the snapshot is the store's copy until storage has
\* been read, then at least as late as both, and the merged document after it.
Ahead(d) ==
    ~cycle[d].stale =>
        /\ cycle[d].pc = "readLocal" => cycle[d].snapshot = memory[d].item
        /\ cycle[d].pc \in {"check", "merge", "pending", "retryRead", "readRemote"}
              => Latest(d, cycle[d].snapshot)
        /\ cycle[d].pc \in {"writeLocal", "persist", "writeRemote", "upload"}
              => Latest(d, cycle[d].merged)

MInv == ~remote.item.deleted /\ \A d \in Device : AllLive(d) /\ Ahead(d)

-----------------------------------------------------------------------------
(* The invariant of the saved edits *)

\* No app was killed so far.
NoCrash == budget.crashes = MaxCrashes

\* What edits make of the task, and those of them made until now.
Copy == {e \in Entity : /\ e.rev \in 1..MaxSyncRevision
                        /\ e.updated \in Nat
                        /\ ~e.deleted /\ e.deletedAt = Invalid
                        /\ e.content = e.revBy}
Copies == {e \in Copy : e.updated <= clock}

\* The order of such copies: the later one wins every merge.
Below(a, b) ==
    \/ a.rev < b.rev
    \/ a.rev = b.rev /\ a.updated < b.updated
    \/ a.rev = b.rev /\ a.updated = b.updated /\ a.revBy <= b.revBy

Shared(e) == Below(e, remote.item)

\* The documents that a run of d may write.
Drafts(d) == {disk[d].item, cycle[d].snapshot, cycle[d].merged}

\* A copy that d did not make itself is in the shared document.
Imported(d) ==
    /\ {memory[d].item} \cup Drafts(d) \cup cycle[d].held \subseteq Copies
    /\ \A e \in {memory[d].item} \cup Drafts(d) : Shared(e) \/ e.revBy = d
    /\ \A e \in cycle[d].held : Shared(e)

\* An edit that is unsaved or that a run has not seen is the newest of d.
Newest(d) ==
    dirty[d] \/ cycle[d].stale =>
        /\ memory[d].item.revBy = d
        /\ \A e \in Drafts(d) : Shared(e) \/ e.updated <= memory[d].item.updated

\* What a run is about to replace on storage is in what it has read.
Kept(d) ==
    LET known == Shared(disk[d].item) \/ Below(disk[d].item, memory[d].item)
    IN  /\ cycle[d].pc \in {"check", "merge", "pending", "retryRead", "readRemote"}
              => known \/ Below(disk[d].item, cycle[d].snapshot)
        /\ cycle[d].pc \in {"writeLocal", "persist", "writeRemote", "upload"}
              => known \/ Below(disk[d].item, cycle[d].merged)

\* What a fresh run is about to replace in the store is in what it has merged;
\* what a stale or failed one replaces there is on storage.
Covered(d) ==
    /\ ~cycle[d].stale =>
          /\ cycle[d].pc \in {"readLocal", "check", "merge", "pending", "retryRead", "readRemote"}
                => Below(memory[d].item, cycle[d].snapshot)
          /\ cycle[d].pc \in {"writeLocal", "persist", "writeRemote", "upload",
                              "finish", "refresh", "apply"}
                => Below(memory[d].item, cycle[d].merged)
    /\ \/ cycle[d].pc = "apply" /\ cycle[d].stale /\ ~dirty[d]
       \/ cycle[d].pc = "error" /\ ~dirty[d]
       \/ cycle[d].pc = "reload" /\ ~cycle[d].stale
       => Below(memory[d].item, disk[d].item)

\* A run fails after its first local write only, and is aborted by an edit only.
Ordered(d) ==
    /\ cycle[d].pc \in Reading \cup {"readRemote"} => ~cycle[d].wroteLocal
    /\ cycle[d].pc = "abortClear" => cycle[d].stale
    /\ cycle[d].pc = "reload" /\ dirty[d] => cycle[d].stale

Keeps(d) == Imported(d) /\ Newest(d) /\ Kept(d) /\ Covered(d) /\ Ordered(d)

Saved ==
    \/ Shared(best)
    \/ \E d \in Device : Below(best, memory[d].item) \/ Below(best, disk[d].item)

LInv == {remote.item, best} \subseteq Copies /\ Saved /\ \A d \in Device : Keeps(d)

-----------------------------------------------------------------------------
(* Types *)

TypedData ==
    /\ memory \in [Device -> Document]
    /\ disk \in [Device -> Document]
    /\ dirty \in [Device -> BOOLEAN]
    /\ fast \in [Device -> FastPair]

\* A run that knows where its reads return to and ends in its first state.
Run == {c \in Cycle : /\ c.next \in {"check", "pending", "readRemote"}
                      /\ c.pc = "idle" => c = Idle}

TypedCycle == cycle \in [Device -> Run]

TypedHolder == holder \in Device \cup {NoOne}

TypedRest ==
    /\ clock \in 0..MaxTime
    /\ remote \in [item : Entity, version : Nat]
    /\ best \in Entity
    /\ budget \in [edits : [Device -> Nat], removals : [Device -> Nat],
                   failures : Nat, crashes : Nat, lapses : Nat]

LEMMA TypeParts == TInv <=> TypedData /\ TypedCycle /\ TypedHolder /\ TypedRest
BY DEF TInv, TypeOK, Routed, Run, TypedData, TypedCycle, TypedHolder, TypedRest

LEMMA TypePartsNext ==
    ASSUME TypedData', TypedCycle', TypedHolder', TypedRest'
    PROVE  TInv'
BY DEF TInv, TypeOK, Routed, Run, TypedData, TypedCycle, TypedHolder, TypedRest

\* The task every device starts with, and a run that has not begun.
LEMMA StartTypes ==
    /\ Created \in Entity /\ Created.rev = 1 /\ ~Created.deleted
    /\ NoPending \in Pending
    /\ Idle \in Run
<1>1. Created \in Entity /\ Created.rev = 1 /\ ~Created.deleted
  BY DEF Created, Entity, Time, Invalid, NoOne
<1>2. NoPending \in Pending
  BY DEF NoPending, Pending
<1>3. Idle \in Run
  BY <1>1, <1>2 DEF Idle, Run, Cycle, Step
<1>4. QED
  BY <1>1, <1>2, <1>3

\* mergeEntitiesWithStats takes one of the two copies.
LEMMA WinnerIsCandidate ==
    ASSUME NEW a \in Entity, NEW b \in Entity, NEW now
    PROVE  Winner(a, b, now) \in {a, b}
<1>1. ChooseDeterministic(a, b) \in {a, b}
  BY DEF ChooseDeterministic
<1>2. RevisionWinner(a, b, now) \in {a, b}
  BY <1>1 DEF RevisionWinner
<1>3. TimestampWinner(a, b, now) \in {a, b}
  BY <1>1 DEF TimestampWinner
<1>4. DeleteVsLiveWinner(a, b, now) \in {a, b}
  <2> DEFINE near == Distance(OperationTime(a, now), OperationTime(b, now)) =< DeleteVsLiveWindow
  <2>1. a.rev \in Nat /\ b.rev \in Nat
    BY DEF Entity
  <2>2. ~near \/ a.rev > b.rev \/ a.rev < b.rev \/ a.rev = b.rev
    BY <2>1
  <2>3. QED
    BY <2>1, <2>2 DEF DeleteVsLiveWinner, Live, Deleted
<1>5. QED
  BY <1>2, <1>3, <1>4 DEF Winner

\* Of two live copies it takes one with the highest revision.
LEMMA WinnerIsLatest ==
    ASSUME NEW a \in Entity, NEW b \in Entity, NEW now, ~a.deleted, ~b.deleted
    PROVE  LET w == Winner(a, b, now)
           IN  w \in Entity /\ ~w.deleted /\ a.rev <= w.rev /\ b.rev <= w.rev
<1>1. /\ a.rev \in Nat /\ b.rev \in Nat /\ a.deleted = b.deleted
      /\ Winner(a, b, now) \in {a, b}
  BY WinnerIsCandidate DEF Entity
<1>2. CASE a.rev = b.rev
  BY <1>1, <1>2
<1>3. CASE a.rev > b.rev
  BY <1>1, <1>3 DEF Winner, HasRevision, RevisionWinner
<1>4. CASE a.rev < b.rev
  BY <1>1, <1>4 DEF Winner, HasRevision, RevisionWinner
<1>5. QED
  BY <1>1, <1>2, <1>3, <1>4

\* A stamped copy.
LEMMA StampTyped ==
    ASSUME NEW d \in Device, NEW e \in Entity, clock \in Nat
    PROVE  Stamp(e, d) \in Entity /\ Stamp(e, d).deleted = e.deleted
<1>1. NextRevision(e.rev) \in Nat
  BY MergeAssumption DEF NextRevision, Entity
<1>2. d \in Nat /\ clock \in Time
  BY CycleAssumption DEF Time
<1>3. QED
  BY <1>1, <1>2 DEF Stamp, Entity

\* The run of one device takes a step.
LEMMA GotoTyped ==
    ASSUME TypedCycle, NEW d \in Device, NEW c \in Run,
           cycle' = [cycle EXCEPT ![d] = c]
    PROVE  /\ TypedCycle'
           /\ cycle'[d] = c
           /\ \A e \in Device : e # d => cycle'[e] = cycle[e]
BY DEF TypedCycle

LEMMA JumpTyped ==
    ASSUME TypedCycle, NEW d \in Device, NEW pc \in Step, pc # "idle", Jump(d, pc)
    PROVE  /\ TypedCycle'
           /\ cycle'[d] = [cycle[d] EXCEPT !.pc = pc]
           /\ \A e \in Device : e # d => cycle'[e] = cycle[e]
<1>1. cycle[d] \in Run
  BY DEF TypedCycle
<1>2. [cycle[d] EXCEPT !.pc = pc] \in Run
  BY <1>1 DEF Run, Cycle
<1>3. cycle' = [cycle EXCEPT ![d] = [cycle[d] EXCEPT !.pc = pc]]
  BY DEF Jump
<1>4. QED
  BY <1>2, <1>3, GotoTyped

LEMMA EndTyped ==
    ASSUME TypedCycle, TypedHolder, NEW d \in Device, End(d)
    PROVE  /\ TypedCycle' /\ TypedHolder'
           /\ cycle'[d] = Idle
           /\ \A e \in Device : e # d => cycle'[e] = cycle[e]
           /\ holder' = holder \/ holder = d
<1>1. TypedCycle' /\ cycle'[d] = Idle /\ \A e \in Device : e # d => cycle'[e] = cycle[e]
  BY StartTypes, GotoTyped DEF End
<1>2. TypedHolder' /\ (holder' = holder \/ holder = d)
  BY DEF End, TypedHolder
<1>3. QED
  BY <1>1, <1>2

\* A run that stops, at once or by way of one more step.
Stops(d, pc) ==
    \/ cycle'[d] = Idle
    \/ cycle'[d] = [cycle[d] EXCEPT !.pc = pc]

LEMMA FailTyped ==
    ASSUME TypedCycle, TypedHolder, NEW d \in Device, Fail(d)
    PROVE  /\ TypedCycle' /\ TypedHolder'
           /\ Stops(d, "error")
           /\ \A e \in Device : e # d => cycle'[e] = cycle[e]
           /\ holder' = holder \/ holder = d
<1>1. "error" \in Step
  BY DEF Step
<1>2. CASE End(d)
  BY <1>2, EndTyped DEF Stops
<1>3. CASE Jump(d, "error") /\ UNCHANGED holder
  BY <1>1, <1>3, JumpTyped DEF Stops, TypedHolder
<1>4. QED
  BY <1>2, <1>3 DEF Fail

LEMMA AbortTyped ==
    ASSUME TypedCycle, TypedHolder, NEW d \in Device, LocalAbort(d) \/ RemoteAbort(d)
    PROVE  /\ TypedCycle' /\ TypedHolder'
           /\ Stops(d, "abortClear")
           /\ \A e \in Device : e # d => cycle'[e] = cycle[e]
           /\ holder' = holder \/ holder = d
<1>1. "abortClear" \in Step
  BY DEF Step
<1>2. CASE End(d)
  BY <1>2, EndTyped DEF Stops
<1>3. CASE Jump(d, "abortClear") /\ UNCHANGED holder
  BY <1>1, <1>3, JumpTyped DEF Stops, TypedHolder
<1>4. QED
  BY <1>2, <1>3 DEF LocalAbort, RemoteAbort

\* A local write leaves a document of its type.
LEMMA StoreTyped ==
    ASSUME TypedData, NEW d \in Device, NEW item \in Entity, NEW pending \in Pending,
           Store(d, item, pending)
    PROVE  /\ disk' \in [Device -> Document]
           /\ disk'[d].item = Upsert(disk[d].item, item)
           /\ \A e \in Device : e # d => disk'[e] = disk[e]
<1>1. disk \in [Device -> Document] /\ disk[d] \in Document
  BY DEF TypedData
<1>2. Upsert(disk[d].item, item) \in Entity
  BY <1>1 DEF Upsert, Document
<1>3. [item |-> Upsert(disk[d].item, item), pending |-> pending] \in Document
  BY <1>2 DEF Document
<1>4. disk' = [disk EXCEPT ![d] = [item |-> Upsert(disk[d].item, item), pending |-> pending]]
  BY DEF Store
<1>5. QED
  BY <1>1, <1>3, <1>4

LEMMA InitTyped == Init => TInv
<1> SUFFICES ASSUME Init PROVE TInv
  OBVIOUS
<1>1. [item |-> Created, pending |-> NoPending] \in Document
  BY StartTypes DEF Document
<1>2. [local |-> {}, remote |-> 0] \in FastPair
  BY DEF FastPair
<1>3. TypedData
  BY <1>1, <1>2 DEF Init, TypedData
<1>4. TypedCycle
  BY StartTypes DEF Init, TypedCycle
<1>5. TypedHolder
  BY DEF Init, TypedHolder
<1>6. TypedRest
  BY StartTypes, CycleAssumption DEF Init, TypedRest
<1>7. QED
  BY <1>3, <1>4, <1>5, <1>6, TypeParts

\* An edit or a deletion.
LEMMA ChangeTyped ==
    ASSUME TypedData, TypedCycle, TypedRest, NEW d \in Device, NEW item \in Entity,
           Change(d, item)
    PROVE  /\ TypedData' /\ TypedCycle'
           /\ memory'[d].item = Stamp(item, d)
           /\ \A e \in Device : e # d => memory'[e] = memory[e]
           /\ cycle'[d] = [cycle[d] EXCEPT !.stale = cycle[d].pc # "idle"]
           /\ \A e \in Device : e # d => cycle'[e] = cycle[e]
<1> DEFINE m == [memory[d] EXCEPT !.item = Stamp(item, d)]
           c == [cycle[d] EXCEPT !.stale = cycle[d].pc # "idle"]
<1>1. /\ memory \in [Device -> Document] /\ memory[d] \in Document /\ clock \in Nat
      /\ cycle[d] \in Run
  BY CycleAssumption DEF TypedData, TypedCycle, TypedRest
<1>2. m \in Document /\ m.item = Stamp(item, d)
  BY <1>1, StampTyped DEF Document
<1>3. memory' = [memory EXCEPT ![d] = m]
  BY DEF Change
<1>4. c \in Cycle /\ c.next = cycle[d].next /\ c.pc = cycle[d].pc
  BY <1>1 DEF Run, Cycle
<1>5. c \in Run
  <2>1. cycle[d].pc = "idle" => cycle[d] = Idle
    BY <1>1 DEF Run
  <2>2. cycle[d].pc = "idle" => c = Idle
    <3>1. Idle.stale = FALSE
      BY DEF Idle
    <3>2. QED
      BY <1>1, <2>1, <3>1 DEF Run, Cycle
  <2>3. QED
    BY <1>1, <1>4, <2>2 DEF Run
<1>6. cycle' = [cycle EXCEPT ![d] = c]
  BY DEF Change
<1> HIDE DEF m, c
<1>7. TypedCycle' /\ cycle'[d] = c /\ \A e \in Device : e # d => cycle'[e] = cycle[e]
  BY <1>5, <1>6, GotoTyped
<1>8. TypedData'
  BY <1>1, <1>2, <1>3 DEF TypedData, Change
<1>9. QED
  BY <1>1, <1>2, <1>3, <1>7, <1>8 DEF c

LEMMA EditTyped ==
    ASSUME TInv, NEW d \in Device, Edit(d) \/ Delete(d)
    PROVE  TInv'
<1>1. TypedData /\ TypedCycle /\ TypedHolder /\ TypedRest /\ memory[d].item \in Entity
  BY TypeParts DEF TypedData, Document
<1>2. d \in Nat /\ clock \in Time
  BY <1>1, CycleAssumption DEF TypedRest, Time
<1>3. /\ [memory[d].item EXCEPT !.content = d] \in Entity
      /\ [memory[d].item EXCEPT !.deleted = TRUE, !.deletedAt = clock] \in Entity
  BY <1>1, <1>2 DEF Entity
<1>4. TypedData' /\ TypedCycle'
  BY <1>1, <1>3, ChangeTyped DEF Edit, Delete
<1>5. TypedHolder'
  BY <1>1 DEF TypedHolder, Edit, Delete, Change
<1>6. budget' \in [edits : [Device -> Nat], removals : [Device -> Nat],
                   failures : Nat, crashes : Nat, lapses : Nat]
  <2>1. /\ budget.edits \in [Device -> Nat] /\ budget.removals \in [Device -> Nat]
    BY <1>1 DEF TypedRest
  <2>2. budget.edits[d] > 0 => [budget.edits EXCEPT ![d] = @ - 1] \in [Device -> Nat]
    BY <2>1
  <2>3. budget.removals[d] > 0 => [budget.removals EXCEPT ![d] = @ - 1] \in [Device -> Nat]
    BY <2>1
  <2>4. \/ /\ budget.edits[d] > 0
           /\ budget' = [budget EXCEPT !.edits = [budget.edits EXCEPT ![d] = @ - 1]]
        \/ /\ budget.removals[d] > 0
           /\ budget' = [budget EXCEPT !.removals = [budget.removals EXCEPT ![d] = @ - 1]]
    BY DEF Edit, Delete
  <2>5. QED
    BY <1>1, <2>2, <2>3, <2>4 DEF TypedRest
<1>7. TypedRest'
  BY <1>1, <1>6 DEF TypedRest, Edit, Delete, Change
<1>8. QED
  BY <1>4, <1>5, <1>7, TypePartsNext

LEMMA FlushTyped ==
    ASSUME TInv, NEW d \in Device, Flush(d)
    PROVE  TInv'
<1>1. TypedData /\ TypedCycle /\ TypedHolder /\ TypedRest /\ memory[d] \in Document
      /\ disk[d] \in Document
  BY TypeParts DEF TypedData
<1>2. PICK pending \in Pending : Store(d, memory[d].item, pending)
  BY <1>1 DEF Flush, Document
<1>3. disk' \in [Device -> Document]
  BY <1>1, <1>2, StoreTyped DEF Document
<1>4. TypedData'
  BY <1>1, <1>3 DEF TypedData, Flush
<1>5. best' \in Entity
  BY <1>1, WinnerIsCandidate DEF Flush, TypedRest, Document
<1>6. TypedRest' /\ TypedCycle' /\ TypedHolder'
  BY <1>1, <1>5 DEF TypedRest, TypedCycle, TypedHolder, Flush
<1>7. QED
  BY <1>4, <1>6, TypePartsNext

\* A step of a run that leaves everything else alone.
LEMMA RunTyped ==
    ASSUME TInv, NEW d \in Device, NEW c \in Run, Goto(d, c),
           UNCHANGED <<data, rest>>, TypedHolder'
    PROVE  TInv'
<1>1. TypedData /\ TypedCycle /\ TypedRest
  BY TypeParts
<1>2. TypedCycle'
  BY <1>1, GotoTyped DEF Goto
<1>3. TypedData' /\ TypedRest'
  BY <1>1 DEF TypedData, TypedRest, data, rest
<1>4. QED
  BY <1>2, <1>3, TypePartsNext

\* A run that ends, fails or is aborted, leaving data alone.
LEMMA StopTyped ==
    ASSUME TInv, NEW d \in Device,
           End(d) \/ Fail(d) \/ LocalAbort(d) \/ RemoteAbort(d),
           TypedData', TypedRest'
    PROVE  TInv'
<1>1. TypedCycle /\ TypedHolder
  BY TypeParts
<1>2. TypedCycle' /\ TypedHolder'
  BY <1>1, EndTyped, FailTyped, AbortTyped
<1>3. QED
  BY <1>2, TypePartsNext

LEMMA UnchangedData ==
    ASSUME TInv
    PROVE  /\ UNCHANGED <<data>> => TypedData'
           /\ UNCHANGED rest => TypedRest'
           /\ UNCHANGED holder => TypedHolder'
BY TypeParts DEF TypedData, TypedRest, TypedHolder, data, rest

\* One request to the backend fails.
LEMMA FailureSpent ==
    ASSUME TInv, budget.failures > 0, budget' = [budget EXCEPT !.failures = @ - 1],
           UNCHANGED <<clock, best>>, remote' \in [item : Entity, version : Nat]
    PROVE  TypedRest'
<1>1. TypedRest
  BY TypeParts
<1>2. budget' \in [edits : [Device -> Nat], removals : [Device -> Nat],
                   failures : Nat, crashes : Nat, lapses : Nat]
  BY <1>1 DEF TypedRest
<1>3. QED
  BY <1>1, <1>2 DEF TypedRest

\* The local data is read.
LEMMA ReadsTyped ==
    ASSUME TInv, NEW d \in Device, Start(d) \/ StampLocal(d) \/ ReadLocal(d)
    PROVE  TInv'
<1>1. /\ cycle[d] \in Run /\ memory[d] \in Document /\ disk[d] \in Document
      /\ memory[d].item \in Entity /\ disk[d].item \in Entity /\ disk[d].pending \in Pending
      /\ cycle[d].snapshot \in Entity
  BY TypeParts DEF TypedData, TypedCycle, Document, Run, Cycle
<1>2. UNCHANGED <<data, rest>> /\ TypedHolder'
  BY UnchangedData DEF Start, StampLocal, ReadLocal
<1>3. CASE Start(d)
  <2>1. [Idle EXCEPT !.pc = "setup"] \in Run
    BY StartTypes DEF Run, Cycle, Step
  <2>2. QED
    BY <1>2, <1>3, <2>1, RunTyped DEF Start
<1>4. CASE StampLocal(d)
  <2> DEFINE c == [cycle[d] EXCEPT !.pc = "readLocal", !.stale = FALSE,
                                   !.snapshot = memory[d].item]
  <2>1. c \in Run
    BY <1>1 DEF Run, Cycle, Step
  <2>2. Goto(d, c)
    BY <1>4 DEF StampLocal
  <2> HIDE DEF c
  <2>3. QED
    BY <1>2, <2>1, <2>2, RunTyped
<1>5. CASE ReadLocal(d)
  <2> DEFINE aligned == disk[d].item = cycle[d].snapshot
             s == IF aligned THEN cycle[d].snapshot
                  ELSE Winner(disk[d].item, cycle[d].snapshot, clock)
             p == IF cycle[d].marked THEN NoPending ELSE disk[d].pending
             c == [cycle[d] EXCEPT !.pc = cycle[d].next, !.snapshot = s,
                                   !.matchesDisk = aligned, !.pending = p]
  <2>1. s \in Entity /\ p \in Pending /\ aligned \in BOOLEAN
    <3>1. Winner(disk[d].item, cycle[d].snapshot, clock) \in Entity
      BY <1>1, WinnerIsCandidate
    <3>2. QED
      BY <1>1, <3>1, StartTypes
  <2> HIDE DEF s, p, aligned
  <2>2. c \in Run
    BY <1>1, <2>1 DEF Run, Cycle
  <2>3. Goto(d, c)
    BY <1>5 DEF ReadLocal, s, p, aligned
  <2> HIDE DEF c
  <2>4. QED
    BY <1>2, <2>2, <2>3, RunTyped
<1>6. QED
  BY <1>3, <1>4, <1>5

\* The checks before the merge phase.
LEMMA ChecksTyped ==
    ASSUME TInv, NEW d \in Device, Checks(d)
    PROVE  TInv'
<1>1. cycle[d] \in Run /\ remote.version \in Nat /\ remote.item \in Entity /\ TypedCycle
  BY TypeParts DEF TypedCycle, TypedRest
<1>2. TypedData' /\ TypedRest'
  BY UnchangedData DEF Checks, CheckStale, CheckSideEffects, FastSkip, ArmLocalOnlyUpload, ReadCheck
<1>3. CASE CheckStale(d) \/ FastSkip(d)
  BY <1>2, <1>3, StopTyped DEF CheckStale, FastSkip
<1>4. CASE CheckSideEffects(d)
  <2>1. TypedCycle' /\ TypedHolder'
    BY <1>1, <1>4, JumpTyped, UnchangedData DEF CheckSideEffects, Step
  <2>2. QED
    BY <1>2, <2>1, TypePartsNext
<1>5. CASE ArmLocalOnlyUpload(d)
  <2> DEFINE c == [cycle[d] EXCEPT !.pc = "merge", !.armed = TRUE, !.seen = remote.version]
  <2>1. c \in Run
    BY <1>1 DEF Run, Cycle, Step
  <2>2. cycle' = [cycle EXCEPT ![d] = c] /\ UNCHANGED holder
    BY <1>5 DEF ArmLocalOnlyUpload, Goto
  <2> HIDE DEF c
  <2>3. TypedCycle' /\ TypedHolder'
    BY <1>1, <2>1, <2>2, GotoTyped, UnchangedData
  <2>4. QED
    BY <1>2, <2>3, TypePartsNext
<1>6. CASE ReadCheck(d)
  <2> DEFINE c == [cycle[d] EXCEPT !.pc = "merge", !.held = {remote.item}]
  <2>1. c \in Run
    BY <1>1 DEF Run, Cycle, Step
  <2>2. End(d) \/ (cycle' = [cycle EXCEPT ![d] = c] /\ UNCHANGED holder)
    BY <1>6 DEF ReadCheck, Goto
  <2> HIDE DEF c
  <2>3. CASE End(d)
    BY <1>2, <2>3, StopTyped
  <2>4. CASE cycle' = [cycle EXCEPT ![d] = c] /\ UNCHANGED holder
    <3>1. TypedCycle' /\ TypedHolder'
      BY <1>1, <2>1, <2>4, GotoTyped, UnchangedData
    <3>2. QED
      BY <1>2, <3>1, TypePartsNext
  <2>5. QED
    BY <2>2, <2>3, <2>4
<1>7. QED
  BY <1>3, <1>4, <1>5, <1>6 DEF Checks

\* The merge phase up to the read of the shared document.
LEMMA MergesTyped ==
    ASSUME TInv, NEW d \in Device, Merges(d)
    PROVE  TInv'
<1>1. /\ cycle[d] \in Run /\ remote.version \in Nat /\ remote.item \in Entity
      /\ TypedCycle /\ TypedHolder
  BY TypeParts DEF TypedCycle, TypedRest
<1>2. TypedData' /\ TypedRest'
  BY UnchangedData DEF Merges, MergeReadLocal, NothingPending, PendingBackoff, RetryPending,
     AcquireFence, FenceBusy, ReadRemote
<1>3. ASSUME NEW c \in Run, Goto(d, c), TypedHolder' PROVE TInv'
  BY <1>1, <1>2, <1>3, GotoTyped, TypePartsNext DEF Goto
<1>4. CASE PendingBackoff(d) \/ FenceBusy(d)
  BY <1>2, <1>4, StopTyped DEF PendingBackoff, FenceBusy
<1>5. CASE MergeReadLocal(d)
  <2> DEFINE target == IF At(d, "merge") THEN "pending" ELSE "readRemote"
             c == [cycle[d] EXCEPT !.pc = "setup", !.next = target]
             b == [cycle[d] EXCEPT !.pc = target]
  <2>1. target \in {"pending", "readRemote"}
    OBVIOUS
  <2>2. Goto(d, c) \/ Goto(d, b)
    BY <1>5 DEF MergeReadLocal, Jump, Goto
  <2> HIDE DEF target
  <2>3. c \in Run /\ b \in Run
    BY <1>1, <2>1 DEF Run, Cycle, Step
  <2> HIDE DEF c, b
  <2>4. QED
    BY <1>3, <1>5, <2>2, <2>3, UnchangedData DEF MergeReadLocal
<1>6. CASE NothingPending(d)
  <2>1. TypedCycle' /\ TypedHolder'
    BY <1>1, <1>6, JumpTyped, UnchangedData DEF NothingPending, Step
  <2>2. QED
    BY <1>2, <2>1, TypePartsNext
<1>7. CASE RetryPending(d)
  <2> DEFINE c == [cycle[d] EXCEPT !.pc = "retryRead", !.marked = TRUE, !.pending = NoPending]
  <2>1. c \in Run
    BY <1>1, StartTypes DEF Run, Cycle, Step
  <2>2. Goto(d, c) /\ UNCHANGED holder
    BY <1>7 DEF RetryPending
  <2> HIDE DEF c
  <2>3. QED
    BY <1>3, <2>1, <2>2, UnchangedData
<1>8. CASE AcquireFence(d)
  <2> DEFINE c == [cycle[d] EXCEPT !.lease = TRUE, !.held = {}]
  <2>1. cycle[d].pc = "readRemote"
    BY <1>8 DEF AcquireFence, At
  <2>2. c \in Run
    BY <1>1, <2>1 DEF Run, Cycle
  <2>3. Goto(d, c) /\ TypedHolder'
    BY <1>8 DEF AcquireFence, TypedHolder
  <2> HIDE DEF c
  <2>4. QED
    BY <1>3, <2>2, <2>3
<1>9. CASE ReadRemote(d)
  <2> DEFINE read == IF cycle[d].held # {} THEN cycle[d].held ELSE {remote.item}
             merged == Merged(cycle[d], read)
             direct == ~cycle[d].marked /\ cycle[d].matchesDisk /\ merged = cycle[d].snapshot
             pc == IF direct THEN "writeRemote" ELSE "writeLocal"
             compare == IF cycle[d].armed THEN {} ELSE read
             seen == IF cycle[d].armed THEN cycle[d].seen ELSE remote.version
             c == [cycle[d] EXCEPT !.pc = pc, !.held = {}, !.compare = compare,
                                   !.seen = seen, !.merged = merged, !.direct = direct]
  <2>1. /\ cycle[d].held \in SUBSET Entity /\ cycle[d].snapshot \in Entity
        /\ cycle[d].seen \in Nat /\ cycle[d].marked \in BOOLEAN
    BY <1>1 DEF Run, Cycle
  <2>2. read \in SUBSET Entity /\ read # {} /\ compare \in SUBSET Entity /\ seen \in Nat
    BY <1>1, <2>1
  <2>3. merged \in Entity
    <3>1. (CHOOSE e \in read : TRUE) \in Entity
      BY <2>2
    <3> HIDE DEF read
    <3>2. QED
      BY <2>1, <3>1, WinnerIsCandidate DEF Merged
  <2>4. direct \in BOOLEAN /\ pc \in {"writeRemote", "writeLocal"}
    OBVIOUS
  <2>5. Goto(d, c) /\ UNCHANGED holder
    BY <1>9 DEF ReadRemote
  <2> HIDE DEF read, merged, direct, pc, compare, seen
  <2>6. c \in Run
    BY <1>1, <2>2, <2>3, <2>4 DEF Run, Cycle, Step
  <2> HIDE DEF c
  <2>7. QED
    BY <1>3, <2>5, <2>6, UnchangedData
<1>10. QED
  BY <1>4, <1>5, <1>6, <1>7, <1>8, <1>9 DEF Merges

\* What the backend makes of an upload.
LEMMA PutTyped ==
    ASSUME TInv, NEW d \in Device, Put(d)
    PROVE  remote' \in [item : Entity, version : Nat]
<1>1. remote.item \in Entity /\ remote.version \in Nat /\ cycle[d].merged \in Entity
  BY TypeParts DEF TypedRest, TypedCycle, Run, Cycle
<1>2. Winner(remote.item, cycle[d].merged, clock) \in Entity
  BY <1>1, WinnerIsCandidate
<1>3. QED
  BY <1>1, <1>2 DEF Put

LEMMA UploadedTyped ==
    ASSUME NEW c \in Run
    PROVE  /\ Uploaded(c) \in Run
           /\ \A v \in Nat : \A b \in BOOLEAN :
                 [Uploaded(c) EXCEPT !.wrote = v, !.serverMerged = b] \in Run
           /\ Uploaded(c).pc \in {"finish", "writeLocal"}
<1>1. Uploaded(c) \in Run /\ Uploaded(c).pc \in {"finish", "writeLocal"}
  BY DEF Uploaded, Run, Cycle, Step
<1>2. ASSUME NEW v \in Nat, NEW b \in BOOLEAN
      PROVE  [Uploaded(c) EXCEPT !.wrote = v, !.serverMerged = b] \in Run
  BY <1>1 DEF Run, Cycle
<1>3. QED
  BY <1>1, <1>2

LEMMA MarkersTyped ==
    ASSUME NEW c \in Cycle
    PROVE  /\ Markers(c) \in Pending
           /\ AfterPersist(c.write) \in {"writeRemote", "error", "finish"}
<1>1. c.write \in {"pending", "retry", "clear"} /\ c.direct \in BOOLEAN
  BY DEF Cycle
<1>2. [at |-> ~c.direct, retry |-> TRUE] \in Pending /\ [at |-> TRUE, retry |-> FALSE] \in Pending
  BY <1>1 DEF Pending
<1>3. QED
  BY <1>1, <1>2, StartTypes DEF Markers, AfterPersist

\* The local and the remote writes.
LEMMA WritesTyped ==
    ASSUME TInv, NEW d \in Device, Writes(d) \/ LeaseUnconfirmed(d) \/ ReadFails(d)
    PROVE  TInv'
<1>1. /\ cycle[d] \in Run /\ cycle[d] \in Cycle /\ cycle[d].merged \in Entity
      /\ memory[d].item \in Entity /\ TypedCycle /\ TypedHolder /\ TypedData /\ TypedRest
  BY TypeParts DEF TypedCycle, TypedData, Document, Run, Cycle
<1>2. ASSUME NEW c \in Run, Goto(d, c), UNCHANGED holder, TypedData', TypedRest' PROVE TInv'
  BY <1>1, <1>2, GotoTyped, UnchangedData, TypePartsNext DEF Goto
<1>3. ASSUME NEW pc \in Step, pc # "idle", Jump(d, pc), UNCHANGED holder, UNCHANGED <<data, rest>>
      PROVE  TInv'
  BY <1>1, <1>3, JumpTyped, UnchangedData, TypePartsNext
<1>4. CASE WriteLocal(d) \/ WriteRemote(d)
  <2>1. UNCHANGED <<data, rest>>
    BY <1>4 DEF WriteLocal, WriteRemote
  <2>2. "persist" \in Step /\ "upload" \in Step
    BY DEF Step
  <2>3. \/ LocalAbort(d) \/ RemoteAbort(d)
        \/ (Jump(d, "persist") \/ Jump(d, "upload")) /\ UNCHANGED holder
    BY <1>4 DEF WriteLocal, WriteRemote
  <2>4. CASE LocalAbort(d) \/ RemoteAbort(d)
    BY <2>1, <2>4, StopTyped, UnchangedData
  <2>5. CASE (Jump(d, "persist") \/ Jump(d, "upload")) /\ UNCHANGED holder
    BY <1>3, <2>1, <2>2, <2>5
  <2>6. QED
    BY <2>3, <2>4, <2>5
<1>5. CASE Persist(d)
  <2>1. Markers(cycle[d]) \in Pending
    BY <1>1, MarkersTyped
  <2>2. disk' \in [Device -> Document]
    BY <1>1, <1>5, <2>1, StoreTyped DEF Persist
  <2>3. TypedData' /\ TypedRest'
    BY <1>1, <1>5, <2>2 DEF Persist, TypedData, TypedRest
  <2> DEFINE c == [cycle[d] EXCEPT !.pc = AfterPersist(cycle[d].write),
                                   !.matchesDisk = FALSE, !.wroteLocal = TRUE]
  <2>4. LocalAbort(d) \/ (Goto(d, c) /\ UNCHANGED holder)
    BY <1>5 DEF Persist
  <2>5. c \in Run
    BY <1>1, MarkersTyped DEF Run, Cycle, Step
  <2> HIDE DEF c
  <2>6. CASE LocalAbort(d)
    BY <2>3, <2>6, StopTyped
  <2>7. CASE Goto(d, c) /\ UNCHANGED holder
    BY <1>2, <2>3, <2>5, <2>7
  <2>8. QED
    BY <2>4, <2>6, <2>7
<1>6. CASE AbortClear(d)
  <2>1. UNCHANGED disk \/ Store(d, memory[d].item, NoPending)
    BY <1>6 DEF AbortClear
  <2>2. disk' \in [Device -> Document]
    BY <1>1, <2>1, StoreTyped, StartTypes DEF TypedData
  <2>3. TypedData' /\ TypedRest'
    BY <1>1, <1>6, <2>2 DEF AbortClear, TypedData, TypedRest
  <2>4. QED
    BY <1>6, <2>3, StopTyped DEF AbortClear
<1>7. CASE LeaseLost(d)
  BY <1>7, StopTyped, UnchangedData DEF LeaseLost
<1>8. CASE LeaseUnconfirmed(d) \/ ReadFails(d)
  <2>1. TypedData'
    BY <1>1, <1>8 DEF LeaseUnconfirmed, ReadFails, TypedData
  <2>2. remote' \in [item : Entity, version : Nat]
    BY <1>1, <1>8 DEF LeaseUnconfirmed, ReadFails, TypedRest
  <2>3. TypedRest'
    BY <1>8, <2>2, FailureSpent DEF LeaseUnconfirmed, ReadFails
  <2>4. QED
    BY <1>8, <2>1, <2>3, StopTyped DEF LeaseUnconfirmed, ReadFails
<1>9. CASE UploadSkipped(d)
  BY <1>1, <1>2, <1>9, UploadedTyped, UnchangedData DEF UploadSkipped
<1>10. CASE Upload(d)
  <2>1. remote' \in [item : Entity, version : Nat]
    BY <1>10, PutTyped DEF Upload
  <2>2. TypedData' /\ TypedRest'
    BY <1>1, <1>10, <2>1 DEF Upload, TypedData, TypedRest
  <2>3. remote'.version \in Nat /\ (remote'.item # cycle[d].merged) \in BOOLEAN
    BY <2>1
  <2> DEFINE c == [Uploaded(cycle[d]) EXCEPT !.wrote = remote'.version,
                                             !.serverMerged = remote'.item # cycle[d].merged]
  <2>4. c \in Run
    BY <1>1, <2>3, UploadedTyped
  <2>5. Goto(d, c) /\ UNCHANGED holder
    BY <1>10 DEF Upload
  <2> HIDE DEF c
  <2>6. QED
    BY <1>2, <2>2, <2>4, <2>5
<1>11. CASE UploadConflict(d)
  BY <1>11, StopTyped, UnchangedData DEF UploadConflict
<1>12. CASE UploadLeaseLost(d)
  <2> DEFINE c == [cycle[d] EXCEPT !.pc = "writeLocal", !.write = "retry"]
  <2>1. c \in Run
    BY <1>1 DEF Run, Cycle, Step
  <2>2. Goto(d, c) /\ UNCHANGED holder /\ UNCHANGED <<data, rest>>
    BY <1>12 DEF UploadLeaseLost, RetryLater, data, rest
  <2> HIDE DEF c
  <2>3. QED
    BY <1>2, <2>1, <2>2, UnchangedData
<1>13. QED
  BY <1>4, <1>5, <1>6, <1>7, <1>8, <1>9, <1>10, <1>11, <1>12 DEF Writes

LEMMA UploadFailsTyped ==
    ASSUME TInv, NEW d \in Device, UploadFails(d)
    PROVE  TInv'
<1>1. cycle[d] \in Run /\ TypedCycle /\ TypedHolder /\ TypedData /\ TypedRest
  BY TypeParts DEF TypedCycle
<1> DEFINE c == [cycle[d] EXCEPT !.pc = "writeLocal", !.write = "retry"]
<1>2. c \in Run
  BY <1>1 DEF Run, Cycle, Step
<1>3. cycle' = [cycle EXCEPT ![d] = c] /\ UNCHANGED <<clock, memory, disk, dirty, fast, holder, best>>
  BY DEF UploadFails, RetryLater, Goto
<1> HIDE DEF c
<1>4. remote' \in [item : Entity, version : Nat]
  <2>1. UNCHANGED remote \/ Put(d)
    BY DEF UploadFails
  <2>2. QED
    BY <1>1, <2>1, PutTyped DEF TypedRest
<1>5. TypedRest'
  BY <1>3, <1>4, FailureSpent DEF UploadFails
<1>6. TypedData' /\ TypedHolder'
  BY <1>1, <1>3 DEF TypedData, TypedHolder
<1>7. TypedCycle'
  BY <1>1, <1>2, <1>3, GotoTyped
<1>8. QED
  BY <1>5, <1>6, <1>7, TypePartsNext

\* The end of a run.
LEMMA FinishesTyped ==
    ASSUME TInv, NEW d \in Device, Finishes(d)
    PROVE  TInv'
<1>1. /\ cycle[d] \in Run /\ cycle[d].merged \in Entity /\ cycle[d].wrote \in Nat
      /\ remote.version \in Nat /\ TypedCycle /\ TypedHolder /\ TypedData /\ TypedRest
  BY TypeParts DEF TypedCycle, TypedRest, Run, Cycle
<1>2. CASE FinishStale(d) \/ RefreshSkipped(d)
  BY <1>2, StopTyped, UnchangedData DEF FinishStale, RefreshSkipped
<1>3. CASE RecordFast(d)
  <2> DEFINE p == [local |-> {cycle[d].merged},
                   remote |-> IF cycle[d].wrote > 0 THEN cycle[d].wrote ELSE remote.version]
  <2>1. p \in FastPair
    BY <1>1 DEF FastPair
  <2>2. fast' = fast \/ fast' = [fast EXCEPT ![d] = p]
    BY <1>3 DEF RecordFast
  <2> HIDE DEF p
  <2>3. fast' \in [Device -> FastPair]
    BY <1>1, <2>1, <2>2 DEF TypedData
  <2>4. TypedData' /\ TypedRest' /\ TypedHolder'
    BY <1>1, <1>3, <2>3 DEF RecordFast, TypedData, TypedRest, TypedHolder
  <2>5. TypedCycle'
    BY <1>1, <1>3, JumpTyped DEF RecordFast, Step
  <2>6. QED
    BY <2>4, <2>5, TypePartsNext
<1>4. CASE Refresh(d)
  <2>1. TypedCycle' /\ TypedHolder' /\ TypedData' /\ TypedRest'
    BY <1>1, <1>4, JumpTyped, UnchangedData DEF Refresh, Step
  <2>2. QED
    BY <2>1, TypePartsNext
<1>5. CASE TakeOver(d)
  <2>1. [item |-> cycle[d].merged, pending |-> NoPending] \in Document
    BY <1>1, StartTypes DEF Document
  <2>2. TypedData' /\ TypedRest'
    BY <1>1, <1>5, <2>1 DEF TakeOver, TypedData, TypedRest
  <2>3. QED
    BY <1>5, <2>2, StopTyped DEF TakeOver
<1>6. CASE ReloadStart(d)
  <2> DEFINE c == [cycle[d] EXCEPT !.pc = "reload", !.stale = FALSE]
  <2>1. c \in Run
    BY <1>1 DEF Run, Cycle, Step
  <2>2. Goto(d, c) /\ UNCHANGED <<data, rest>> /\ UNCHANGED holder
    BY <1>6 DEF ReloadStart
  <2> HIDE DEF c
  <2>3. QED
    BY <2>1, <2>2, RunTyped, UnchangedData
<1>7. CASE Reload(d)
  <2>1. memory' \in [Device -> Document]
    BY <1>1, <1>7 DEF Reload, TypedData
  <2>2. TypedData' /\ TypedRest'
    BY <1>1, <1>7, <2>1 DEF Reload, TypedData, TypedRest
  <2>3. QED
    BY <1>7, <2>2, StopTyped DEF Reload
<1>8. QED
  BY <1>2, <1>3, <1>4, <1>5, <1>6, <1>7 DEF Finishes, RefreshAtOnce, Apply

\* The environment.
LEMMA EnvironmentTyped ==
    ASSUME TInv,
           \/ \E d \in Device : Crash(d) \/ BackoffEnds(d)
           \/ LeaseExpires \/ LeaseLapses \/ Tick
    PROVE  TInv'
<1>1. TypedCycle /\ TypedHolder /\ TypedData /\ TypedRest
  BY TypeParts
<1>2. ASSUME NEW d \in Device, Crash(d) PROVE TInv'
  <2>1. TypedData'
    BY <1>1, <1>2 DEF Crash, TypedData
  <2>2. budget' \in [edits : [Device -> Nat], removals : [Device -> Nat],
                     failures : Nat, crashes : Nat, lapses : Nat]
    BY <1>1, <1>2 DEF Crash, TypedRest
  <2>3. TypedRest' /\ TypedHolder'
    BY <1>1, <1>2, <2>2 DEF Crash, TypedRest, TypedHolder
  <2>4. TypedCycle'
    BY <1>1, <1>2, StartTypes, GotoTyped DEF Crash, Goto
  <2>5. QED
    BY <2>1, <2>3, <2>4, TypePartsNext
<1>3. ASSUME NEW d \in Device, BackoffEnds(d) PROVE TInv'
  <2> DEFINE Off(p) == [p EXCEPT !.retry = FALSE]
             c == [cycle[d] EXCEPT !.pending = Off(@)]
  <2>1. \A p \in Pending : Off(p) \in Pending
    BY DEF Pending
  <2>2. cycle[d] \in Run /\ cycle[d].pending \in Pending
    BY <1>1 DEF TypedCycle, Run, Cycle
  <2>3. /\ disk' = [disk EXCEPT ![d] = [disk[d] EXCEPT !.pending = Off(@)]]
        /\ memory' = [memory EXCEPT ![d] = [memory[d] EXCEPT !.pending = Off(@)]]
        /\ cycle' = [cycle EXCEPT ![d] = c]
    BY <1>3 DEF BackoffEnds
  <2>4. Idle.pending = NoPending
    BY DEF Idle
  <2>5. [NoPending EXCEPT !.retry = FALSE] = NoPending
    <3>1. NoPending \in Pending /\ NoPending.retry = FALSE
      BY DEF NoPending, Pending
    <3>2. \A p \in Pending : p.retry = FALSE => [p EXCEPT !.retry = FALSE] = p
      BY DEF Pending
    <3>3. QED
      BY <3>1, <3>2
  <2>6. NoPending = Off(NoPending) /\ Idle.pending = NoPending
    BY <2>4, <2>5
  <2> HIDE DEF Off
  <2>7. /\ [disk[d] EXCEPT !.pending = Off(@)] \in Document
        /\ [memory[d] EXCEPT !.pending = Off(@)] \in Document
    BY <1>1, <2>1 DEF TypedData, Document
  <2>8. disk \in [Device -> Document] /\ memory \in [Device -> Document]
    BY <1>1 DEF TypedData
  <2>9. disk' \in [Device -> Document]
    BY <2>3, <2>7, <2>8
  <2>10. memory' \in [Device -> Document]
    BY <2>3, <2>7, <2>8
  <2>11. UNCHANGED <<dirty, fast>>
    BY <1>3 DEF BackoffEnds
  <2>12. TypedData'
    BY <1>1, <2>9, <2>10, <2>11 DEF TypedData
  <2>13. c \in Run
    <3>1. c \in Cycle /\ c.next = cycle[d].next /\ c.pc = cycle[d].pc
      BY <2>1, <2>2 DEF Run, Cycle
    <3>2. cycle[d].pc = "idle" => c = Idle
      <4> SUFFICES ASSUME cycle[d].pc = "idle" PROVE c = Idle
        OBVIOUS
      <4>1. cycle[d] = Idle /\ cycle[d].pending = Off(cycle[d].pending)
        BY <2>2, <2>6 DEF Run
      <4>2. QED
        BY <2>2, <4>1 DEF Run, Cycle
    <3>3. QED
      BY <2>2, <3>1, <3>2 DEF Run
  <2> HIDE DEF c
  <2>14. TypedCycle'
    BY <1>1, <2>3, <2>13, GotoTyped
  <2>15. TypedRest' /\ TypedHolder'
    BY <1>1, <1>3 DEF BackoffEnds, TypedRest, TypedHolder
  <2>16. QED
    BY <2>12, <2>14, <2>15, TypePartsNext
<1>4. CASE LeaseExpires \/ LeaseLapses
  <2>1. budget' \in [edits : [Device -> Nat], removals : [Device -> Nat],
                     failures : Nat, crashes : Nat, lapses : Nat]
    BY <1>1, <1>4 DEF LeaseExpires, LeaseLapses, TypedRest
  <2>2. TypedData' /\ TypedCycle' /\ TypedHolder' /\ TypedRest'
    BY <1>1, <1>4, <2>1 DEF LeaseExpires, LeaseLapses, TypedData, TypedCycle, TypedHolder, TypedRest
  <2>3. QED
    BY <2>2, TypePartsNext
<1>5. CASE Tick
  <2>1. clock' \in 0..MaxTime
    BY <1>1, <1>5, CycleAssumption DEF Tick, TypedRest
  <2>2. TypedData' /\ TypedCycle' /\ TypedHolder' /\ TypedRest'
    BY <1>1, <1>5, <2>1 DEF Tick, TypedData, TypedCycle, TypedHolder, TypedRest
  <2>3. QED
    BY <2>2, TypePartsNext
<1>6. QED
  BY <1>2, <1>3, <1>4, <1>5

\* Every step keeps the types.
LEMMA NextTyped ==
    ASSUME TInv, [Next]_vars
    PROVE  TInv'
<1>1. CASE UNCHANGED vars
  <2>1. TypedData /\ TypedCycle /\ TypedHolder /\ TypedRest
    BY TypeParts
  <2>2. TypedData' /\ TypedCycle' /\ TypedHolder' /\ TypedRest'
    BY <1>1, <2>1 DEF vars, data, rest, TypedData, TypedCycle, TypedHolder, TypedRest
  <2>3. QED
    BY <2>2, TypePartsNext
<1>2. ASSUME NEW d \in Device, Runs(d) PROVE TInv'
  BY <1>2, ReadsTyped, ChecksTyped, MergesTyped, WritesTyped, FinishesTyped DEF Runs
<1>3. ASSUME NEW d \in Device,
             \/ Edit(d) \/ Delete(d) \/ Flush(d)
             \/ ReadFails(d) \/ LeaseUnconfirmed(d) \/ UploadFails(d)
      PROVE  TInv'
  BY <1>3, EditTyped, FlushTyped, WritesTyped, UploadFailsTyped
<1>4. QED
  BY <1>1, <1>2, <1>3, EnvironmentTyped DEF Next

\* A run, an edit, a failed request, a crash or a lost lease keeps every variable
\* in its type; a run that ends leaves nothing to the next one.
THEOREM CycleTypeCorrect == Spec => []TypeOK
<1>1. Init => TInv
  BY InitTyped
<1>2. TInv /\ [Next]_vars => TInv'
  BY NextTyped
<1>3. QED
  BY <1>1, <1>2, PTL DEF Spec, TInv

-----------------------------------------------------------------------------
(* The recorded pairs *)

LEMMA Moved ==
    ASSUME TypedCycle, NEW d \in Device, NEW c, Goto(d, c)
    PROVE  cycle'[d] = c /\ \A e \in Device : e # d => cycle'[e] = cycle[e]
BY DEF TypedCycle, Goto

\* A step of d that changes neither the shared document nor the pairs: the
\* others have no lease, or the record is theirs and stays as it is.
LEMMA PairStep ==
    ASSUME TInv, PInv, NEW d \in Device,
           \A e \in Device : e # d => cycle'[e] = cycle[e],
           holder' = holder \/ holder \in {d, NoOne},
           UNCHANGED <<remote, fast>>, Paired(d)'
    PROVE  PInv'
<1>1. ASSUME NEW e \in Device, e # d PROVE Paired(e)'
  <2>1. Paired(e) /\ cycle'[e] = cycle[e] /\ e # NoOne
    BY <1>1, CycleAssumption DEF PInv
  <2>2. cycle[e].lease => holder' = e
    BY <1>1, <2>1 DEF Paired, Guarded
  <2>3. QED
    BY <2>1, <2>2 DEF Paired, Guarded, Compared, Placed, Unwritten
<1>2. \A e \in Device : Paired(e)'
  BY <1>1
<1>3. PairsPast' /\ FastPairSound'
  BY DEF PInv, PairsPast, FastPairSound
<1>4. QED
  BY <1>2, <1>3 DEF PInv

\* A run that ends, fails or is aborted.
LEMMA PairStop ==
    ASSUME TInv, PInv, NEW d \in Device,
           \/ End(d) \/ Fail(d)
           \/ (LocalAbort(d) \/ RemoteAbort(d)) /\ cycle[d].pc \in Writing,
           UNCHANGED <<remote, fast>>
    PROVE  PInv'
<1>1. /\ TypedCycle /\ TypedHolder /\ cycle[d] \in Run /\ cycle[d] \in Cycle
      /\ Paired(d)
  BY TypeParts DEF TypedCycle, PInv, Run
<1>2. /\ \A e \in Device : e # d => cycle'[e] = cycle[e]
      /\ holder' = holder \/ holder \in {d, NoOne}
  BY <1>1, EndTyped, FailTyped, AbortTyped
<1>3. CASE cycle'[d] = Idle
  <2>1. Paired(d)'
    BY <1>3 DEF Paired, Guarded, Compared, Placed, Unwritten, Idle, Reading, Writing
  <2>2. QED
    BY <1>2, <2>1, PairStep
<1>4. CASE cycle'[d] # Idle
  <2>1. UNCHANGED holder
    BY <1>1, <1>4, EndTyped DEF Fail, LocalAbort, RemoteAbort
  <2>2. \/ cycle'[d] = [cycle[d] EXCEPT !.pc = "error"]
        \/ cycle'[d] = [cycle[d] EXCEPT !.pc = "abortClear"] /\ cycle[d].pc \in Writing
    BY <1>1, <1>4, EndTyped, FailTyped, AbortTyped DEF Stops
  <2>3. Paired(d)'
    BY <1>1, <2>1, <2>2 DEF Paired, Guarded, Compared, Placed, Unwritten, Cycle, Reading, Writing
  <2>4. QED
    BY <1>2, <2>3, PairStep
<1>5. QED
  BY <1>3, <1>4

\* A step of a run that has no lease and does not write yet.
LEMMA ReadingPair ==
    ASSUME TInv, PInv, NEW d \in Device, NEW c, Goto(d, c), UNCHANGED <<remote, fast, holder>>,
           cycle[d].pc \in Reading, c.pc \in Reading \cup {"readRemote"},
           c.lease = cycle[d].lease, c.write = cycle[d].write, c.wrote = cycle[d].wrote
    PROVE  PInv'
<1>1. TypedCycle /\ Paired(d)
  BY TypeParts DEF PInv
<1>2. cycle'[d] = c /\ \A e \in Device : e # d => cycle'[e] = cycle[e]
  BY <1>1, Moved
<1>3. ~c.lease /\ c.write = "pending" /\ c.wrote = 0
  BY <1>1 DEF Paired, Guarded, Unwritten, Reading, Writing
<1>4. Paired(d)'
  BY <1>2, <1>3 DEF Paired, Guarded, Compared, Placed, Unwritten, Reading, Writing
<1>5. QED
  BY <1>2, <1>4, PairStep

LEMMA ReadsPair ==
    ASSUME TInv, PInv, NEW d \in Device,
           Start(d) \/ StampLocal(d) \/ ReadLocal(d) \/ Checks(d)
    PROVE  PInv'
<1>1. TypedCycle /\ cycle[d] \in Run /\ cycle[d] \in Cycle /\ Paired(d)
  BY TypeParts DEF TypedCycle, PInv, Run
<1>2. UNCHANGED <<remote, fast>>
  BY DEF Start, StampLocal, ReadLocal, Checks, CheckStale, CheckSideEffects, FastSkip,
     ArmLocalOnlyUpload, ReadCheck, data, rest
<1>3. ASSUME NEW c, Goto(d, c), UNCHANGED holder, cycle[d].pc \in Reading,
             c.pc \in Reading \cup {"readRemote"}, c.lease = cycle[d].lease,
             c.write = cycle[d].write, c.wrote = cycle[d].wrote
      PROVE  PInv'
  BY <1>2, <1>3, ReadingPair
<1>4. CASE Start(d)
  <2>1. cycle[d] = Idle
    BY <1>1, <1>4 DEF Start, At, Run
  <2>2. QED
    BY <1>3, <1>4, <2>1 DEF Start, At, Idle, Reading
<1>5. CASE StampLocal(d)
  BY <1>1, <1>3, <1>5 DEF StampLocal, At, Reading, Cycle
<1>6. CASE ReadLocal(d)
  <2> DEFINE aligned == disk[d].item = cycle[d].snapshot
             s == IF aligned THEN cycle[d].snapshot
                  ELSE Winner(disk[d].item, cycle[d].snapshot, clock)
             p == IF cycle[d].marked THEN NoPending ELSE disk[d].pending
             c == [cycle[d] EXCEPT !.pc = cycle[d].next, !.snapshot = s,
                                   !.matchesDisk = aligned, !.pending = p]
  <2>1. Goto(d, c) /\ cycle[d].pc = "readLocal" /\ UNCHANGED holder
    BY <1>6 DEF ReadLocal, At
  <2> HIDE DEF aligned, s, p
  <2>2. /\ c.pc \in Reading \cup {"readRemote"} /\ c.lease = cycle[d].lease
        /\ c.write = cycle[d].write /\ c.wrote = cycle[d].wrote
    BY <1>1 DEF Run, Cycle, Reading
  <2>3. cycle[d].pc \in Reading
    BY <2>1 DEF Reading
  <2> HIDE DEF c
  <2>4. QED
    BY <1>3, <2>1, <2>2, <2>3
<1>7. CASE CheckStale(d) \/ FastSkip(d) \/ (ReadCheck(d) /\ End(d))
  BY <1>2, <1>7, PairStop DEF CheckStale, FastSkip
<1>8. CASE CheckSideEffects(d) \/ ArmLocalOnlyUpload(d) \/ (ReadCheck(d) /\ ~End(d))
  <2>1. \/ Goto(d, [cycle[d] EXCEPT !.pc = "merge"])
        \/ Goto(d, [cycle[d] EXCEPT !.pc = "merge", !.armed = TRUE, !.seen = remote.version])
        \/ Goto(d, [cycle[d] EXCEPT !.pc = "merge", !.held = {remote.item}])
    BY <1>8 DEF CheckSideEffects, ArmLocalOnlyUpload, ReadCheck, Jump, Goto
  <2>2. UNCHANGED holder /\ cycle[d].pc = "check"
    BY <1>8 DEF CheckSideEffects, ArmLocalOnlyUpload, ReadCheck, At
  <2>3. QED
    BY <1>1, <1>3, <2>1, <2>2 DEF Cycle, Reading
<1>9. QED
  BY <1>4, <1>5, <1>6, <1>7, <1>8 DEF Checks

LEMMA MergesPair ==
    ASSUME TInv, PInv, Fenced, NEW d \in Device, Merges(d)
    PROVE  PInv'
<1>1. TypedCycle /\ cycle[d] \in Cycle /\ Paired(d)
  BY TypeParts DEF TypedCycle, PInv, Run
<1>2. UNCHANGED <<remote, fast>>
  BY DEF Merges, MergeReadLocal, NothingPending, PendingBackoff, RetryPending,
     AcquireFence, FenceBusy, ReadRemote, data, rest
<1>3. CASE PendingBackoff(d) \/ FenceBusy(d)
  BY <1>2, <1>3, PairStop DEF PendingBackoff, FenceBusy
<1>4. CASE MergeReadLocal(d) \/ NothingPending(d) \/ RetryPending(d)
  <2>1. UNCHANGED <<remote, fast, holder>> /\ cycle[d].pc \in Reading
    BY <1>2, <1>4 DEF MergeReadLocal, NothingPending, RetryPending, At, Reading
  <2>2. PICK pc \in Reading \cup {"readRemote"} :
           \/ Goto(d, [cycle[d] EXCEPT !.pc = pc])
           \/ Goto(d, [cycle[d] EXCEPT !.pc = pc, !.next = "pending"])
           \/ Goto(d, [cycle[d] EXCEPT !.pc = pc, !.next = "readRemote"])
           \/ Goto(d, [cycle[d] EXCEPT !.pc = pc, !.marked = TRUE, !.pending = NoPending])
    BY <1>4 DEF MergeReadLocal, NothingPending, RetryPending, Jump, Goto, Reading
  <2>3. QED
    BY <1>1, <2>1, <2>2, ReadingPair DEF Cycle
<1>5. CASE AcquireFence(d)
  <2>1. /\ cycle'[d] = [cycle[d] EXCEPT !.lease = TRUE, !.held = {}]
        /\ \A e \in Device : e # d => cycle'[e] = cycle[e]
        /\ holder = NoOne /\ holder' = d /\ cycle[d].pc = "readRemote"
    BY <1>1, <1>5, Moved DEF AcquireFence, At
  <2>2. Paired(d)'
    BY <1>1, <2>1 DEF Paired, Guarded, Compared, Placed, Unwritten, Reading, Writing, Cycle
  <2>3. QED
    BY <1>2, <2>1, <2>2, PairStep
<1>6. CASE ReadRemote(d)
  <2> DEFINE read == IF cycle[d].held # {} THEN cycle[d].held ELSE {remote.item}
             merged == Merged(cycle[d], read)
             direct == ~cycle[d].marked /\ cycle[d].matchesDisk /\ merged = cycle[d].snapshot
             pc == IF direct THEN "writeRemote" ELSE "writeLocal"
             compare == IF cycle[d].armed THEN {} ELSE read
             seen == IF cycle[d].armed THEN cycle[d].seen ELSE remote.version
             c == [cycle[d] EXCEPT !.pc = pc, !.held = {}, !.compare = compare,
                                   !.seen = seen, !.merged = merged, !.direct = direct]
  <2>1. Goto(d, c) /\ UNCHANGED holder /\ cycle[d].lease /\ cycle[d].pc = "readRemote"
    BY <1>6 DEF ReadRemote, At
  <2>2. /\ cycle[d].held = {} /\ cycle[d].write = "pending" /\ cycle[d].wrote = 0
        /\ holder = d
    BY <1>1, <2>1 DEF Paired, Guarded, Unwritten, Reading
  <2>3. compare \subseteq {remote.item} /\ pc \in {"writeRemote", "writeLocal"}
    BY <2>2
  <2> HIDE DEF read, merged, direct, pc, compare, seen
  <2>4. /\ c.pc = pc /\ c.lease /\ c.write = "pending" /\ c.wrote = 0 /\ c.held = {}
        /\ c.compare = compare
    BY <1>1, <2>1, <2>2 DEF Cycle
  <2> HIDE DEF c
  <2>5. cycle'[d] = c /\ \A e \in Device : e # d => cycle'[e] = cycle[e]
    BY <1>1, <2>1, Moved
  <2>6. Paired(d)'
    BY <1>2, <2>1, <2>2, <2>3, <2>4, <2>5
    DEF Paired, Guarded, Compared, Placed, Unwritten, Reading, Writing
  <2>7. QED
    BY <1>2, <2>1, <2>5, <2>6, PairStep
<1>7. QED
  BY <1>3, <1>4, <1>5, <1>6 DEF Merges

\* What a successful upload leaves of the run.
LEMMA UploadedFields ==
    ASSUME NEW c \in Cycle
    PROVE  /\ Uploaded(c) \in Cycle
           /\ Uploaded(c).lease = c.lease /\ Uploaded(c).merged = c.merged
           /\ Uploaded(c).wrote = c.wrote
           /\ \/ Uploaded(c).pc = "finish"
              \/ Uploaded(c).pc = "writeLocal" /\ Uploaded(c).write = "clear"
BY DEF Uploaded, Cycle, Step

\* The holder of the lease writes the shared document: nobody else is between a
\* read of it and the record of a pair.
LEMMA PairPut ==
    ASSUME TInv, PInv, Fenced, NEW d \in Device, holder = d, Put(d),
           \A e \in Device : e # d => cycle'[e] = cycle[e],
           UNCHANGED <<holder, fast>>, Paired(d)'
    PROVE  PInv'
<1>1. remote.version \in Nat /\ remote'.version = remote.version + 1
  BY TypeParts DEF TypedRest, Put
<1>2. ASSUME NEW e \in Device, e # d PROVE Paired(e)'
  <2>1. Paired(e) /\ cycle'[e] = cycle[e]
    BY <1>2 DEF PInv
  <2>2. ~cycle[e].lease /\ cycle[e].pc \notin Writing
    BY <1>2, <2>1 DEF Paired, Guarded
  <2>3. QED
    BY <2>1, <2>2 DEF Paired, Guarded, Compared, Placed, Unwritten, Writing
<1>3. \A e \in Device : Paired(e)'
  BY <1>2
<1>4. PairsPast' /\ FastPairSound'
  <2>1. \A e \in Device : fast[e].remote \in Nat /\ fast[e].remote <= remote.version
    BY TypeParts DEF PInv, PairsPast, TypedData, FastPair
  <2>2. QED
    BY <1>1, <2>1 DEF PairsPast, FastPairSound
<1>5. QED
  BY <1>3, <1>4 DEF PInv

LEMMA WritesPair ==
    ASSUME TInv, PInv, Fenced, NEW d \in Device,
           Writes(d) \/ LeaseUnconfirmed(d) \/ ReadFails(d) \/ UploadFails(d)
    PROVE  PInv'
<1>1. /\ TypedCycle /\ cycle[d] \in Run /\ cycle[d] \in Cycle /\ Paired(d)
      /\ remote.version \in Nat
  BY TypeParts DEF TypedCycle, TypedRest, PInv, Run
<1>2. CASE WriteLocal(d) \/ WriteRemote(d)
  <2>1. UNCHANGED <<remote, fast>> /\ cycle[d].pc \in {"writeLocal", "writeRemote"}
    BY <1>2 DEF WriteLocal, WriteRemote, At, data, rest
  <2>2. CASE LocalAbort(d) \/ RemoteAbort(d)
    BY <2>1, <2>2, PairStop DEF Writing
  <2>3. CASE ~(LocalAbort(d) \/ RemoteAbort(d))
    <3>1. UNCHANGED holder
      BY <1>2, <2>3 DEF WriteLocal, WriteRemote
    <3>2. \/ cycle[d].pc = "writeLocal" /\ Goto(d, [cycle[d] EXCEPT !.pc = "persist"])
          \/ cycle[d].pc = "writeRemote" /\ Goto(d, [cycle[d] EXCEPT !.pc = "upload"])
      BY <1>2, <2>3 DEF WriteLocal, WriteRemote, Jump, Goto, At
    <3>3. CASE cycle[d].pc = "writeLocal" /\ Goto(d, [cycle[d] EXCEPT !.pc = "persist"])
      <4>1. /\ cycle'[d] = [cycle[d] EXCEPT !.pc = "persist"]
            /\ \A e \in Device : e # d => cycle'[e] = cycle[e]
        BY <1>1, <3>3, Moved
      <4>2. Paired(d)'
        BY <1>1, <2>1, <3>1, <3>3, <4>1
        DEF Paired, Guarded, Compared, Placed, Unwritten, Reading, Writing, Cycle
      <4>3. QED
        BY <2>1, <3>1, <4>1, <4>2, PairStep
    <3>4. CASE cycle[d].pc = "writeRemote" /\ Goto(d, [cycle[d] EXCEPT !.pc = "upload"])
      <4>1. /\ cycle'[d] = [cycle[d] EXCEPT !.pc = "upload"]
            /\ \A e \in Device : e # d => cycle'[e] = cycle[e]
        BY <1>1, <3>4, Moved
      <4>2. Paired(d)'
        BY <1>1, <2>1, <3>1, <3>4, <4>1
        DEF Paired, Guarded, Compared, Placed, Unwritten, Reading, Writing, Cycle
      <4>3. QED
        BY <2>1, <3>1, <4>1, <4>2, PairStep
    <3>5. QED
      BY <3>2, <3>3, <3>4
  <2>4. QED
    BY <2>2, <2>3
<1>3. CASE Persist(d)
  <2>1. UNCHANGED <<remote, fast>> /\ cycle[d].pc = "persist"
    BY <1>3 DEF Persist, At
  <2> DEFINE c == [cycle[d] EXCEPT !.pc = AfterPersist(cycle[d].write),
                                   !.matchesDisk = FALSE, !.wroteLocal = TRUE]
  <2>2. LocalAbort(d) \/ (Goto(d, c) /\ UNCHANGED holder)
    BY <1>3 DEF Persist
  <2>3. CASE LocalAbort(d)
    BY <2>1, <2>3, PairStop DEF Writing
  <2>4. CASE Goto(d, c) /\ UNCHANGED holder
    <3>1. \/ cycle[d].write = "pending" /\ c.pc = "writeRemote"
          \/ cycle[d].write = "retry" /\ c.pc = "error"
          \/ cycle[d].write = "clear" /\ c.pc = "finish"
      BY <1>1 DEF Cycle, AfterPersist
    <3>2. /\ c.lease = cycle[d].lease /\ c.write = cycle[d].write /\ c.wrote = cycle[d].wrote
          /\ c.merged = cycle[d].merged /\ c.compare = cycle[d].compare /\ c.held = cycle[d].held
      BY <1>1 DEF Cycle
    <3> HIDE DEF c
    <3>3. cycle'[d] = c /\ \A e \in Device : e # d => cycle'[e] = cycle[e]
      BY <1>1, <2>4, Moved
    <3>4. Paired(d)'
      BY <1>1, <2>1, <2>4, <3>1, <3>2, <3>3
      DEF Paired, Guarded, Compared, Placed, Unwritten, Reading, Writing
    <3>5. QED
      BY <2>1, <2>4, <3>3, <3>4, PairStep
  <2>5. QED
    BY <2>2, <2>3, <2>4
<1>4. CASE AbortClear(d) \/ LeaseLost(d) \/ LeaseUnconfirmed(d) \/ ReadFails(d)
  BY <1>4, PairStop DEF AbortClear, LeaseLost, LeaseUnconfirmed, ReadFails, data, rest
<1>5. CASE UploadConflict(d)
  BY <1>5, PairStop DEF UploadConflict, At, Writing, data, rest
<1>6. CASE UploadSkipped(d) \/ Upload(d) \/ UploadLeaseLost(d) \/ UploadFails(d)
  <2>1. cycle[d].pc = "upload" /\ UNCHANGED <<holder, fast>>
    BY <1>6 DEF UploadSkipped, Upload, UploadLeaseLost, UploadFails, RetryLater, At, data, rest
  <2>2. /\ holder = d /\ cycle[d].lease /\ cycle[d].write = "pending" /\ cycle[d].wrote = 0
        /\ cycle[d].compare \subseteq {remote.item}
    BY <1>1, <2>1 DEF Paired, Guarded, Compared, Unwritten, Writing
  <2>3. CASE UploadSkipped(d)
    <3>1. Goto(d, Uploaded(cycle[d])) /\ UNCHANGED remote /\ cycle[d].merged = remote.item
      BY <2>2, <2>3 DEF UploadSkipped, rest
    <3>2. cycle'[d] = Uploaded(cycle[d]) /\ \A e \in Device : e # d => cycle'[e] = cycle[e]
      BY <1>1, <3>1, Moved
    <3>3. /\ cycle'[d].lease /\ cycle'[d].merged = remote'.item /\ cycle'[d].wrote = 0
          /\ \/ cycle'[d].pc = "finish"
             \/ cycle'[d].pc = "writeLocal" /\ cycle'[d].write = "clear"
      BY <1>1, <2>2, <3>1, <3>2, UploadedFields
    <3>4. Paired(d)'
      BY <2>1, <2>2, <3>3 DEF Paired, Guarded, Compared, Placed, Unwritten, Reading, Writing
    <3>5. QED
      BY <2>1, <3>1, <3>2, <3>4, PairStep
  <2>4. CASE Upload(d)
    <3> DEFINE c == [Uploaded(cycle[d]) EXCEPT !.wrote = remote'.version,
                                               !.serverMerged = remote'.item # cycle[d].merged]
    <3>1. Put(d) /\ Goto(d, c)
      BY <2>4 DEF Upload
    <3>2. /\ c.lease /\ c.merged = cycle[d].merged /\ c.wrote = remote'.version
          /\ c.pc = "finish" \/ (c.pc = "writeLocal" /\ c.write = "clear")
      BY <1>1, <2>2, UploadedFields DEF Cycle
    <3> HIDE DEF c
    <3>3. cycle'[d] = c /\ \A e \in Device : e # d => cycle'[e] = cycle[e]
      BY <1>1, <3>1, Moved
    <3>4. cycle[d].merged = remote'.item
      BY <3>1 DEF Put
    <3>5. Paired(d)'
      BY <2>1, <2>2, <3>2, <3>3, <3>4
      DEF Paired, Guarded, Compared, Placed, Unwritten, Reading, Writing
    <3>6. QED
      BY <2>1, <2>2, <3>1, <3>3, <3>5, PairPut
  <2>5. CASE UploadLeaseLost(d) \/ UploadFails(d)
    <3>1. /\ Goto(d, [cycle[d] EXCEPT !.pc = "writeLocal", !.write = "retry"])
          /\ UNCHANGED remote \/ Put(d)
      BY <2>5 DEF UploadLeaseLost, UploadFails, RetryLater
    <3>2. /\ cycle'[d] = [cycle[d] EXCEPT !.pc = "writeLocal", !.write = "retry"]
          /\ \A e \in Device : e # d => cycle'[e] = cycle[e]
      BY <1>1, <3>1, Moved
    <3>3. cycle'[d].pc = "writeLocal" /\ cycle'[d].write = "retry" /\ cycle'[d].lease
      BY <1>1, <2>2, <3>2 DEF Cycle
    <3>4. Paired(d)'
      BY <2>1, <2>2, <3>3 DEF Paired, Guarded, Compared, Placed, Unwritten, Reading, Writing
    <3>5. QED
      BY <2>1, <2>2, <3>1, <3>2, <3>4, PairStep, PairPut
  <2>6. QED
    BY <1>6, <2>3, <2>4, <2>5
<1>7. QED
  BY <1>2, <1>3, <1>4, <1>5, <1>6 DEF Writes

LEMMA FinishesPair ==
    ASSUME TInv, PInv, NEW d \in Device, Finishes(d)
    PROVE  PInv'
<1>1. /\ TypedCycle /\ cycle[d] \in Cycle /\ Paired(d) /\ remote.version \in Nat
      /\ fast \in [Device -> FastPair]
  BY TypeParts DEF TypedCycle, TypedData, TypedRest, PInv, Run
<1>2. CASE FinishStale(d) \/ RefreshSkipped(d) \/ RefreshAtOnce(d) \/ Apply(d) \/ Reload(d)
  BY <1>2, PairStop DEF FinishStale, RefreshSkipped, RefreshAtOnce, Apply, TakeOver, Reload,
     data, rest
<1>3. CASE Refresh(d)
  <2>1. Goto(d, [cycle[d] EXCEPT !.pc = "apply"]) /\ UNCHANGED <<remote, fast, holder>>
        /\ cycle[d].pc = "refresh"
    BY <1>3 DEF Refresh, Jump, Goto, At, data, rest
  <2>2. /\ cycle'[d] = [cycle[d] EXCEPT !.pc = "apply"]
        /\ \A e \in Device : e # d => cycle'[e] = cycle[e]
    BY <1>1, <2>1, Moved
  <2>3. Paired(d)'
    BY <1>1, <2>1, <2>2
    DEF Paired, Guarded, Compared, Placed, Unwritten, Reading, Writing, Cycle
  <2>4. QED
    BY <2>1, <2>2, <2>3, PairStep
<1>4. CASE ReloadStart(d)
  <2>1. Goto(d, [cycle[d] EXCEPT !.pc = "reload", !.stale = FALSE])
        /\ UNCHANGED <<remote, fast, holder>> /\ cycle[d].pc = "error"
    BY <1>4 DEF ReloadStart, At, data, rest
  <2>2. /\ cycle'[d] = [cycle[d] EXCEPT !.pc = "reload", !.stale = FALSE]
        /\ \A e \in Device : e # d => cycle'[e] = cycle[e]
    BY <1>1, <2>1, Moved
  <2>3. Paired(d)'
    BY <1>1, <2>1, <2>2
    DEF Paired, Guarded, Compared, Placed, Unwritten, Reading, Writing, Cycle
  <2>4. QED
    BY <2>1, <2>2, <2>3, PairStep
<1>5. CASE RecordFast(d)
  <2>1. Goto(d, [cycle[d] EXCEPT !.pc = "refresh"]) /\ UNCHANGED <<remote, holder>>
        /\ cycle[d].pc = "finish"
    BY <1>5 DEF RecordFast, Jump, Goto, At
  <2>2. /\ cycle'[d] = [cycle[d] EXCEPT !.pc = "refresh"]
        /\ \A e \in Device : e # d => cycle'[e] = cycle[e]
    BY <1>1, <2>1, Moved
  <2>3. Paired(d)'
    BY <1>1, <2>1, <2>2
    DEF Paired, Guarded, Compared, Placed, Unwritten, Reading, Writing, Cycle
  <2>4. ASSUME NEW e \in Device, e # d PROVE Paired(e)'
    <3>1. Paired(e) /\ cycle'[e] = cycle[e]
      BY <2>2, <2>4 DEF PInv
    <3>2. QED
      BY <2>1, <3>1 DEF Paired, Guarded, Compared, Placed, Unwritten
  <2>5. cycle[d].merged = remote.item /\ cycle[d].wrote \in {0, remote.version}
    BY <1>1, <2>1 DEF Paired, Placed
  <2> DEFINE v == IF cycle[d].wrote > 0 THEN cycle[d].wrote ELSE remote.version
  <2>6. v = remote.version
    BY <1>1, <2>5
  <2>7. fast' = fast \/ fast' = [fast EXCEPT ![d] = [local |-> {cycle[d].merged}, remote |-> v]]
    BY <1>5 DEF RecordFast
  <2> HIDE DEF v
  <2>8. fast' = fast \/ fast' = [fast EXCEPT ![d] = [local |-> {remote.item}, remote |-> remote.version]]
    BY <2>5, <2>6, <2>7
  <2>9. PairsPast' /\ FastPairSound'
    BY <1>1, <2>1, <2>8 DEF PInv, PairsPast, FastPairSound
  <2>10. QED
    BY <2>3, <2>4, <2>9 DEF PInv
<1>6. QED
  BY <1>2, <1>3, <1>4, <1>5 DEF Finishes

LEMMA OthersPair ==
    ASSUME TInv, PInv, NoLapse, NoLapse',
           \/ \E d \in Device : Edit(d) \/ Delete(d) \/ Flush(d) \/ Crash(d) \/ BackoffEnds(d)
           \/ LeaseExpires \/ LeaseLapses \/ Tick \/ UNCHANGED vars
    PROVE  PInv'
<1>1. TypedCycle /\ TypedData /\ TypedRest /\ TypedHolder
  BY TypeParts
<1>2. CASE (\E d \in Device : Flush(d)) \/ Tick \/ UNCHANGED vars
  <2>1. UNCHANGED <<cycle, holder, remote, fast>>
    BY <1>2 DEF Flush, Tick, vars, data, rest
  <2>2. QED
    BY <2>1 DEF PInv, Paired, Guarded, Compared, Placed, Unwritten, PairsPast, FastPairSound
<1>3. ASSUME NEW d \in Device, Edit(d) \/ Delete(d) \/ BackoffEnds(d) PROVE PInv'
  <2>1. UNCHANGED <<remote, fast, holder>> /\ cycle[d] \in Cycle /\ Paired(d)
    BY <1>1, <1>3 DEF Edit, Delete, Change, BackoffEnds, TypedCycle, Run, PInv
  <2>2. PICK c : /\ Goto(d, c)
                 /\ \/ c = [cycle[d] EXCEPT !.stale = cycle[d].pc # "idle"]
                    \/ c = [cycle[d] EXCEPT !.pending.retry = FALSE]
    BY <1>3 DEF Edit, Delete, Change, BackoffEnds, Goto
  <2>3. cycle'[d] = c /\ \A e \in Device : e # d => cycle'[e] = cycle[e]
    BY <1>1, <2>2, Moved
  <2>4. /\ c.pc = cycle[d].pc /\ c.lease = cycle[d].lease /\ c.write = cycle[d].write
        /\ c.wrote = cycle[d].wrote /\ c.merged = cycle[d].merged
        /\ c.compare = cycle[d].compare /\ c.held = cycle[d].held
    BY <2>1, <2>2 DEF Cycle
  <2>5. Paired(d)'
    BY <2>1, <2>3, <2>4 DEF Paired, Guarded, Compared, Placed, Unwritten
  <2>6. QED
    BY <2>1, <2>3, <2>5, PairStep
<1>4. ASSUME NEW d \in Device, Crash(d) PROVE PInv'
  <2>1. Goto(d, Idle) /\ UNCHANGED <<remote, fast, holder>>
    BY <1>4 DEF Crash
  <2>2. cycle'[d] = Idle /\ \A e \in Device : e # d => cycle'[e] = cycle[e]
    BY <1>1, <2>1, Moved
  <2>3. Paired(d)'
    BY <2>2 DEF Paired, Guarded, Compared, Placed, Unwritten, Idle, Reading, Writing
  <2>4. QED
    BY <2>1, <2>2, <2>3, PairStep
<1>5. CASE LeaseExpires
  <2>1. UNCHANGED <<cycle, remote, fast>> /\ ~cycle[holder].lease
    BY <1>5 DEF LeaseExpires, Abandoned
  <2>2. ASSUME NEW d \in Device PROVE Paired(d)'
    <3>1. Paired(d) /\ ~cycle[d].lease
      BY <2>1 DEF PInv, Paired, Guarded
    <3>2. QED
      BY <2>1, <3>1 DEF Paired, Guarded, Compared, Placed, Unwritten
  <2>3. PairsPast' /\ FastPairSound'
    BY <2>1 DEF PInv, PairsPast, FastPairSound
  <2>4. QED
    BY <2>2, <2>3 DEF PInv
<1>6. CASE LeaseLapses
  <2>1. budget.lapses \in Nat /\ budget'.lapses = budget.lapses - 1
    BY <1>1, <1>6 DEF LeaseLapses, TypedRest
  <2>2. QED
    BY <2>1, CycleAssumption DEF NoLapse
<1>7. QED
  BY <1>2, <1>3, <1>4, <1>5, <1>6

\* A backend with a fence: as long as no lease is lost by a run that still uses
\* it, the pair that RecordFast saves is right whenever FastSkip and
\* ArmLocalOnlyUpload believe it, whatever fails, crashes or is edited.
THEOREM PairsAreSound ==
    ASSUME Fenced
    PROVE  Spec /\ []NoLapse => []FastPairSound
<1>1. Init => PInv
  <2> SUFFICES ASSUME Init PROVE PInv
    OBVIOUS
  <2>1. /\ \A d \in Device : cycle[d] = Idle /\ fast[d] = [local |-> {}, remote |-> 0]
        /\ remote.version = 1
    BY DEF Init
  <2>2. \A d \in Device : Paired(d)
    BY <2>1 DEF Paired, Guarded, Compared, Placed, Unwritten, Idle, Reading, Writing
  <2>3. PairsPast /\ FastPairSound
    BY <2>1 DEF PairsPast, FastPairSound
  <2>4. QED
    BY <2>2, <2>3 DEF PInv
<1>2. ASSUME TInv, PInv, NoLapse, NoLapse', [Next]_vars PROVE PInv'
  BY <1>2, ReadsPair, MergesPair, WritesPair, FinishesPair, OthersPair DEF Next, Runs
<1>3. TInv /\ PInv /\ NoLapse /\ NoLapse' /\ [Next]_vars => PInv'
  BY <1>2
<1>4. Init => TInv
  BY InitTyped
<1>5. TInv /\ [Next]_vars => TInv'
  BY NextTyped
<1>6. PInv => FastPairSound
  BY DEF PInv
<1>7. QED
  BY <1>1, <1>3, <1>4, <1>5, <1>6, PTL DEF Spec

-----------------------------------------------------------------------------
(* The local writes *)

\* A step of d, which changes nothing that the other devices have.
LEMMA LiveStep ==
    ASSUME MInv, NEW d \in Device, ~remote'.item.deleted, AllLive(d)', Ahead(d)',
           \A e \in Device : e # d => /\ cycle'[e] = cycle[e]
                                      /\ memory'[e] = memory[e] /\ disk'[e] = disk[e]
    PROVE  MInv'
<1>1. ASSUME NEW e \in Device, e # d PROVE AllLive(e)' /\ Ahead(e)'
  BY <1>1 DEF MInv, AllLive, Ahead, Latest
<1>2. QED
  BY <1>1 DEF MInv

\* A run that moves on, writing nothing.
LEMMA QuietStep ==
    ASSUME TInv, MInv, NEW d \in Device, NEW c, Goto(d, c), UNCHANGED <<memory, disk, remote>>,
           ~c.snapshot.deleted, ~c.merged.deleted, \A e \in c.held : ~e.deleted,
           ~c.stale =>
              /\ c.pc = "readLocal" => c.snapshot = memory[d].item
              /\ c.pc \in {"check", "merge", "pending", "retryRead", "readRemote"}
                    => Latest(d, c.snapshot)
              /\ c.pc \in {"writeLocal", "persist", "writeRemote", "upload"}
                    => Latest(d, c.merged)
    PROVE  MInv'
<1>1. cycle'[d] = c /\ \A e \in Device : e # d => cycle'[e] = cycle[e]
  BY TypeParts, Moved
<1>2. AllLive(d)' /\ Ahead(d)'
  BY <1>1 DEF MInv, AllLive, Ahead, Latest
<1>3. QED
  BY <1>1, <1>2, LiveStep DEF MInv

\* A step that keeps both documents of the run and the order of its revisions.
LEMMA SameDocuments ==
    ASSUME TInv, MInv, NEW d \in Device, NEW c, Goto(d, c), UNCHANGED <<memory, disk, remote>>,
           c.snapshot = cycle[d].snapshot, c.merged = cycle[d].merged, c.held = cycle[d].held,
           ~c.stale =>
              \/ c.pc \notin {"readLocal", "check", "merge", "pending", "retryRead", "readRemote",
                              "writeLocal", "persist", "writeRemote", "upload"}
              \/ /\ ~cycle[d].stale
                 /\ c.pc \in {"check", "merge", "pending", "retryRead", "readRemote"}
                 /\ cycle[d].pc \in {"check", "merge", "pending", "retryRead", "readRemote"}
              \/ /\ ~cycle[d].stale
                 /\ c.pc \in {"writeLocal", "persist", "writeRemote", "upload"}
                 /\ cycle[d].pc \in {"writeLocal", "persist", "writeRemote", "upload"}
    PROVE  MInv'
<1>1. AllLive(d) /\ Ahead(d)
  BY DEF MInv
<1>2. QED
  BY <1>1, QuietStep DEF AllLive, Ahead

\* A run that stops, having left its copies live.
LEMMA LiveStop ==
    ASSUME TInv, MInv, NEW d \in Device,
           End(d) \/ Fail(d) \/ LocalAbort(d) \/ RemoteAbort(d),
           UNCHANGED remote, ~memory'[d].item.deleted, ~disk'[d].item.deleted,
           \A e \in Device : e # d => memory'[e] = memory[e] /\ disk'[e] = disk[e]
    PROVE  MInv'
<1>1. TypedCycle /\ TypedHolder /\ cycle[d] \in Cycle /\ AllLive(d)
  BY TypeParts DEF TypedCycle, Run, MInv
<1>2. /\ \A e \in Device : e # d => cycle'[e] = cycle[e]
      /\ \/ cycle'[d] = Idle
         \/ cycle'[d] = [cycle[d] EXCEPT !.pc = "error"]
         \/ cycle'[d] = [cycle[d] EXCEPT !.pc = "abortClear"]
  BY <1>1, EndTyped, FailTyped, AbortTyped DEF Stops
<1>3. /\ cycle'[d].pc \in {"idle", "error", "abortClear"}
      /\ cycle'[d].snapshot \in {Created, cycle[d].snapshot}
      /\ cycle'[d].merged \in {Created, cycle[d].merged}
      /\ cycle'[d].held \in {{}, cycle[d].held}
  BY <1>1, <1>2 DEF Idle, Cycle
<1>4. AllLive(d)'
  BY <1>1, <1>3, StartTypes DEF AllLive
<1>5. Ahead(d)'
  BY <1>3 DEF Ahead
<1>6. QED
  BY <1>2, <1>4, <1>5, LiveStep DEF MInv

LEMMA ReadsLive ==
    ASSUME TInv, MInv, NEW d \in Device,
           Start(d) \/ StampLocal(d) \/ ReadLocal(d) \/ Checks(d)
    PROVE  MInv'
<1>1. /\ cycle[d] \in Run /\ cycle[d] \in Cycle /\ AllLive(d) /\ Ahead(d)
      /\ memory[d].item \in Entity /\ disk[d].item \in Entity
      /\ cycle[d].snapshot \in Entity /\ ~remote.item.deleted
  BY TypeParts DEF TypedCycle, TypedData, Document, MInv, Run, Cycle
<1>2. UNCHANGED <<memory, disk, remote>>
  BY DEF Start, StampLocal, ReadLocal, Checks, CheckStale, CheckSideEffects, FastSkip,
     ArmLocalOnlyUpload, ReadCheck, data, rest
<1>3. CASE Start(d)
  <2>1. cycle[d] = Idle /\ Goto(d, [Idle EXCEPT !.pc = "setup"])
    BY <1>1, <1>3 DEF Start, At, Run
  <2>2. QED
    BY <1>2, <2>1, SameDocuments DEF Idle
<1>4. CASE StampLocal(d)
  <2> DEFINE c == [cycle[d] EXCEPT !.pc = "readLocal", !.stale = FALSE,
                                   !.snapshot = memory[d].item]
  <2>1. Goto(d, c)
    BY <1>4 DEF StampLocal
  <2>2. /\ c.pc = "readLocal" /\ c.snapshot = memory[d].item
        /\ c.merged = cycle[d].merged /\ c.held = cycle[d].held
    BY <1>1 DEF Cycle
  <2> HIDE DEF c
  <2>3. QED
    BY <1>1, <1>2, <2>1, <2>2, QuietStep DEF AllLive
<1>5. CASE ReadLocal(d)
  <2> DEFINE aligned == disk[d].item = cycle[d].snapshot
             s == IF aligned THEN cycle[d].snapshot
                  ELSE Winner(disk[d].item, cycle[d].snapshot, clock)
             p == IF cycle[d].marked THEN NoPending ELSE disk[d].pending
             c == [cycle[d] EXCEPT !.pc = cycle[d].next, !.snapshot = s,
                                   !.matchesDisk = aligned, !.pending = p]
  <2>1. Goto(d, c) /\ cycle[d].pc = "readLocal"
    BY <1>5 DEF ReadLocal, At
  <2>2. /\ s \in Entity /\ ~s.deleted /\ disk[d].item.rev <= s.rev
        /\ cycle[d].snapshot.rev <= s.rev
    <3>1. /\ disk[d].item.rev \in Nat /\ cycle[d].snapshot.rev \in Nat
          /\ ~disk[d].item.deleted /\ ~cycle[d].snapshot.deleted
      BY <1>1 DEF AllLive, Entity
    <3>2. CASE aligned
      BY <1>1, <3>1, <3>2
    <3>3. CASE ~aligned
      BY <1>1, <3>1, <3>3, WinnerIsLatest
    <3>4. QED
      BY <3>2, <3>3
  <2> HIDE DEF s, p, aligned
  <2>3. /\ c.pc \in {"check", "pending", "readRemote"} /\ c.snapshot = s
        /\ c.merged = cycle[d].merged /\ c.held = cycle[d].held /\ c.stale = cycle[d].stale
    BY <1>1 DEF Run, Cycle
  <2>4. ~cycle[d].stale => Latest(d, s)
    BY <1>1, <2>1, <2>2 DEF Ahead, Latest
  <2> HIDE DEF c
  <2>5. QED
    BY <1>1, <1>2, <2>1, <2>2, <2>3, <2>4, QuietStep DEF AllLive
<1>6. CASE CheckStale(d) \/ FastSkip(d) \/ (ReadCheck(d) /\ End(d))
  BY <1>1, <1>2, <1>6, LiveStop DEF CheckStale, FastSkip, AllLive
<1>7. CASE CheckSideEffects(d) \/ ArmLocalOnlyUpload(d)
  <2>1. /\ cycle[d].pc = "check" /\ ~cycle[d].stale
        /\ \/ Goto(d, [cycle[d] EXCEPT !.pc = "merge"])
           \/ Goto(d, [cycle[d] EXCEPT !.pc = "merge", !.armed = TRUE, !.seen = remote.version])
    BY <1>7 DEF CheckSideEffects, ArmLocalOnlyUpload, Jump, Goto, At
  <2>2. QED
    BY <1>1, <1>2, <2>1, SameDocuments DEF Cycle
<1>8. CASE ReadCheck(d) /\ ~End(d)
  <2> DEFINE c == [cycle[d] EXCEPT !.pc = "merge", !.held = {remote.item}]
  <2>1. cycle[d].pc = "check" /\ ~cycle[d].stale /\ Goto(d, c)
    BY <1>8 DEF ReadCheck, At
  <2>2. /\ c.pc = "merge" /\ c.snapshot = cycle[d].snapshot /\ c.merged = cycle[d].merged
        /\ c.held = {remote.item}
    BY <1>1 DEF Cycle
  <2> HIDE DEF c
  <2>3. QED
    BY <1>1, <1>2, <2>1, <2>2, QuietStep DEF AllLive, Ahead
<1>9. QED
  BY <1>3, <1>4, <1>5, <1>6, <1>7, <1>8 DEF Checks

LEMMA MergesLive ==
    ASSUME TInv, MInv, NEW d \in Device, Merges(d)
    PROVE  MInv'
<1>1. /\ cycle[d] \in Cycle /\ AllLive(d) /\ Ahead(d) /\ ~remote.item.deleted
      /\ memory[d].item.rev \in Nat /\ disk[d].item.rev \in Nat /\ remote.item \in Entity
      /\ cycle[d].snapshot \in Entity /\ cycle[d].held \subseteq Entity
  BY TypeParts DEF TypedCycle, TypedData, TypedRest, Document, Entity, MInv, Run, Cycle
<1>2. UNCHANGED <<memory, disk, remote>>
  BY DEF Merges, MergeReadLocal, NothingPending, PendingBackoff, RetryPending,
     AcquireFence, FenceBusy, ReadRemote, data, rest
<1>3. CASE PendingBackoff(d) \/ FenceBusy(d)
  BY <1>1, <1>2, <1>3, LiveStop DEF PendingBackoff, FenceBusy, AllLive
<1>4. CASE MergeReadLocal(d)
  <2> DEFINE target == IF At(d, "merge") THEN "pending" ELSE "readRemote"
  <2>1. /\ cycle[d].pc \in {"merge", "retryRead"}
        /\ \/ Goto(d, [cycle[d] EXCEPT !.pc = "setup", !.next = target])
           \/ ~cycle[d].stale /\ Goto(d, [cycle[d] EXCEPT !.pc = target])
    BY <1>4 DEF MergeReadLocal, Jump, Goto, At
  <2>2. target \in {"pending", "readRemote"}
    OBVIOUS
  <2> HIDE DEF target
  <2>3. QED
    BY <1>1, <1>2, <2>1, <2>2, SameDocuments DEF Cycle
<1>5. CASE NothingPending(d) \/ RetryPending(d)
  <2>1. /\ cycle[d].pc = "pending"
        /\ \/ Goto(d, [cycle[d] EXCEPT !.pc = "readRemote"])
           \/ Goto(d, [cycle[d] EXCEPT !.pc = "retryRead", !.marked = TRUE, !.pending = NoPending])
    BY <1>5 DEF NothingPending, RetryPending, Jump, Goto, At
  <2>2. QED
    BY <1>1, <1>2, <2>1, SameDocuments DEF Cycle
<1>6. CASE AcquireFence(d)
  <2> DEFINE c == [cycle[d] EXCEPT !.lease = TRUE, !.held = {}]
  <2>1. cycle[d].pc = "readRemote" /\ Goto(d, c)
    BY <1>6 DEF AcquireFence, At
  <2>2. /\ c.pc = cycle[d].pc /\ c.snapshot = cycle[d].snapshot /\ c.merged = cycle[d].merged
        /\ c.held = {} /\ c.stale = cycle[d].stale
    BY <1>1 DEF Cycle
  <2> HIDE DEF c
  <2>3. QED
    BY <1>1, <1>2, <2>1, <2>2, QuietStep DEF AllLive, Ahead
<1>7. CASE ReadRemote(d)
  <2> DEFINE read == IF cycle[d].held # {} THEN cycle[d].held ELSE {remote.item}
             merged == Merged(cycle[d], read)
             direct == ~cycle[d].marked /\ cycle[d].matchesDisk /\ merged = cycle[d].snapshot
             pc == IF direct THEN "writeRemote" ELSE "writeLocal"
             compare == IF cycle[d].armed THEN {} ELSE read
             seen == IF cycle[d].armed THEN cycle[d].seen ELSE remote.version
             c == [cycle[d] EXCEPT !.pc = pc, !.held = {}, !.compare = compare,
                                   !.seen = seen, !.merged = merged, !.direct = direct]
  <2>1. Goto(d, c) /\ cycle[d].pc = "readRemote"
    BY <1>7 DEF ReadRemote, At
  <2>2. read # {} /\ read \subseteq Entity /\ \A e \in read : ~e.deleted
    BY <1>1 DEF AllLive
  <2>3. merged \in Entity /\ ~merged.deleted /\ cycle[d].snapshot.rev <= merged.rev
    <3>1. ~cycle[d].snapshot.deleted /\ cycle[d].snapshot.rev \in Nat
      BY <1>1 DEF AllLive, Entity
    <3> DEFINE r == CHOOSE e \in read : TRUE
    <3>2. r \in Entity /\ ~r.deleted
      BY <2>2
    <3> HIDE DEF r
    <3>3. merged = cycle[d].snapshot \/ merged = Winner(cycle[d].snapshot, r, clock)
      BY DEF Merged, r
    <3>4. QED
      BY <1>1, <3>1, <3>2, <3>3, WinnerIsLatest
  <2>4. pc \in {"writeRemote", "writeLocal"}
    OBVIOUS
  <2> HIDE DEF read, merged, direct, pc, compare, seen
  <2>5. /\ c.pc = pc /\ c.snapshot = cycle[d].snapshot /\ c.merged = merged
        /\ c.held = {} /\ c.stale = cycle[d].stale
    BY <1>1 DEF Cycle
  <2>6. ~cycle[d].stale => Latest(d, merged)
    <3>1. cycle[d].snapshot.rev \in Nat /\ merged.rev \in Nat
      BY <1>1, <2>3 DEF Entity
    <3>2. QED
      BY <1>1, <2>1, <2>3, <3>1 DEF Ahead, Latest
  <2> HIDE DEF c
  <2>7. QED
    BY <1>1, <1>2, <2>1, <2>3, <2>4, <2>5, <2>6, QuietStep DEF AllLive
<1>8. QED
  BY <1>3, <1>4, <1>5, <1>6, <1>7 DEF Merges

\* The upsert keeps one of the two rows, the new one unless it is older.
LEMMA UpsertKeeps ==
    ASSUME NEW a \in Entity, NEW b \in Entity
    PROVE  /\ Upsert(a, b) \in {a, b}
           /\ a.rev <= b.rev => Upsert(a, b) = b
BY DEF Upsert, Entity

\* What is stored for d, and that the others keep theirs.
LEMMA Stored ==
    ASSUME TInv, NEW d \in Device, NEW item \in Entity, NEW pending, Store(d, item, pending)
    PROVE  /\ disk'[d].item = Upsert(disk[d].item, item)
           /\ disk'[d].item \in {disk[d].item, item}
           /\ \A e \in Device : e # d => disk'[e] = disk[e]
<1>1. disk \in [Device -> Document] /\ disk[d].item \in Entity
  BY TypeParts DEF TypedData, Document
<1>2. disk'[d].item = Upsert(disk[d].item, item) /\ \A e \in Device : e # d => disk'[e] = disk[e]
  BY <1>1 DEF Store
<1>3. QED
  BY <1>1, <1>2, UpsertKeeps

\* At persist, only the write itself or a lost lease is next in the run.
LEMMA AtPersist ==
    ASSUME NEW d \in Device, At(d, "persist"), Runs(d)
    PROVE  Persist(d) \/ LeaseLost(d)
BY DEF At, Runs, Start, StampLocal, ReadLocal, Checks, CheckStale, CheckSideEffects, FastSkip,
   ArmLocalOnlyUpload, ReadCheck, Merges, MergeReadLocal, NothingPending, PendingBackoff,
   RetryPending, AcquireFence, FenceBusy, ReadRemote, Writes, WriteLocal, AbortClear,
   WriteRemote, UploadSkipped, Upload, UploadConflict, UploadLeaseLost, Finishes, RecordFast,
   FinishStale, RefreshSkipped, Refresh, RefreshAtOnce, Apply, ReloadStart, Reload

\* A fresh run stores the merged document itself.
LEMMA PersistStores ==
    ASSUME TInv, MInv, NEW d \in Device, Persist(d)
    PROVE  /\ disk'[d].item \in {disk[d].item, cycle[d].merged}
           /\ ~cycle[d].stale => disk'[d].item = cycle[d].merged
           /\ \A e \in Device : e # d => disk'[e] = disk[e]
<1>1. /\ disk[d].item \in Entity /\ cycle[d].merged \in Entity /\ Ahead(d)
      /\ cycle[d].pc = "persist"
  BY TypeParts DEF TypedCycle, TypedData, Document, MInv, Run, Cycle, Persist, At
<1>2. /\ disk'[d].item = Upsert(disk[d].item, cycle[d].merged)
      /\ disk'[d].item \in {disk[d].item, cycle[d].merged}
      /\ \A e \in Device : e # d => disk'[e] = disk[e]
  BY <1>1, Stored DEF Persist
<1>3. ~cycle[d].stale => disk[d].item.rev <= cycle[d].merged.rev
  BY <1>1 DEF Ahead, Latest
<1>4. QED
  BY <1>1, <1>2, <1>3, UpsertKeeps

LEMMA WritesLive ==
    ASSUME TInv, MInv, NEW d \in Device,
           Writes(d) \/ LeaseUnconfirmed(d) \/ ReadFails(d) \/ UploadFails(d)
    PROVE  MInv'
<1>1. /\ TypedCycle /\ cycle[d] \in Cycle /\ AllLive(d) /\ Ahead(d) /\ ~remote.item.deleted
      /\ memory[d].item \in Entity /\ disk[d].item \in Entity /\ remote.item \in Entity
      /\ cycle[d].merged \in Entity
  BY TypeParts DEF TypedCycle, TypedData, TypedRest, Document, MInv, Run, Cycle
<1>2. CASE WriteLocal(d) \/ WriteRemote(d)
  <2>1. UNCHANGED <<memory, disk, remote>> /\ cycle[d].pc \in {"writeLocal", "writeRemote"}
    BY <1>2 DEF WriteLocal, WriteRemote, At, data, rest
  <2>2. CASE LocalAbort(d) \/ RemoteAbort(d)
    BY <1>1, <2>1, <2>2, LiveStop DEF AllLive
  <2>3. CASE ~(LocalAbort(d) \/ RemoteAbort(d))
    <3>1. \/ Goto(d, [cycle[d] EXCEPT !.pc = "persist"])
          \/ Goto(d, [cycle[d] EXCEPT !.pc = "upload"])
      BY <1>2, <2>3 DEF WriteLocal, WriteRemote, Jump, Goto
    <3>2. QED
      BY <1>1, <2>1, <3>1, SameDocuments DEF Cycle
  <2>4. QED
    BY <2>2, <2>3
<1>3. CASE Persist(d)
  <2>1. UNCHANGED <<memory, remote>> /\ cycle[d].pc = "persist"
    BY <1>3 DEF Persist, At
  <2>2. /\ disk'[d].item \in {disk[d].item, cycle[d].merged}
        /\ ~cycle[d].stale => disk'[d].item = cycle[d].merged
        /\ \A e \in Device : e # d => disk'[e] = disk[e]
    BY <1>3, PersistStores
  <2> DEFINE c == [cycle[d] EXCEPT !.pc = AfterPersist(cycle[d].write),
                                   !.matchesDisk = FALSE, !.wroteLocal = TRUE]
  <2>3. LocalAbort(d) \/ (Goto(d, c) /\ ~cycle[d].stale)
    BY <1>3 DEF Persist
  <2>4. CASE LocalAbort(d)
    BY <1>1, <2>1, <2>2, <2>4, LiveStop DEF AllLive
  <2>5. CASE Goto(d, c) /\ ~cycle[d].stale
    <3>1. /\ c.pc \in {"writeRemote", "error", "finish"} /\ c.snapshot = cycle[d].snapshot
          /\ c.merged = cycle[d].merged /\ c.held = cycle[d].held
      BY <1>1, MarkersTyped DEF Cycle
    <3> HIDE DEF c
    <3>2. cycle'[d] = c /\ \A e \in Device : e # d => cycle'[e] = cycle[e]
      BY <1>1, <2>5, Moved
    <3>3. AllLive(d)'
      BY <1>1, <2>1, <2>2, <3>1, <3>2 DEF AllLive
    <3>4. cycle[d].merged.rev \in Nat /\ memory[d].item.rev <= cycle[d].merged.rev
      BY <1>1, <2>1, <2>5 DEF Ahead, Latest, Entity
    <3>5. Latest(d, cycle[d].merged)'
      BY <2>1, <2>2, <2>5, <3>1, <3>2, <3>4 DEF Latest
    <3>6. Ahead(d)'
      BY <3>1, <3>2, <3>5 DEF Ahead
    <3>7. QED
      BY <1>1, <2>1, <2>2, <3>2, <3>3, <3>6, LiveStep
  <2>6. QED
    BY <2>3, <2>4, <2>5
<1>4. CASE AbortClear(d)
  <2>1. UNCHANGED disk \/ Store(d, memory[d].item, NoPending)
    BY <1>4 DEF AbortClear
  <2>2. /\ disk'[d].item \in {disk[d].item, memory[d].item}
        /\ \A e \in Device : e # d => disk'[e] = disk[e]
    BY <1>1, <2>1, Stored
  <2>3. UNCHANGED <<memory, remote>> /\ End(d)
    BY <1>4 DEF AbortClear
  <2>4. QED
    BY <1>1, <2>2, <2>3, LiveStop DEF AllLive
<1>5. CASE LeaseLost(d) \/ LeaseUnconfirmed(d) \/ ReadFails(d) \/ UploadConflict(d)
  <2>1. UNCHANGED <<memory, disk, remote>> /\ (Fail(d) \/ RemoteAbort(d))
    BY <1>5 DEF LeaseLost, LeaseUnconfirmed, ReadFails, UploadConflict, data, rest
  <2>2. QED
    BY <1>1, <2>1, LiveStop DEF AllLive
<1>6. CASE UploadSkipped(d) \/ Upload(d) \/ UploadLeaseLost(d) \/ UploadFails(d)
  <2>1. /\ UNCHANGED remote \/ Put(d)
        /\ UNCHANGED <<memory, disk>> /\ cycle[d].pc = "upload"
    BY <1>6 DEF UploadSkipped, Upload, UploadLeaseLost, UploadFails, RetryLater, At, data, rest
  <2>2. ~remote'.item.deleted
    <3>1. ~cycle[d].merged.deleted
      BY <1>1 DEF AllLive
    <3>2. CASE Put(d)
      <4>1. /\ Winner(remote.item, cycle[d].merged, clock) \in {remote.item, cycle[d].merged}
        BY <1>1, WinnerIsCandidate
      <4>2. remote'.item \in {remote.item, cycle[d].merged}
        BY <3>2, <4>1 DEF Put
      <4>3. QED
        BY <1>1, <3>1, <4>2
    <3>3. QED
      BY <1>1, <2>1, <3>2
  <2>3. PICK c : /\ Goto(d, c)
                 /\ \/ c = Uploaded(cycle[d])
                    \/ c = [Uploaded(cycle[d]) EXCEPT !.wrote = remote'.version,
                                !.serverMerged = remote'.item # cycle[d].merged]
                    \/ c = [cycle[d] EXCEPT !.pc = "writeLocal", !.write = "retry"]
    BY <1>6 DEF UploadSkipped, Upload, UploadLeaseLost, UploadFails, RetryLater
  <2>4. /\ c.pc \in {"finish", "writeLocal"} /\ c.snapshot = cycle[d].snapshot
        /\ c.merged = cycle[d].merged /\ c.held = cycle[d].held /\ c.stale = cycle[d].stale
    BY <1>1, <2>3 DEF Cycle, Uploaded
  <2>5. cycle'[d] = c /\ \A e \in Device : e # d => cycle'[e] = cycle[e]
    BY <1>1, <2>3, Moved
  <2>6. AllLive(d)' /\ Ahead(d)'
    BY <1>1, <2>1, <2>4, <2>5 DEF AllLive, Ahead, Latest
  <2>7. QED
    BY <2>1, <2>2, <2>5, <2>6, LiveStep
<1>7. QED
  BY <1>2, <1>3, <1>4, <1>5, <1>6 DEF Writes

LEMMA FinishesLive ==
    ASSUME TInv, MInv, NEW d \in Device, Finishes(d)
    PROVE  MInv'
<1>1. /\ cycle[d] \in Cycle /\ AllLive(d) /\ memory \in [Device -> Document]
  BY TypeParts DEF TypedCycle, TypedData, MInv, Run
<1>2. CASE FinishStale(d) \/ RefreshSkipped(d)
  <2>1. UNCHANGED <<memory, disk, remote>> /\ End(d)
    BY <1>2 DEF FinishStale, RefreshSkipped, data, rest
  <2>2. QED
    BY <1>1, <2>1, LiveStop DEF AllLive
<1>3. CASE TakeOver(d) \/ Reload(d)
  <2>1. /\ End(d) /\ UNCHANGED <<disk, remote>>
        /\ \/ UNCHANGED memory
           \/ memory' = [memory EXCEPT ![d] = [item |-> cycle[d].merged, pending |-> NoPending]]
           \/ memory' = [memory EXCEPT ![d] = disk[d]]
    BY <1>3 DEF TakeOver, Reload
  <2>2. /\ memory'[d].item \in {memory[d].item, cycle[d].merged, disk[d].item}
        /\ \A e \in Device : e # d => memory'[e] = memory[e]
    BY <1>1, <2>1
  <2>3. QED
    BY <1>1, <2>1, <2>2, LiveStop DEF AllLive
<1>4. CASE RecordFast(d) \/ Refresh(d) \/ ReloadStart(d)
  <2>1. /\ UNCHANGED <<memory, disk, remote>>
        /\ \/ Goto(d, [cycle[d] EXCEPT !.pc = "refresh"])
           \/ Goto(d, [cycle[d] EXCEPT !.pc = "apply"])
           \/ Goto(d, [cycle[d] EXCEPT !.pc = "reload", !.stale = FALSE])
    BY <1>4 DEF RecordFast, Refresh, ReloadStart, Jump, Goto, data, rest
  <2>2. QED
    BY <1>1, <2>1, SameDocuments DEF Cycle
<1>5. QED
  BY <1>2, <1>3, <1>4 DEF Finishes, RefreshAtOnce, Apply

LEMMA OthersLive ==
    ASSUME TInv, MInv, NoDeletion, NoDeletion',
           \/ \E d \in Device : Edit(d) \/ Delete(d) \/ Flush(d) \/ Crash(d) \/ BackoffEnds(d)
           \/ LeaseExpires \/ LeaseLapses \/ Tick \/ UNCHANGED vars
    PROVE  MInv'
<1>1. TypedCycle /\ TypedData /\ TypedRest /\ TypedHolder
  BY TypeParts
<1>2. CASE LeaseExpires \/ LeaseLapses \/ Tick \/ UNCHANGED vars
  <2>1. UNCHANGED <<cycle, memory, disk, remote>>
    BY <1>2 DEF LeaseExpires, LeaseLapses, Tick, vars, data, rest
  <2>2. QED
    BY <2>1 DEF MInv, AllLive, Ahead, Latest
<1>3. ASSUME NEW d \in Device, Edit(d) PROVE MInv'
  <2>1. /\ AllLive(d) /\ memory[d].item \in Entity /\ cycle[d] \in Cycle /\ clock \in Nat
        /\ d \in Nat /\ UNCHANGED <<disk, remote>>
    BY <1>1, <1>3, CycleAssumption
    DEF TypedCycle, TypedData, TypedRest, Document, Run, MInv, Edit, Change
  <2> DEFINE item == [memory[d].item EXCEPT !.content = d]
  <2>2. item \in Entity /\ item.deleted = memory[d].item.deleted /\ Change(d, item)
    BY <1>3, <2>1 DEF Edit, Entity
  <2> HIDE DEF item
  <2>3. /\ memory'[d].item = Stamp(item, d)
        /\ \A e \in Device : e # d => memory'[e] = memory[e] /\ cycle'[e] = cycle[e]
        /\ cycle'[d] = [cycle[d] EXCEPT !.stale = cycle[d].pc # "idle"]
    BY <1>1, <2>2, ChangeTyped
  <2>4. memory'[d].item.deleted = memory[d].item.deleted
    BY <2>1, <2>2, <2>3, StampTyped
  <2>5. /\ cycle'[d].pc = cycle[d].pc /\ cycle'[d].snapshot = cycle[d].snapshot
        /\ cycle'[d].merged = cycle[d].merged /\ cycle'[d].held = cycle[d].held
        /\ cycle'[d].stale = (cycle[d].pc # "idle")
    BY <2>1, <2>3 DEF Cycle
  <2>6. AllLive(d)' /\ Ahead(d)'
    BY <2>1, <2>4, <2>5 DEF AllLive, Ahead
  <2>7. QED
    BY <2>1, <2>3, <2>6, LiveStep DEF MInv
<1>4. ASSUME NEW d \in Device, Delete(d) PROVE MInv'
  <2>1. budget.removals \in [Device -> Nat] /\ budget'.removals[d] = budget.removals[d] - 1
    BY <1>1, <1>4 DEF Delete, TypedRest
  <2>2. QED
    BY <2>1 DEF NoDeletion
<1>5. ASSUME NEW d \in Device, Flush(d) PROVE MInv'
  <2>1. /\ AllLive(d) /\ Ahead(d) /\ memory[d].item \in Entity
        /\ UNCHANGED <<memory, cycle, remote>>
    BY <1>1, <1>5 DEF TypedData, Document, MInv, Flush
  <2>2. PICK pending \in {disk[d].pending, memory[d].pending} : Store(d, memory[d].item, pending)
    BY <1>5 DEF Flush
  <2>3. /\ disk'[d].item \in {disk[d].item, memory[d].item}
        /\ \A e \in Device : e # d => disk'[e] = disk[e]
    BY <2>1, <2>2, Stored
  <2>4. AllLive(d)' /\ Ahead(d)'
    BY <2>1, <2>3 DEF AllLive, Ahead, Latest
  <2>5. QED
    BY <2>1, <2>3, <2>4, LiveStep DEF MInv
<1>6. ASSUME NEW d \in Device, Crash(d) PROVE MInv'
  <2>1. Goto(d, Idle) /\ memory' = [memory EXCEPT ![d] = disk[d]] /\ UNCHANGED <<disk, remote>>
    BY <1>6 DEF Crash
  <2>2. cycle'[d] = Idle /\ \A e \in Device : e # d => cycle'[e] = cycle[e]
    BY <1>1, <2>1, Moved
  <2>3. memory'[d] = disk[d] /\ \A e \in Device : e # d => memory'[e] = memory[e]
    BY <1>1, <2>1 DEF TypedData
  <2>4. AllLive(d)' /\ Ahead(d)'
    BY <2>1, <2>2, <2>3, StartTypes DEF MInv, AllLive, Ahead, Idle
  <2>5. QED
    BY <2>1, <2>2, <2>3, <2>4, LiveStep DEF MInv
<1>7. ASSUME NEW d \in Device, BackoffEnds(d) PROVE MInv'
  <2>1. /\ memory \in [Device -> Document] /\ disk \in [Device -> Document]
        /\ cycle[d] \in Cycle /\ AllLive(d) /\ Ahead(d) /\ UNCHANGED remote
    BY <1>1, <1>7 DEF TypedData, TypedCycle, Run, MInv, BackoffEnds
  <2>2. memory'[d].item = memory[d].item /\ \A e \in Device : e # d => memory'[e] = memory[e]
    BY <1>7, <2>1 DEF BackoffEnds, Document
  <2>3. disk'[d].item = disk[d].item /\ \A e \in Device : e # d => disk'[e] = disk[e]
    BY <1>7, <2>1 DEF BackoffEnds, Document
  <2> DEFINE c == [cycle[d] EXCEPT !.pending.retry = FALSE]
  <2>4. Goto(d, c)
    BY <1>7 DEF BackoffEnds, Goto
  <2>5. /\ c.pc = cycle[d].pc /\ c.snapshot = cycle[d].snapshot
        /\ c.merged = cycle[d].merged /\ c.held = cycle[d].held /\ c.stale = cycle[d].stale
    BY <2>1 DEF Cycle
  <2> HIDE DEF c
  <2>6. cycle'[d] = c /\ \A e \in Device : e # d => cycle'[e] = cycle[e]
    BY <1>1, <2>4, Moved
  <2>7. AllLive(d)' /\ Ahead(d)'
    BY <2>1, <2>2, <2>3, <2>5, <2>6 DEF AllLive, Ahead, Latest
  <2>8. QED
    BY <2>1, <2>2, <2>3, <2>6, <2>7, LiveStep DEF MInv
<1>8. QED
  BY <1>2, <1>3, <1>4, <1>5, <1>6, <1>7

\* A step of one device leaves the runs of the others alone.
LEMMA OneRunMoves ==
    ASSUME TypedCycle, NEW d \in Device, NEW e \in Device, e # d,
           \/ Edit(e) \/ Delete(e) \/ Flush(e) \/ Runs(e) \/ ReadFails(e)
           \/ LeaseUnconfirmed(e) \/ UploadFails(e) \/ Crash(e) \/ BackoffEnds(e)
    PROVE  cycle'[d] = cycle[d]
<1>1. ASSUME NEW c, Goto(e, c) PROVE cycle'[d] = cycle[d]
  BY <1>1 DEF Goto, TypedCycle
<1>2. ASSUME NEW pc, Jump(e, pc) PROVE cycle'[d] = cycle[d]
  BY <1>2 DEF Jump, TypedCycle
<1>3. ASSUME End(e) \/ Fail(e) \/ LocalAbort(e) \/ RemoteAbort(e) PROVE cycle'[d] = cycle[d]
  BY <1>2, <1>3 DEF End, Fail, LocalAbort, RemoteAbort, TypedCycle
<1>4. CASE Edit(e) \/ Delete(e) \/ Flush(e) \/ Crash(e) \/ BackoffEnds(e)
  BY <1>1, <1>4 DEF Edit, Delete, Change, Flush, Crash, BackoffEnds, TypedCycle
<1>5. CASE Start(e) \/ StampLocal(e) \/ ReadLocal(e)
  BY <1>1, <1>5 DEF Start, StampLocal, ReadLocal
<1>6. CASE Checks(e)
  BY <1>1, <1>2, <1>3, <1>6 DEF Checks, CheckStale, CheckSideEffects, FastSkip,
     ArmLocalOnlyUpload, ReadCheck
<1>7. CASE Merges(e)
  BY <1>1, <1>2, <1>3, <1>7 DEF Merges, MergeReadLocal, NothingPending, PendingBackoff,
     RetryPending, AcquireFence, FenceBusy, ReadRemote
<1>8. CASE Writes(e) \/ ReadFails(e) \/ LeaseUnconfirmed(e) \/ UploadFails(e)
  BY <1>1, <1>2, <1>3, <1>8 DEF Writes, WriteLocal, Persist, AbortClear, LeaseLost,
     WriteRemote, UploadSkipped, Upload, UploadConflict, UploadLeaseLost, RetryLater,
     ReadFails, LeaseUnconfirmed, UploadFails
<1>9. CASE Finishes(e)
  BY <1>1, <1>2, <1>3, <1>9 DEF Finishes, RecordFast, FinishStale, RefreshSkipped, Refresh,
     RefreshAtOnce, Apply, TakeOver, ReloadStart, Reload
<1>10. QED
  BY <1>4, <1>5, <1>6, <1>7, <1>8, <1>9 DEF Runs

\* Only a fresh run goes from its storage write to the end, and it has stored
\* what it merged.
LEMMA FinishStored ==
    ASSUME TInv, MInv, [Next]_vars, NEW d \in Device, At(d, "persist"),
           cycle'[d].pc = "finish"
    PROVE  disk'[d].item = cycle[d].merged
<1>1. TypedCycle /\ TypedHolder /\ TypedData /\ TypedRest /\ cycle[d] \in Cycle
      /\ cycle[d].pc = "persist"
  BY TypeParts DEF TypedCycle, Run, At
<1>2. CASE Persist(d)
  <2>1. ~LocalAbort(d)
    <3>1. LocalAbort(d) => Stops(d, "abortClear")
      BY <1>1, AbortTyped
    <3>2. ~Stops(d, "abortClear")
      BY <1>1 DEF Stops, Idle, Cycle
    <3>3. QED
      BY <3>1, <3>2
  <2>2. ~cycle[d].stale
    BY <1>2, <2>1 DEF Persist
  <2>3. QED
    BY <1>2, <2>2, PersistStores
<1>3. CASE Fail(d)
  <2>1. Stops(d, "error")
    BY <1>1, <1>3, FailTyped
  <2>2. QED
    BY <1>1, <2>1 DEF Stops, Idle, Cycle
<1>4. cycle'[d] # cycle[d]
  BY <1>1
<1>5. CASE Edit(d) \/ Delete(d) \/ BackoffEnds(d)
  <2>1. \/ cycle' = [cycle EXCEPT ![d].stale = cycle[d].pc # "idle"]
        \/ cycle' = [cycle EXCEPT ![d].pending.retry = FALSE]
    BY <1>5 DEF Edit, Delete, Change, BackoffEnds
  <2>2. cycle'[d].pc = cycle[d].pc
    BY <1>1, <2>1 DEF TypedCycle, Cycle
  <2>3. QED
    BY <1>1, <2>2
<1>6. CASE Crash(d)
  <2>1. cycle'[d] = Idle
    BY <1>1, <1>6, Moved DEF Crash
  <2>2. QED
    BY <2>1 DEF Idle
<1>7. CASE Flush(d) \/ LeaseExpires \/ LeaseLapses \/ Tick \/ UNCHANGED vars
  BY <1>4, <1>7 DEF Flush, LeaseExpires, LeaseLapses, Tick, vars
<1>8. CASE Runs(d) \/ ReadFails(d) \/ LeaseUnconfirmed(d) \/ UploadFails(d)
  BY <1>1, <1>2, <1>3, <1>8, AtPersist DEF LeaseLost, ReadFails, LeaseUnconfirmed, UploadFails, At
<1>9. CASE \E e \in Device : /\ e # d
                            /\ \/ Edit(e) \/ Delete(e) \/ Flush(e) \/ Runs(e) \/ ReadFails(e)
                               \/ LeaseUnconfirmed(e) \/ UploadFails(e) \/ Crash(e)
                               \/ BackoffEnds(e)
  BY <1>1, <1>4, <1>9, OneRunMoves
<1>10. QED
  BY <1>5, <1>6, <1>7, <1>8, <1>9 DEF Next

\* As long as nothing is deleted, on any backend: what a run hands to the store
\* and records as synced is what its last writeLocal left in storage, although
\* the upsert could have kept a row with a higher revision.
THEOREM MergedIsStored ==
    Spec /\ []NoDeletion => MergedIsPersisted
<1>1. Init => MInv
  <2> SUFFICES ASSUME Init PROVE MInv
    OBVIOUS
  <2>1. /\ \A d \in Device : cycle[d] = Idle /\ memory[d].item = Created /\ disk[d].item = Created
        /\ remote.item = Created
    BY DEF Init
  <2>2. QED
    BY <2>1, StartTypes DEF MInv, AllLive, Ahead, Idle
<1>2. ASSUME TInv, MInv, NoDeletion, NoDeletion', [Next]_vars PROVE MInv'
  BY <1>2, ReadsLive, MergesLive, WritesLive, FinishesLive, OthersLive DEF Next, Runs
<1>3. TInv /\ MInv /\ NoDeletion /\ NoDeletion' /\ [Next]_vars => MInv'
  BY <1>2
<1>4. Init => TInv
  BY InitTyped
<1>5. TInv /\ [Next]_vars => TInv'
  BY NextTyped
<1>6. TInv /\ MInv /\ [Next]_vars
      => [\A d \in Device : /\ At(d, "persist")
                            /\ cycle'[d].pc = "finish"
                            => disk'[d].item = cycle[d].merged]_vars
  BY FinishStored
<1>7. QED
  BY <1>1, <1>3, <1>4, <1>5, <1>6, PTL DEF Spec, MergedIsPersisted

-----------------------------------------------------------------------------
(* The saved edits *)

\* The merge of two such copies takes the later one.
LEMMA WinnerIsTop ==
    ASSUME NEW a \in Copies, NEW b \in Copies, clock \in Nat
    PROVE  Winner(a, b, clock) = IF Below(a, b) THEN b ELSE a
<1>1. /\ a.rev \in Nat /\ b.rev \in Nat /\ a.rev > 0 /\ b.rev > 0
      /\ a.deleted = b.deleted /\ a.deletedAt = -1 /\ b.deletedAt = -1
      /\ a.updated \in Nat /\ b.updated \in Nat /\ a.updated <= clock /\ b.updated <= clock
      /\ a.revBy \in Nat /\ b.revBy \in Nat /\ a.content = a.revBy /\ b.content = b.revBy
  BY MergeAssumption DEF Copies, Copy, Entity, Invalid
<1>2. Winner(a, b, clock) = RevisionWinner(a, b, clock)
  BY <1>1 DEF Winner, HasRevision
<1>3. CASE a.rev # b.rev
  BY <1>1, <1>2, <1>3 DEF RevisionWinner, Below
<1>4. CASE a.rev = b.rev
  <2>1. /\ Newer(a.updated, b.updated, clock) <=> a.updated > b.updated
        /\ Newer(b.updated, a.updated, clock) <=> b.updated > a.updated
    BY <1>1, MergeAssumption DEF Newer, SafeTime, WasClamped
  <2>2. CASE a.updated # b.updated
    BY <1>1, <1>2, <1>4, <2>1, <2>2 DEF RevisionWinner, Below
  <2>3. CASE a.updated = b.updated
    <3>1. ChooseDeterministic(a, b) = IF a.revBy > b.revBy THEN a ELSE b
      BY <1>1, <1>4, <2>3 DEF ChooseDeterministic, ComparableGreater, SameComparable, FullGreater
    <3>2. RevisionWinner(a, b, clock) = IF a.revBy > b.revBy THEN a ELSE b
      BY <1>1, <1>4, <2>1, <2>3, <3>1 DEF RevisionWinner
    <3>3. QED
      BY <1>1, <1>2, <1>4, <2>3, <3>2 DEF Below
  <2>4. QED
    BY <2>2, <2>3
<1>5. QED
  BY <1>3, <1>4

\* Below is a total preorder, and copies that are below each other are the same.
LEMMA BelowIsOrder ==
    /\ \A a \in Copy : Below(a, a)
    /\ \A a, b \in Copy : Below(a, b) \/ Below(b, a)
    /\ \A a, b, c \in Copy : Below(a, b) /\ Below(b, c) => Below(a, c)
    /\ \A a, b \in Copy : Below(a, b) /\ Below(b, a) => a = b
<1>1. \A a \in Copy : a.rev \in Nat /\ a.updated \in Nat /\ a.revBy \in Nat
  BY DEF Copy, Entity
<1>2. ASSUME NEW a \in Copy, NEW b \in Copy, Below(a, b), Below(b, a) PROVE a = b
  <2>1. a.rev = b.rev /\ a.updated = b.updated /\ a.revBy = b.revBy
    BY <1>1, <1>2 DEF Below
  <2>2. a.deleted = b.deleted /\ a.deletedAt = b.deletedAt /\ a.content = b.content
    BY <2>1 DEF Copy, Entity
  <2>3. QED
    BY <2>1, <2>2 DEF Copy, Entity
<1>3. QED
  BY <1>1, <1>2 DEF Below

\* What the merge of two copies is.
LEMMA MergeOfCopies ==
    ASSUME NEW a \in Copies, NEW b \in Copies, clock \in Nat
    PROVE  LET w == Winner(a, b, clock)
           IN  w \in {a, b} /\ w \in Copies /\ Below(a, w) /\ Below(b, w)
<1>1. CASE Below(a, b)
  BY <1>1, WinnerIsTop, BelowIsOrder DEF Copies
<1>2. CASE ~Below(a, b)
  BY <1>2, WinnerIsTop, BelowIsOrder DEF Copies
<1>3. QED
  BY <1>1, <1>2

\* An edit of d is above everything that d made before with no higher revision.
LEMMA StampIsAbove ==
    ASSUME NEW d \in Device, NEW a \in Copies, clock \in Nat
    PROVE  LET e == Stamp([a EXCEPT !.content = d], d)
           IN  /\ e \in Copies /\ e.revBy = d /\ e.updated = clock
               /\ a.revBy = d => Below(a, e)
<1>1. /\ a.rev \in 1..MaxSyncRevision /\ a.updated \in Nat /\ a.updated <= clock
      /\ a \in Entity /\ ~a.deleted /\ a.deletedAt = Invalid
  BY DEF Copies, Copy
<1>2. /\ NextRevision(a.rev) \in 1..MaxSyncRevision /\ a.rev <= NextRevision(a.rev)
  BY <1>1, MergeAssumption DEF NextRevision
<1>3. d \in Nat /\ clock \in Time
  BY CycleAssumption DEF Time
<1> DEFINE b == [a EXCEPT !.content = d]
           e == Stamp(b, d)
<1>4. /\ b \in Entity /\ b.rev = a.rev /\ b.content = d /\ b.deleted = a.deleted
      /\ b.deletedAt = a.deletedAt
  BY <1>1, <1>3 DEF Entity
<1>5. NextRevision(a.rev) \in Nat
  BY <1>2, MergeAssumption
<1> HIDE DEF b
<1>6. /\ e \in Entity /\ e.rev = NextRevision(a.rev) /\ e.revBy = d /\ e.updated = clock
      /\ e.content = d /\ e.deleted = a.deleted /\ e.deletedAt = a.deletedAt
  BY <1>3, <1>4, <1>5 DEF Stamp, Entity
<1> HIDE DEF e
<1>7. e \in Copies
  BY <1>1, <1>2, <1>6 DEF Copies, Copy
<1>8. a.revBy = d => Below(a, e)
  BY <1>1, <1>2, <1>3, <1>6, MergeAssumption DEF Below
<1>9. QED
  BY <1>6, <1>7, <1>8 DEF e, b

\* The first copy is below all.
LEMMA CreatedIsBelow ==
    ASSUME clock \in Nat, MaxSyncRevision > 0
    PROVE  Created \in Copies /\ \A e \in Copies : Below(Created, e)
<1>1. Created \in Copies
  BY StartTypes, MergeAssumption DEF Copies, Copy, Created, NoOne
<1>2. ASSUME NEW e \in Copies PROVE Below(Created, e)
  <2>1. e.rev \in Nat /\ e.rev >= 1 /\ e.updated \in Nat /\ e.revBy \in Nat
    BY MergeAssumption DEF Copies, Copy, Entity
  <2>2. QED
    BY <2>1 DEF Below, Created, NoOne
<1>3. QED
  BY <1>1, <1>2

\* After the step, e or a later copy is with d or in the shared document.
Carried(d, e) ==
    Below(e, remote'.item) \/ Below(e, memory'[d].item) \/ Below(e, disk'[d].item)

\* The shared document only grows.
LEMMA SharedGrows ==
    ASSUME {remote.item, remote'.item} \subseteq Copies, Below(remote.item, remote'.item)
    PROVE  \A e \in Copies : Shared(e) => Shared(e)'
BY BelowIsOrder DEF Shared, Copies

\* A step of d that loses none of its copies.
LEMMA KeepsStep ==
    ASSUME LInv, NEW d \in Device, UNCHANGED clock, clock \in Nat,
           \A e \in Device : e # d => /\ cycle'[e] = cycle[e] /\ memory'[e] = memory[e]
                                      /\ disk'[e] = disk[e] /\ dirty'[e] = dirty[e],
           remote'.item \in Copies, Below(remote.item, remote'.item),
           best' = best \/ best' = Winner(best, memory[d].item, clock),
           Keeps(d)', Carried(d, memory[d].item), Carried(d, disk[d].item)
    PROVE  LInv'
<1>1. Copies' = Copies /\ Copies \subseteq Copy
  BY DEF Copies
<1>2. /\ remote.item \in Copies /\ best \in Copies /\ memory[d].item \in Copies
      /\ disk[d].item \in Copies
  BY DEF LInv, Keeps, Imported, Drafts
<1>3. \A e \in Copies : Shared(e) => Shared(e)'
  BY <1>2, SharedGrows
<1>4. ASSUME NEW e \in Device, e # d PROVE Keeps(e)'
  <2>1. /\ Imported(e) /\ Newest(e) /\ Kept(e) /\ Covered(e) /\ Ordered(e)
        /\ cycle'[e] = cycle[e] /\ memory'[e] = memory[e]
        /\ disk'[e] = disk[e] /\ dirty'[e] = dirty[e]
    BY <1>4 DEF LInv, Keeps
  <2>2. Drafts(e)' = Drafts(e)
    BY <2>1 DEF Drafts
  <2>3. /\ {memory[e].item} \cup Drafts(e) \cup cycle[e].held \subseteq Copies
        /\ disk[e].item \in Drafts(e)
    BY <2>1 DEF Imported, Drafts
  <2>4. Imported(e)'
    BY <1>1, <1>3, <2>1, <2>2, <2>3 DEF Imported
  <2>5. Newest(e)'
    BY <1>3, <2>1, <2>2, <2>3 DEF Newest
  <2>6. Kept(e)'
    BY <1>3, <2>1, <2>3 DEF Kept
  <2>7. Covered(e)' /\ Ordered(e)'
    BY <2>1 DEF Covered, Ordered
  <2>8. QED
    BY <2>4, <2>5, <2>6, <2>7 DEF Keeps
<1>5. memory'[d].item \in Copies /\ disk'[d].item \in Copies
  BY <1>1 DEF Keeps, Imported, Drafts
<1>6. \A e \in Copies : /\ Below(e, memory[d].item) => Carried(d, e)
                        /\ Below(e, disk[d].item) => Carried(d, e)
  BY <1>1, <1>2, <1>5, BelowIsOrder DEF Carried
<1>7. best' \in Copies
  BY <1>2, MergeOfCopies
<1>8. Saved'
  <2>1. CASE best' = memory[d].item
    BY <2>1 DEF Saved, Carried, Shared
  <2>2. CASE best' = best /\ Shared(best)
    BY <1>2, <1>3, <2>2 DEF Saved, Shared
  <2>3. ASSUME best' = best, NEW e \in Device,
               Below(best, memory[e].item) \/ Below(best, disk[e].item)
        PROVE  Saved'
    <3>1. CASE e = d
      BY <1>2, <1>6, <2>3, <3>1 DEF Saved, Carried, Shared
    <3>2. CASE e # d
      BY <2>3, <3>2 DEF Saved
    <3>3. QED
      BY <3>1, <3>2
  <2>4. best' \in {best, memory[d].item}
    BY <1>2, MergeOfCopies
  <2>5. QED
    BY <2>1, <2>2, <2>3, <2>4 DEF LInv, Saved
<1>9. \A e \in Device : Keeps(e)'
  BY <1>4
<1>10. QED
  BY <1>1, <1>7, <1>8, <1>9 DEF LInv

LEMMA KeepsParts ==
    ASSUME TInv, LInv, NEW d \in Device
    PROVE  /\ Imported(d) /\ Newest(d) /\ Kept(d) /\ Covered(d) /\ Ordered(d)
           /\ {remote.item, best, memory[d].item, disk[d].item,
               cycle[d].snapshot, cycle[d].merged} \subseteq Copies
           /\ cycle[d].held \subseteq Copies /\ Copies \subseteq Copy
           /\ clock \in Nat /\ cycle[d] \in Cycle /\ cycle[d] \in Run /\ TypedCycle /\ TypedHolder
           /\ dirty[d] \in BOOLEAN /\ cycle[d].stale \in BOOLEAN
<1>1. Imported(d) /\ Newest(d) /\ Kept(d) /\ Covered(d) /\ Ordered(d)
  BY DEF LInv, Keeps
<1>2. /\ clock \in Nat /\ cycle[d] \in Cycle /\ cycle[d] \in Run /\ TypedCycle /\ TypedHolder
      /\ dirty[d] \in BOOLEAN /\ cycle[d].stale \in BOOLEAN
  BY TypeParts, CycleAssumption DEF TypedData, TypedCycle, TypedRest, Run, Cycle
<1>3. QED
  BY <1>1, <1>2 DEF LInv, Imported, Drafts, Copies

\* A step that keeps the documents of d and of its run.
LEMMA SameCopies ==
    ASSUME TInv, LInv, NEW d \in Device, UNCHANGED <<clock, best>>,
           \A e \in Device : e # d => /\ cycle'[e] = cycle[e] /\ memory'[e] = memory[e]
                                      /\ disk'[e] = disk[e] /\ dirty'[e] = dirty[e],
           remote'.item \in Copies, Below(remote.item, remote'.item),
           memory'[d].item = memory[d].item, disk'[d].item = disk[d].item, dirty'[d] = dirty[d],
           cycle'[d].snapshot = cycle[d].snapshot, cycle'[d].merged = cycle[d].merged,
           cycle'[d].held \subseteq cycle[d].held \cup {remote.item},
           cycle'[d].wroteLocal = cycle[d].wroteLocal,
           \/ cycle'[d].stale = cycle[d].stale
           \/ ~cycle'[d].stale /\ cycle'[d].pc = "reload" /\ cycle[d].pc = "error" /\ ~dirty[d],
           \/ cycle'[d].pc = cycle[d].pc
           \/ cycle[d].pc \in Reading /\ cycle'[d].pc = "setup"
           \/ /\ cycle[d].pc \in {"check", "merge", "pending", "retryRead"}
              /\ cycle'[d].pc \in {"check", "merge", "pending", "retryRead", "readRemote"}
           \/ /\ cycle[d].pc \in {"writeLocal", "persist", "writeRemote", "upload"}
              /\ \/ cycle'[d].pc \in {"writeLocal", "persist", "writeRemote", "upload", "finish"}
                 \/ cycle'[d].pc = "abortClear" /\ cycle[d].stale
           \/ cycle[d].pc = "finish" /\ cycle'[d].pc = "refresh"
           \/ cycle[d].pc = "refresh" /\ cycle'[d].pc = "apply" /\ ~cycle[d].stale
           \/ ~cycle'[d].stale /\ cycle'[d].pc = "reload" /\ cycle[d].pc = "error" /\ ~dirty[d]
    PROVE  LInv'
<1>1. /\ Imported(d) /\ Newest(d) /\ Kept(d) /\ Covered(d) /\ Ordered(d) /\ clock \in Nat
      /\ {remote.item, best, memory[d].item, disk[d].item,
          cycle[d].snapshot, cycle[d].merged} \subseteq Copies
      /\ cycle[d].held \subseteq Copies /\ Copies \subseteq Copy
  BY KeepsParts
<1>2. Copies' = Copies /\ Drafts(d)' = Drafts(d)
  BY DEF Copies, Drafts
<1>3. \A e \in Copies : Shared(e) => Shared(e)'
  BY <1>1, SharedGrows
<1>4. Drafts(d) \subseteq Copies /\ disk[d].item \in Drafts(d)
  BY <1>1 DEF Drafts
<1>5. Imported(d)'
  BY <1>1, <1>2, <1>3, <1>4 DEF Imported, Shared
<1>6. Newest(d)'
  BY <1>1, <1>2, <1>3, <1>4 DEF Newest
<1>7. Kept(d)'
  BY <1>1, <1>3 DEF Kept, Reading
<1>8. Covered(d)'
  BY <1>1 DEF Covered, Reading
<1>9. Ordered(d)'
  BY <1>1 DEF Ordered, Reading
<1>10. Carried(d, memory[d].item) /\ Carried(d, disk[d].item)
  BY <1>1, BelowIsOrder DEF Carried
<1>11. Keeps(d)'
  BY <1>5, <1>6, <1>7, <1>8, <1>9 DEF Keeps
<1>12. QED
  BY <1>1, <1>10, <1>11, KeepsStep

\* A run of d that ends, and with it possibly a write to the store or to storage.
LEMMA EndKeeps ==
    ASSUME TInv, LInv, MaxSyncRevision > 0, NEW d \in Device,
           UNCHANGED <<clock, best, remote, dirty>>,
           \A e \in Device : e # d => /\ cycle'[e] = cycle[e] /\ memory'[e] = memory[e]
                                      /\ disk'[e] = disk[e],
           cycle'[d] = Idle,
           memory'[d].item \in {memory[d].item, disk[d].item, cycle[d].merged},
           disk'[d].item \in {memory[d].item, disk[d].item, cycle[d].merged},
           dirty[d] => memory'[d].item = memory[d].item,
           Carried(d, memory[d].item), Carried(d, disk[d].item)
    PROVE  LInv'
<1>1. /\ Imported(d) /\ Newest(d) /\ clock \in Nat
      /\ {remote.item, best, memory[d].item, disk[d].item,
          cycle[d].snapshot, cycle[d].merged} \subseteq Copies /\ Copies \subseteq Copy
  BY KeepsParts
<1>2. /\ cycle'[d].pc = "idle" /\ cycle'[d].snapshot = Created /\ cycle'[d].merged = Created
      /\ cycle'[d].held = {} /\ ~cycle'[d].stale /\ ~cycle'[d].wroteLocal
  BY DEF Idle
<1>3. Copies' = Copies /\ Created \in Copies /\ Below(Created, remote.item)
  BY <1>1, CreatedIsBelow DEF Copies
<1>4. Drafts(d)' = {disk'[d].item, Created}
  BY <1>2 DEF Drafts
<1>5. \A e \in {memory[d].item, disk[d].item, cycle[d].merged} : Shared(e) \/ e.revBy = d
  BY <1>1 DEF Imported, Drafts
<1>6. Imported(d)'
  BY <1>1, <1>2, <1>3, <1>4, <1>5 DEF Imported, Shared
<1>7. Newest(d)'
  <2>1. SUFFICES ASSUME dirty[d] PROVE Newest(d)'
    BY <1>2 DEF Newest
  <2>2. /\ memory'[d].item = memory[d].item /\ memory[d].item.revBy = d
        /\ memory[d].item.updated \in Nat
        /\ \A e \in {disk[d].item, cycle[d].merged} : Shared(e) \/ e.updated <= memory[d].item.updated
    BY <1>1, <2>1 DEF Newest, Drafts, Copy
  <2>3. \A e \in Drafts(d)' : Shared(e)' \/ e.updated <= memory[d].item.updated
    BY <1>3, <1>4, <2>2 DEF Shared
  <2>4. QED
    BY <2>2, <2>3 DEF Newest
<1>8. Kept(d)' /\ Covered(d)' /\ Ordered(d)'
  BY <1>2 DEF Kept, Covered, Ordered
<1>9. Below(remote.item, remote'.item) /\ remote'.item \in Copies
  BY <1>1, BelowIsOrder
<1>10. Keeps(d)'
  BY <1>6, <1>7, <1>8 DEF Keeps
<1>11. QED
  BY <1>1, <1>9, <1>10, KeepsStep

\* A run that ends and writes nothing.
LEMMA EndQuietly ==
    ASSUME TInv, LInv, MaxSyncRevision > 0, NEW d \in Device, End(d),
           UNCHANGED <<clock, best, remote, dirty, memory, disk>>
    PROVE  LInv'
<1>1. cycle'[d] = Idle /\ \A e \in Device : e # d => cycle'[e] = cycle[e]
  BY KeepsParts, EndTyped
<1>2. Carried(d, memory[d].item) /\ Carried(d, disk[d].item)
  BY KeepsParts, BelowIsOrder DEF Carried
<1>3. QED
  BY <1>1, <1>2, EndKeeps

\* The steps that a run may take without touching a document.
Onward(from, to, stale) ==
    \/ from \in Reading /\ to = "setup"
    \/ /\ from \in {"check", "merge", "pending", "retryRead"}
       /\ to \in {"check", "merge", "pending", "retryRead", "readRemote"}
    \/ /\ from \in {"writeLocal", "persist", "writeRemote", "upload"}
       /\ \/ to \in {"writeLocal", "persist", "writeRemote", "upload", "finish"}
          \/ to = "abortClear" /\ stale
    \/ from = "finish" /\ to = "refresh"
    \/ from = "refresh" /\ to = "apply" /\ ~stale

\* A run that moves on.
LEMMA RunKeeps ==
    ASSUME TInv, LInv, NEW d \in Device, NEW c, Goto(d, c),
           UNCHANGED <<clock, best, memory, disk, dirty>>,
           UNCHANGED remote \/ remote'.item = Winner(remote.item, cycle[d].merged, clock),
           c.snapshot = cycle[d].snapshot, c.merged = cycle[d].merged,
           c.held \subseteq cycle[d].held \cup {remote.item},
           c.wroteLocal = cycle[d].wroteLocal, c.stale = cycle[d].stale,
           Onward(cycle[d].pc, c.pc, cycle[d].stale)
    PROVE  LInv'
<1>1. cycle'[d] = c /\ \A e \in Device : e # d => cycle'[e] = cycle[e]
  BY KeepsParts, Moved
<1>2. remote.item \in Copies /\ cycle[d].merged \in Copies /\ Copies \subseteq Copy /\ clock \in Nat
  BY KeepsParts
<1>3. remote'.item \in Copies /\ Below(remote.item, remote'.item)
  <2>1. CASE UNCHANGED remote
    BY <1>2, <2>1, BelowIsOrder
  <2>2. CASE remote'.item = Winner(remote.item, cycle[d].merged, clock)
    BY <1>2, <2>2, MergeOfCopies
  <2>3. QED
    BY <2>1, <2>2
<1>4. QED
  BY <1>1, <1>3, SameCopies DEF Onward

\* A run that takes another copy of the local data as its snapshot.
LEMMA SnapshotKeeps ==
    ASSUME TInv, LInv, NEW d \in Device, NEW c, Goto(d, c),
           UNCHANGED <<clock, best, memory, disk, dirty, remote>>,
           cycle[d].pc \in {"setup", "readLocal"},
           c.pc \in {"readLocal", "check", "pending", "readRemote"},
           c.snapshot \in {memory[d].item, disk[d].item, cycle[d].snapshot},
           c.merged = cycle[d].merged, c.held = cycle[d].held,
           c.wroteLocal = cycle[d].wroteLocal, c.stale => cycle[d].stale,
           c.pc # "readLocal" => Below(disk[d].item, c.snapshot),
           ~c.stale => Below(memory[d].item, c.snapshot)
    PROVE  LInv'
<1>1. /\ Imported(d) /\ Newest(d) /\ Ordered(d) /\ clock \in Nat
      /\ {remote.item, best, memory[d].item, disk[d].item,
          cycle[d].snapshot, cycle[d].merged} \subseteq Copies
      /\ cycle[d].held \subseteq Copies /\ Copies \subseteq Copy
  BY KeepsParts
<1>2. cycle'[d] = c /\ \A e \in Device : e # d => cycle'[e] = cycle[e]
  BY KeepsParts, Moved
<1>3. Copies' = Copies /\ \A e : Shared(e)' = Shared(e)
  BY DEF Copies, Shared
<1>4. Drafts(d)' \subseteq {memory[d].item} \cup Drafts(d)
  BY <1>2 DEF Drafts
<1>5. Imported(d)'
  BY <1>1, <1>2, <1>3, <1>4 DEF Imported
<1>6. Newest(d)'
  <2>1. memory[d].item.updated \in Nat
    BY <1>1 DEF Copy
  <2>2. QED
    BY <1>1, <1>2, <1>3, <1>4, <2>1 DEF Newest
<1>7. Kept(d)'
  BY <1>2 DEF Kept
<1>8. Covered(d)'
  BY <1>2 DEF Covered
<1>9. Ordered(d)'
  BY <1>1, <1>2 DEF Ordered, Reading
<1>10. Carried(d, memory[d].item) /\ Carried(d, disk[d].item)
  BY <1>1, BelowIsOrder DEF Carried
<1>11. Keeps(d)'
  BY <1>5, <1>6, <1>7, <1>8, <1>9 DEF Keeps
<1>12. Below(remote.item, remote'.item) /\ remote'.item \in Copies
  BY <1>1, BelowIsOrder
<1>13. QED
  BY <1>1, <1>2, <1>10, <1>11, <1>12, KeepsStep

\* What has been read of storage is in the snapshot.
LEMMA ReadsKeep ==
    ASSUME TInv, LInv, MaxSyncRevision > 0, ~Fenced, NEW d \in Device,
           Start(d) \/ StampLocal(d) \/ ReadLocal(d) \/ Checks(d)
    PROVE  LInv'
<1>1. /\ Imported(d) /\ Newest(d) /\ Kept(d) /\ Covered(d) /\ Ordered(d) /\ clock \in Nat
      /\ {remote.item, best, memory[d].item, disk[d].item,
          cycle[d].snapshot, cycle[d].merged} \subseteq Copies
      /\ cycle[d].held \subseteq Copies /\ Copies \subseteq Copy
      /\ cycle[d] \in Run /\ cycle[d] \in Cycle
  BY KeepsParts
<1>2. UNCHANGED <<memory, disk, remote, clock, best, dirty>>
  BY DEF Start, StampLocal, ReadLocal, Checks, CheckStale, CheckSideEffects, FastSkip,
     ArmLocalOnlyUpload, ReadCheck, data, rest
<1>3. CASE Start(d)
  <2>1. cycle[d] = Idle /\ Goto(d, [Idle EXCEPT !.pc = "setup"])
    BY <1>1, <1>3 DEF Start, At, Run
  <2> DEFINE c == [Idle EXCEPT !.pc = "setup"]
  <2>2. /\ c.snapshot = Idle.snapshot /\ c.merged = Idle.merged /\ c.held = Idle.held
        /\ c.wroteLocal = Idle.wroteLocal /\ c.stale = Idle.stale /\ Idle.pc = "idle"
        /\ c.pc = "setup"
    BY DEF Idle
  <2>3. Onward("idle", "setup", Idle.stale)
    BY DEF Onward, Reading
  <2> HIDE DEF c
  <2>4. QED
    BY <1>2, <2>1, <2>2, <2>3, RunKeeps DEF c
<1>4. CheckStale(d) \/ FastSkip(d) \/ (ReadCheck(d) /\ End(d)) => LInv'
  BY <1>2, EndQuietly DEF CheckStale, FastSkip
<1>5. CASE CheckSideEffects(d)
  <2> DEFINE c == [cycle[d] EXCEPT !.pc = "merge"]
  <2>1. cycle[d].pc = "check" /\ Goto(d, c)
    BY <1>5 DEF CheckSideEffects, Jump, Goto, At
  <2>2. /\ c.snapshot = cycle[d].snapshot /\ c.merged = cycle[d].merged
        /\ c.held = cycle[d].held /\ c.wroteLocal = cycle[d].wroteLocal
        /\ c.stale = cycle[d].stale /\ c.pc = "merge"
    BY <1>1 DEF Cycle
  <2> HIDE DEF c
  <2>3. Onward(cycle[d].pc, c.pc, cycle[d].stale)
    BY <2>1, <2>2 DEF Onward
  <2>4. QED
    BY <1>2, <2>1, <2>2, <2>3, RunKeeps
<1>6. CASE ReadCheck(d) /\ ~End(d)
  <2> DEFINE c == [cycle[d] EXCEPT !.pc = "merge", !.held = {remote.item}]
  <2>1. cycle[d].pc = "check" /\ Goto(d, c)
    BY <1>6 DEF ReadCheck, At
  <2>2. /\ c.snapshot = cycle[d].snapshot /\ c.merged = cycle[d].merged
        /\ c.held = {remote.item} /\ c.wroteLocal = cycle[d].wroteLocal
        /\ c.stale = cycle[d].stale /\ c.pc = "merge"
    BY <1>1 DEF Cycle
  <2> HIDE DEF c
  <2>3. Onward(cycle[d].pc, c.pc, cycle[d].stale)
    BY <2>1, <2>2 DEF Onward
  <2>4. QED
    BY <1>2, <2>1, <2>2, <2>3, RunKeeps
<1>7. CASE StampLocal(d)
  <2> DEFINE c == [cycle[d] EXCEPT !.pc = "readLocal", !.stale = FALSE,
                                   !.snapshot = memory[d].item]
  <2>1. Goto(d, c) /\ cycle[d].pc = "setup"
    BY <1>7 DEF StampLocal, At
  <2>2. /\ c.pc = "readLocal" /\ c.snapshot = memory[d].item /\ ~c.stale
        /\ c.merged = cycle[d].merged /\ c.held = cycle[d].held
        /\ c.wroteLocal = cycle[d].wroteLocal
    BY <1>1 DEF Cycle
  <2> HIDE DEF c
  <2>3. QED
    BY <1>2, <2>1, <2>2, SnapshotKeeps, BelowIsOrder, <1>1
<1>8. CASE ReadLocal(d)
  <2> DEFINE aligned == disk[d].item = cycle[d].snapshot
             s == IF aligned THEN cycle[d].snapshot
                  ELSE Winner(disk[d].item, cycle[d].snapshot, clock)
             p == IF cycle[d].marked THEN NoPending ELSE disk[d].pending
             c == [cycle[d] EXCEPT !.pc = cycle[d].next, !.snapshot = s,
                                   !.matchesDisk = aligned, !.pending = p]
  <2>1. Goto(d, c) /\ cycle[d].pc = "readLocal"
    BY <1>8 DEF ReadLocal, At
  <2>2. /\ s \in {disk[d].item, cycle[d].snapshot} /\ Below(disk[d].item, s)
        /\ Below(cycle[d].snapshot, s)
    <3>1. CASE aligned
      BY <1>1, <3>1, BelowIsOrder
    <3>2. CASE ~aligned
      BY <1>1, <3>2, MergeOfCopies
    <3>3. QED
      BY <3>1, <3>2
  <2> HIDE DEF s, p, aligned
  <2>3. /\ c.pc \in {"check", "pending", "readRemote"} /\ c.snapshot = s
        /\ c.merged = cycle[d].merged /\ c.held = cycle[d].held /\ c.stale = cycle[d].stale
        /\ c.wroteLocal = cycle[d].wroteLocal
    BY <1>1 DEF Run, Cycle
  <2>4. ~cycle[d].stale => Below(memory[d].item, s)
    BY <1>1, <2>1, <2>2, BelowIsOrder DEF Covered
  <2> HIDE DEF c
  <2>5. QED
    BY <1>1, <1>2, <2>1, <2>2, <2>3, <2>4, SnapshotKeeps
<1>9. ~ArmLocalOnlyUpload(d)
  BY DEF ArmLocalOnlyUpload
<1>10. QED
  BY <1>3, <1>4, <1>5, <1>6, <1>7, <1>8, <1>9 DEF Checks

\* What is merged is the snapshot or the shared document, and at least the snapshot.
LEMMA MergeKeeps ==
    ASSUME TInv, LInv, NEW d \in Device, NEW c, Goto(d, c),
           UNCHANGED <<clock, best, memory, disk, dirty, remote>>,
           cycle[d].pc = "readRemote", c.pc \in {"writeLocal", "writeRemote"},
           c.merged \in Copies, Below(cycle[d].snapshot, c.merged),
           c.merged = cycle[d].snapshot \/ Shared(c.merged),
           c.snapshot = cycle[d].snapshot, c.held = {}, c.stale = cycle[d].stale
    PROVE  LInv'
<1>1. /\ Imported(d) /\ Newest(d) /\ Kept(d) /\ Covered(d) /\ clock \in Nat
      /\ {remote.item, best, memory[d].item, disk[d].item,
          cycle[d].snapshot, cycle[d].merged} \subseteq Copies
      /\ Copies \subseteq Copy
  BY KeepsParts
<1>2. cycle'[d] = c /\ \A e \in Device : e # d => cycle'[e] = cycle[e]
  BY KeepsParts, Moved
<1>3. Copies' = Copies /\ \A e : Shared(e)' = Shared(e)
  BY DEF Copies, Shared
<1>4. Drafts(d)' \subseteq {c.merged} \cup Drafts(d) /\ cycle[d].snapshot \in Drafts(d)
  BY <1>2 DEF Drafts
<1>5. Imported(d)'
  BY <1>1, <1>2, <1>3, <1>4 DEF Imported
<1>6. Newest(d)'
  BY <1>1, <1>2, <1>3, <1>4 DEF Newest
<1>7. Kept(d)'
  BY <1>1, <1>2, <1>3, BelowIsOrder DEF Kept
<1>8. Covered(d)'
  BY <1>1, <1>2, BelowIsOrder DEF Covered
<1>9. Ordered(d)'
  BY <1>2 DEF Ordered, Reading
<1>10. Carried(d, memory[d].item) /\ Carried(d, disk[d].item)
  BY <1>1, BelowIsOrder DEF Carried
<1>11. Keeps(d)'
  BY <1>5, <1>6, <1>7, <1>8, <1>9 DEF Keeps
<1>12. Below(remote.item, remote'.item) /\ remote'.item \in Copies
  BY <1>1, BelowIsOrder
<1>13. QED
  BY <1>1, <1>2, <1>10, <1>11, <1>12, KeepsStep

LEMMA MergesKeep ==
    ASSUME TInv, LInv, MaxSyncRevision > 0, ~Fenced, NEW d \in Device,
           Merges(d) \/ ReadFails(d)
    PROVE  LInv'
<1>1. /\ Imported(d) /\ Ordered(d) /\ clock \in Nat
      /\ {remote.item, cycle[d].snapshot} \subseteq Copies
      /\ cycle[d].held \subseteq Copies /\ Copies \subseteq Copy
      /\ cycle[d] \in Run /\ cycle[d] \in Cycle
  BY KeepsParts
<1>2. UNCHANGED <<memory, disk, remote, clock, best, dirty>>
  BY DEF Merges, MergeReadLocal, NothingPending, PendingBackoff, RetryPending,
     AcquireFence, FenceBusy, ReadRemote, ReadFails, data, rest
<1>3. CASE PendingBackoff(d) \/ FenceBusy(d)
  BY <1>2, <1>3, EndQuietly DEF PendingBackoff, FenceBusy
<1>4. CASE ReadFails(d)
  <2>1. ~cycle[d].wroteLocal
    BY <1>1, <1>4 DEF Ordered, ReadFails, At
  <2>2. End(d)
    BY <1>4, <2>1 DEF ReadFails, Fail
  <2>3. QED
    BY <1>2, <2>2, EndQuietly
<1>5. CASE MergeReadLocal(d)
  <2> DEFINE target == IF At(d, "merge") THEN "pending" ELSE "readRemote"
  <2>1. /\ cycle[d].pc \in {"merge", "retryRead"}
        /\ \/ Goto(d, [cycle[d] EXCEPT !.pc = "setup", !.next = target])
           \/ Goto(d, [cycle[d] EXCEPT !.pc = target])
    BY <1>5 DEF MergeReadLocal, Jump, Goto, At
  <2>2. target \in {"pending", "readRemote"}
    OBVIOUS
  <2> HIDE DEF target
  <2>3. PICK c : /\ Goto(d, c)
                 /\ \/ c = [cycle[d] EXCEPT !.pc = "setup", !.next = target]
                    \/ c = [cycle[d] EXCEPT !.pc = target]
    BY <2>1
  <2>4. /\ c.snapshot = cycle[d].snapshot /\ c.merged = cycle[d].merged
        /\ c.held = cycle[d].held /\ c.wroteLocal = cycle[d].wroteLocal
        /\ c.stale = cycle[d].stale /\ c.pc \in {"setup", target}
    BY <1>1, <2>3 DEF Cycle
  <2>5. Onward(cycle[d].pc, c.pc, cycle[d].stale)
    BY <2>1, <2>2, <2>4 DEF Onward, Reading
  <2>6. QED
    BY <1>2, <2>3, <2>4, <2>5, RunKeeps
<1>6. CASE NothingPending(d) \/ RetryPending(d)
  <2>1. /\ cycle[d].pc = "pending"
        /\ \/ Goto(d, [cycle[d] EXCEPT !.pc = "readRemote"])
           \/ Goto(d, [cycle[d] EXCEPT !.pc = "retryRead", !.marked = TRUE, !.pending = NoPending])
    BY <1>6 DEF NothingPending, RetryPending, Jump, Goto, At
  <2>2. PICK c : /\ Goto(d, c)
                 /\ \/ c = [cycle[d] EXCEPT !.pc = "readRemote"]
                    \/ c = [cycle[d] EXCEPT !.pc = "retryRead", !.marked = TRUE, !.pending = NoPending]
    BY <2>1
  <2>3. /\ c.snapshot = cycle[d].snapshot /\ c.merged = cycle[d].merged
        /\ c.held = cycle[d].held /\ c.wroteLocal = cycle[d].wroteLocal
        /\ c.stale = cycle[d].stale /\ c.pc \in {"readRemote", "retryRead"}
    BY <1>1, <2>2 DEF Cycle
  <2>4. Onward(cycle[d].pc, c.pc, cycle[d].stale)
    BY <2>1, <2>3 DEF Onward
  <2>5. QED
    BY <1>2, <2>2, <2>3, <2>4, RunKeeps
<1>7. CASE ReadRemote(d)
  <2> DEFINE read == IF cycle[d].held # {} THEN cycle[d].held ELSE {remote.item}
             merged == Merged(cycle[d], read)
             direct == ~cycle[d].marked /\ cycle[d].matchesDisk /\ merged = cycle[d].snapshot
             pc == IF direct THEN "writeRemote" ELSE "writeLocal"
             compare == IF cycle[d].armed THEN {} ELSE read
             seen == IF cycle[d].armed THEN cycle[d].seen ELSE remote.version
             c == [cycle[d] EXCEPT !.pc = pc, !.held = {}, !.compare = compare,
                                   !.seen = seen, !.merged = merged, !.direct = direct]
  <2>1. Goto(d, c) /\ cycle[d].pc = "readRemote"
    BY <1>7 DEF ReadRemote, At
  <2>2. Shared(remote.item)
    BY <1>1, BelowIsOrder DEF Shared
  <2>3. read # {} /\ read \subseteq Copies /\ \A e \in read : Shared(e)
    BY <1>1, <2>2 DEF Imported
  <2>4. /\ merged \in Copies /\ Below(cycle[d].snapshot, merged)
        /\ merged = cycle[d].snapshot \/ Shared(merged)
    <3> DEFINE r == CHOOSE e \in read : TRUE
    <3>1. r \in Copies /\ Shared(r)
      BY <2>3
    <3> HIDE DEF r
    <3>2. merged = cycle[d].snapshot \/ merged = Winner(cycle[d].snapshot, r, clock)
      BY DEF Merged, r
    <3>3. Below(cycle[d].snapshot, cycle[d].snapshot)
      BY <1>1, BelowIsOrder
    <3>4. QED
      BY <1>1, <3>1, <3>2, <3>3, MergeOfCopies
  <2>5. pc \in {"writeRemote", "writeLocal"}
    OBVIOUS
  <2> HIDE DEF read, merged, direct, pc, compare, seen
  <2>6. /\ c.pc = pc /\ c.snapshot = cycle[d].snapshot /\ c.merged = merged
        /\ c.held = {} /\ c.stale = cycle[d].stale
    BY <1>1 DEF Cycle
  <2> HIDE DEF c
  <2>7. QED
    BY <1>2, <2>1, <2>4, <2>5, <2>6, MergeKeeps
<1>8. ~AcquireFence(d)
  BY DEF AcquireFence
<1>9. QED
  BY <1>3, <1>4, <1>5, <1>6, <1>7, <1>8 DEF Merges

\* Of two copies that one device made, the one with neither the lower revision
\* nor the earlier time is above.
LEMMA OwnIsBelow ==
    ASSUME NEW a \in Copy, NEW b \in Copy, a.revBy = b.revBy,
           a.updated <= b.updated, a.rev <= b.rev
    PROVE  Below(a, b)
BY DEF Below, Copy, Entity

\* A row that the upsert keeps is above the new one.
LEMMA UpsertIsAbove ==
    ASSUME NEW a \in Copy, NEW b \in Copy
    PROVE  Below(b, Upsert(a, b)) /\ (Upsert(a, b) = b => a.rev <= b.rev)
<1>1. Below(b, b) /\ a.rev \in Nat /\ b.rev \in Nat
  BY BelowIsOrder DEF Copy, Entity
<1>2. QED
  BY <1>1 DEF Upsert, Below

\* The newest edit of a device never replaces an unshared copy it does not cover.
LEMMA NewestCovers ==
    ASSUME TInv, LInv, NEW d \in Device, dirty[d] \/ cycle[d].stale,
           disk[d].item.rev <= memory[d].item.rev
    PROVE  Shared(disk[d].item) \/ Below(disk[d].item, memory[d].item)
<1>1. /\ Imported(d) /\ Newest(d)
      /\ {memory[d].item, disk[d].item} \subseteq Copies /\ Copies \subseteq Copy
  BY KeepsParts
<1>2. /\ Shared(disk[d].item) \/ disk[d].item.revBy = d
      /\ Shared(disk[d].item) \/ disk[d].item.updated <= memory[d].item.updated
      /\ memory[d].item.revBy = d
  BY <1>1 DEF Imported, Newest, Drafts
<1>3. QED
  BY <1>1, <1>2, OwnIsBelow

LEMMA PersistKeeps ==
    ASSUME TInv, LInv, MaxSyncRevision > 0, NEW d \in Device, Persist(d)
    PROVE  LInv'
<1>1. /\ Imported(d) /\ Newest(d) /\ Kept(d) /\ Covered(d) /\ Ordered(d) /\ clock \in Nat
      /\ {remote.item, best, memory[d].item, disk[d].item,
          cycle[d].snapshot, cycle[d].merged} \subseteq Copies
      /\ cycle[d].held \subseteq Copies /\ Copies \subseteq Copy
      /\ cycle[d] \in Run /\ cycle[d] \in Cycle /\ TypedCycle /\ TypedHolder
  BY KeepsParts
<1>2. cycle[d].pc = "persist" /\ UNCHANGED <<memory, remote, clock, best, dirty>>
  BY DEF Persist, At
<1>3. /\ disk'[d].item = Upsert(disk[d].item, cycle[d].merged)
      /\ disk'[d].item \in {disk[d].item, cycle[d].merged}
      /\ \A e \in Device : e # d => disk'[e] = disk[e]
  BY <1>1, Stored DEF Persist, Copies, Copy
<1>4. Below(cycle[d].merged, disk'[d].item)
  BY <1>1, <1>3, UpsertIsAbove
<1>5. Carried(d, memory[d].item) /\ Carried(d, disk[d].item)
  <2>1. Below(memory[d].item, memory'[d].item)
    BY <1>1, <1>2, BelowIsOrder
  <2>2. \/ Below(disk[d].item, remote.item) \/ Below(disk[d].item, memory[d].item)
        \/ Below(disk[d].item, cycle[d].merged)
    BY <1>1, <1>2 DEF Kept, Shared
  <2>3. Below(disk[d].item, cycle[d].merged) => Below(disk[d].item, disk'[d].item)
    BY <1>1, <1>3, <1>4, BelowIsOrder
  <2>4. QED
    BY <1>2, <2>1, <2>2, <2>3 DEF Carried
<1>6. CASE End(d)
  <2>1. cycle'[d] = Idle /\ \A e \in Device : e # d => cycle'[e] = cycle[e]
    BY <1>1, <1>6, EndTyped
  <2>2. QED
    BY <1>2, <1>3, <1>5, <2>1, EndKeeps
<1>7. ASSUME NEW c, Goto(d, c), c.snapshot = cycle[d].snapshot, c.merged = cycle[d].merged,
             c.held = cycle[d].held, c.stale = cycle[d].stale,
             \/ c.pc = "abortClear" /\ cycle[d].stale
             \/ c.pc \in {"writeRemote", "error", "finish"} /\ ~cycle[d].stale
      PROVE  LInv'
  <2>1. cycle'[d] = c /\ \A e \in Device : e # d => cycle'[e] = cycle[e]
    BY <1>1, <1>7, Moved
  <2>2. Copies' = Copies /\ \A e : Shared(e)' = Shared(e)
    BY <1>2 DEF Copies, Shared
  <2>3. Drafts(d)' \subseteq Drafts(d)
    BY <1>3, <1>7, <2>1 DEF Drafts
  <2>4. Imported(d)'
    BY <1>1, <1>2, <1>7, <2>1, <2>2, <2>3 DEF Imported
  <2>5. Newest(d)'
    BY <1>1, <1>2, <1>7, <2>1, <2>2, <2>3 DEF Newest
  <2>6. Kept(d)'
    <3>1. Below(cycle[d].merged, cycle[d].merged)
      BY <1>1, BelowIsOrder
    <3>2. CASE disk'[d].item = cycle[d].merged
      BY <1>7, <2>1, <3>1, <3>2 DEF Kept
    <3>3. CASE disk'[d].item = disk[d].item
      BY <1>1, <1>2, <1>7, <2>1, <2>2, <3>3 DEF Kept
    <3>4. QED
      BY <1>3, <3>2, <3>3
  <2>7. Covered(d)'
    <3>1. ~cycle[d].stale => Below(memory[d].item, cycle[d].merged)
      BY <1>1, <1>2 DEF Covered
    <3>2. ~cycle[d].stale => Below(memory[d].item, disk'[d].item)
      BY <1>1, <1>3, <1>4, <3>1, BelowIsOrder
    <3>3. QED
      BY <1>2, <1>7, <2>1, <3>1, <3>2 DEF Covered
  <2>8. Ordered(d)'
    BY <1>7, <2>1 DEF Ordered, Reading
  <2>9. Keeps(d)'
    BY <2>4, <2>5, <2>6, <2>7, <2>8 DEF Keeps
  <2>10. Below(remote.item, remote'.item) /\ remote'.item \in Copies
    BY <1>1, <1>2, BelowIsOrder
  <2>11. QED
    BY <1>1, <1>2, <1>3, <1>5, <2>1, <2>9, <2>10, KeepsStep
<1>8. CASE cycle[d].stale /\ ~End(d)
  <2> DEFINE c == [cycle[d] EXCEPT !.pc = "abortClear"]
  <2>1. Goto(d, c)
    BY <1>8 DEF Persist, LocalAbort, Jump, Goto
  <2>2. /\ c.pc = "abortClear" /\ c.snapshot = cycle[d].snapshot /\ c.merged = cycle[d].merged
        /\ c.held = cycle[d].held /\ c.stale = cycle[d].stale
    BY <1>1 DEF Cycle
  <2> HIDE DEF c
  <2>3. QED
    BY <1>7, <1>8, <2>1, <2>2
<1>9. CASE ~cycle[d].stale
  <2> DEFINE c == [cycle[d] EXCEPT !.pc = AfterPersist(cycle[d].write),
                                   !.matchesDisk = FALSE, !.wroteLocal = TRUE]
  <2>1. Goto(d, c)
    BY <1>9 DEF Persist
  <2>2. /\ c.pc \in {"writeRemote", "error", "finish"} /\ c.snapshot = cycle[d].snapshot
        /\ c.merged = cycle[d].merged /\ c.held = cycle[d].held /\ c.stale = cycle[d].stale
    BY <1>1, MarkersTyped DEF Cycle
  <2> HIDE DEF c
  <2>3. QED
    BY <1>7, <1>9, <2>1, <2>2
<1>10. QED
  BY <1>6, <1>8, <1>9

LEMMA WritesKeep ==
    ASSUME TInv, LInv, MaxSyncRevision > 0, ~Fenced, NEW d \in Device,
           Writes(d) \/ LeaseUnconfirmed(d) \/ UploadFails(d)
    PROVE  LInv'
<1>1. /\ Ordered(d) /\ clock \in Nat
      /\ {remote.item, memory[d].item, disk[d].item, cycle[d].merged} \subseteq Copies
      /\ Copies \subseteq Copy /\ cycle[d] \in Cycle /\ TypedCycle /\ TypedHolder
  BY KeepsParts
<1>2. CASE WriteLocal(d) \/ WriteRemote(d)
  <2>1. /\ UNCHANGED <<memory, disk, remote, clock, best, dirty>>
        /\ cycle[d].pc \in {"writeLocal", "writeRemote"}
    BY <1>2 DEF WriteLocal, WriteRemote, At, data, rest
  <2>2. CASE End(d)
    BY <2>1, <2>2, EndQuietly
  <2>3. CASE ~End(d)
    <3>1. PICK c : /\ Goto(d, c)
                   /\ \/ c = [cycle[d] EXCEPT !.pc = "abortClear"] /\ cycle[d].stale
                      \/ c = [cycle[d] EXCEPT !.pc = "persist"]
                      \/ c = [cycle[d] EXCEPT !.pc = "upload"]
      BY <1>2, <2>3 DEF WriteLocal, WriteRemote, LocalAbort, RemoteAbort, Jump, Goto
    <3>2. /\ c.snapshot = cycle[d].snapshot /\ c.merged = cycle[d].merged
          /\ c.held = cycle[d].held /\ c.wroteLocal = cycle[d].wroteLocal
          /\ c.stale = cycle[d].stale
          /\ c.pc \in {"persist", "upload"} \/ (c.pc = "abortClear" /\ cycle[d].stale)
      BY <1>1, <3>1 DEF Cycle
    <3>3. Onward(cycle[d].pc, c.pc, cycle[d].stale)
      BY <2>1, <3>2 DEF Onward
    <3>4. QED
      BY <2>1, <3>1, <3>2, <3>3, RunKeeps
  <2>4. QED
    BY <2>2, <2>3
<1>3. CASE AbortClear(d)
  <2>1. /\ UNCHANGED <<memory, remote, clock, best, dirty>> /\ End(d) /\ cycle[d].stale
        /\ UNCHANGED disk \/ Store(d, memory[d].item, NoPending)
    BY <1>1, <1>3 DEF AbortClear, Ordered, At
  <2>2. cycle'[d] = Idle /\ \A e \in Device : e # d => cycle'[e] = cycle[e]
    BY <1>1, <2>1, EndTyped
  <2>3. Below(memory[d].item, memory'[d].item)
    BY <1>1, <2>1, BelowIsOrder
  <2>4. CASE UNCHANGED disk
    BY <1>1, <2>1, <2>4, EndQuietly
  <2>5. CASE Store(d, memory[d].item, NoPending)
    <3>1. /\ disk'[d].item = Upsert(disk[d].item, memory[d].item)
          /\ disk'[d].item \in {disk[d].item, memory[d].item}
          /\ \A e \in Device : e # d => disk'[e] = disk[e]
      BY <1>1, <2>5, Stored DEF Copies, Copy
    <3>2. Carried(d, disk[d].item)
      <4>1. CASE disk'[d].item = disk[d].item
        BY <1>1, <4>1, BelowIsOrder DEF Carried
      <4>2. CASE disk'[d].item = memory[d].item
        <5>1. disk[d].item.rev <= memory[d].item.rev
          BY <1>1, <3>1, <4>2, UpsertIsAbove
        <5>2. QED
          BY <2>1, <5>1, NewestCovers DEF Carried, Shared
      <4>3. QED
        BY <3>1, <4>1, <4>2
    <3>3. Carried(d, memory[d].item)
      BY <2>3 DEF Carried
    <3>4. QED
      BY <2>1, <2>2, <3>1, <3>2, <3>3, EndKeeps
  <2>6. QED
    BY <2>1, <2>4, <2>5
<1>4. CASE UploadSkipped(d) \/ Upload(d) \/ UploadFails(d)
  <2>1. /\ UNCHANGED remote \/ remote'.item = Winner(remote.item, cycle[d].merged, clock)
        /\ UNCHANGED <<memory, disk, clock, best, dirty>> /\ cycle[d].pc = "upload"
    BY <1>4 DEF UploadSkipped, Upload, UploadFails, RetryLater, Put, At, data, rest
  <2>2. PICK c : /\ Goto(d, c)
                 /\ \/ c = Uploaded(cycle[d])
                    \/ c = [Uploaded(cycle[d]) EXCEPT !.wrote = remote'.version,
                                !.serverMerged = remote'.item # cycle[d].merged]
                    \/ c = [cycle[d] EXCEPT !.pc = "writeLocal", !.write = "retry"]
    BY <1>4 DEF UploadSkipped, Upload, UploadFails, RetryLater
  <2>3. /\ c.pc \in {"finish", "writeLocal"} /\ c.snapshot = cycle[d].snapshot
        /\ c.merged = cycle[d].merged /\ c.held = cycle[d].held /\ c.stale = cycle[d].stale
        /\ c.wroteLocal = cycle[d].wroteLocal
    BY <1>1, <2>2 DEF Cycle, Uploaded
  <2>4. Onward(cycle[d].pc, c.pc, cycle[d].stale)
    BY <2>1, <2>3 DEF Onward
  <2>5. QED
    BY <2>1, <2>2, <2>3, <2>4, RunKeeps
<1>5. ~(LeaseLost(d) \/ LeaseUnconfirmed(d) \/ UploadConflict(d) \/ UploadLeaseLost(d))
  BY DEF LeaseLost, LeaseUnconfirmed, UploadConflict, UploadLeaseLost, HoldsLease
<1>6. QED
  BY <1>2, <1>3, <1>4, <1>5, PersistKeeps DEF Writes

LEMMA FinishesKeep ==
    ASSUME TInv, LInv, MaxSyncRevision > 0, NEW d \in Device, Finishes(d)
    PROVE  LInv'
<1>1. /\ Covered(d) /\ Ordered(d)
      /\ {remote.item, memory[d].item, disk[d].item, cycle[d].merged} \subseteq Copies
      /\ Copies \subseteq Copy /\ cycle[d] \in Cycle /\ TypedCycle /\ TypedHolder
      /\ dirty[d] \in BOOLEAN /\ cycle[d].stale \in BOOLEAN
  BY KeepsParts
<1>2. memory \in [Device -> Document] /\ Below(disk[d].item, disk[d].item)
      /\ Below(remote.item, remote.item)
  BY <1>1, TypeParts, BelowIsOrder DEF TypedData
<1>3. CASE FinishStale(d) \/ RefreshSkipped(d)
  BY <1>3, EndQuietly DEF FinishStale, RefreshSkipped, data, rest
<1>4. CASE RefreshAtOnce(d) \/ Apply(d)
  <2>1. /\ TakeOver(d) /\ ~dirty[d]
        /\ \/ cycle[d].pc = "refresh" /\ ~cycle[d].stale
           \/ cycle[d].pc = "apply"
    BY <1>4 DEF RefreshAtOnce, Apply, At
  <2>2. UNCHANGED <<disk, remote, clock, best, dirty>> /\ End(d)
    BY <2>1 DEF TakeOver
  <2>3. memory'[d].item = cycle[d].merged /\ \A e \in Device : e # d => memory'[e] = memory[e]
    BY <1>2, <2>1 DEF TakeOver
  <2>4. Below(memory[d].item, cycle[d].merged) \/ Below(memory[d].item, disk[d].item)
    BY <1>1, <2>1 DEF Covered
  <2>5. Carried(d, memory[d].item) /\ Carried(d, disk[d].item)
    BY <1>2, <2>2, <2>3, <2>4 DEF Carried
  <2>6. cycle'[d] = Idle /\ \A e \in Device : e # d => cycle'[e] = cycle[e]
    BY <1>1, <2>2, EndTyped
  <2>7. QED
    BY <2>1, <2>2, <2>3, <2>5, <2>6, EndKeeps
<1>5. CASE Reload(d)
  <2>1. UNCHANGED <<disk, remote, clock, best, dirty>> /\ End(d) /\ cycle[d].pc = "reload"
    BY <1>5 DEF Reload, At
  <2>2. CASE cycle[d].stale
    BY <1>5, <2>1, <2>2, EndQuietly DEF Reload
  <2>3. CASE ~cycle[d].stale
    <3>1. memory'[d] = disk[d] /\ \A e \in Device : e # d => memory'[e] = memory[e]
      BY <1>2, <1>5, <2>3 DEF Reload
    <3>2. ~dirty[d] /\ Below(memory[d].item, disk[d].item)
      BY <1>1, <2>1, <2>3 DEF Ordered, Covered
    <3>3. Carried(d, memory[d].item) /\ Carried(d, disk[d].item)
      BY <1>2, <2>1, <3>2 DEF Carried
    <3>4. cycle'[d] = Idle /\ \A e \in Device : e # d => cycle'[e] = cycle[e]
      BY <1>1, <2>1, EndTyped
    <3>5. QED
      BY <2>1, <3>1, <3>2, <3>3, <3>4, EndKeeps
  <2>4. QED
    BY <2>2, <2>3
<1>6. CASE RecordFast(d) \/ Refresh(d)
  <2>1. UNCHANGED <<memory, disk, remote, clock, best, dirty>>
    BY <1>6 DEF RecordFast, Refresh, data, rest
  <2>2. PICK c : /\ Goto(d, c)
                 /\ \/ c = [cycle[d] EXCEPT !.pc = "refresh"] /\ cycle[d].pc = "finish"
                    \/ /\ c = [cycle[d] EXCEPT !.pc = "apply"]
                       /\ cycle[d].pc = "refresh" /\ ~cycle[d].stale
    BY <1>6 DEF RecordFast, Refresh, Jump, Goto, At
  <2>3. /\ c.snapshot = cycle[d].snapshot /\ c.merged = cycle[d].merged
        /\ c.held = cycle[d].held /\ c.wroteLocal = cycle[d].wroteLocal
        /\ c.stale = cycle[d].stale
        /\ \/ c.pc = "refresh" /\ cycle[d].pc = "finish"
           \/ c.pc = "apply" /\ cycle[d].pc = "refresh" /\ ~cycle[d].stale
    BY <1>1, <2>2 DEF Cycle
  <2>4. Onward(cycle[d].pc, c.pc, cycle[d].stale)
    BY <2>3 DEF Onward
  <2>5. QED
    BY <2>1, <2>2, <2>3, <2>4, RunKeeps
<1>7. CASE ReloadStart(d)
  <2> DEFINE c == [cycle[d] EXCEPT !.pc = "reload", !.stale = FALSE]
  <2>1. /\ UNCHANGED <<memory, disk, remote, clock, best, dirty>> /\ Goto(d, c)
        /\ cycle[d].pc = "error" /\ ~dirty[d]
    BY <1>7 DEF ReloadStart, At, data, rest
  <2>2. /\ c.snapshot = cycle[d].snapshot /\ c.merged = cycle[d].merged
        /\ c.held = cycle[d].held /\ c.wroteLocal = cycle[d].wroteLocal
        /\ ~c.stale /\ c.pc = "reload"
    BY <1>1 DEF Cycle
  <2> HIDE DEF c
  <2>3. cycle'[d] = c /\ \A e \in Device : e # d => cycle'[e] = cycle[e]
    BY <1>1, <2>1, Moved
  <2>4. QED
    BY <1>1, <1>2, <2>1, <2>2, <2>3, SameCopies
<1>8. QED
  BY <1>3, <1>4, <1>5, <1>6, <1>7 DEF Finishes

LEMMA EditKeeps ==
    ASSUME TInv, LInv, NEW d \in Device, Edit(d)
    PROVE  LInv'
<1>1. /\ Imported(d) /\ Newest(d) /\ Kept(d) /\ Covered(d) /\ Ordered(d) /\ clock \in Nat
      /\ {remote.item, best, memory[d].item, disk[d].item,
          cycle[d].snapshot, cycle[d].merged} \subseteq Copies
      /\ cycle[d].held \subseteq Copies /\ Copies \subseteq Copy
      /\ cycle[d] \in Cycle
  BY KeepsParts
<1>2. TypedData /\ TypedCycle /\ TypedRest /\ memory[d].item \in Entity /\ d \in Nat
  BY TypeParts, CycleAssumption DEF TypedData, Document
<1> DEFINE item == [memory[d].item EXCEPT !.content = d]
           new == Stamp(item, d)
<1>3. /\ new \in Copies /\ new.revBy = d /\ new.updated = clock
      /\ memory[d].item.revBy = d => Below(memory[d].item, new)
  BY <1>1, StampIsAbove
<1>4. item \in Entity /\ Change(d, item)
  BY <1>2 DEF Edit, Entity
<1> HIDE DEF item
<1>5. /\ memory'[d].item = new
      /\ \A e \in Device : e # d => memory'[e] = memory[e] /\ cycle'[e] = cycle[e]
      /\ cycle'[d] = [cycle[d] EXCEPT !.stale = cycle[d].pc # "idle"]
  BY <1>2, <1>4, ChangeTyped
<1>6. /\ UNCHANGED <<clock, disk, remote, best>> /\ dirty'[d]
      /\ \A e \in Device : e # d => dirty'[e] = dirty[e]
  BY <1>2, <1>4 DEF Change, TypedData
<1> HIDE DEF new
<1>7. /\ cycle'[d].pc = cycle[d].pc /\ cycle'[d].snapshot = cycle[d].snapshot
      /\ cycle'[d].merged = cycle[d].merged /\ cycle'[d].held = cycle[d].held
      /\ cycle'[d].stale = (cycle[d].pc # "idle") /\ cycle'[d].wroteLocal = cycle[d].wroteLocal
  BY <1>1, <1>5 DEF Cycle
<1>8. /\ Copies' = Copies /\ Drafts(d)' = Drafts(d) /\ \A e : Shared(e)' = Shared(e)
      /\ Drafts(d) \subseteq Copies
  BY <1>1, <1>6, <1>7 DEF Copies, Drafts, Shared
<1>9. Shared(memory[d].item) \/ Below(memory[d].item, new)
  BY <1>1, <1>3 DEF Imported
<1>10. Imported(d)'
  BY <1>1, <1>3, <1>5, <1>7, <1>8 DEF Imported
<1>11. Newest(d)'
  <2>1. \A e \in Copies : e.updated <= new.updated
    BY <1>3 DEF Copies
  <2>2. QED
    BY <1>3, <1>5, <1>8, <2>1 DEF Newest
<1>12. Kept(d)'
  <2>1. Below(disk[d].item, memory[d].item) => Shared(disk[d].item) \/ Below(disk[d].item, new)
    BY <1>1, <1>3, <1>9, BelowIsOrder DEF Shared
  <2>2. QED
    BY <1>1, <1>5, <1>6, <1>7, <1>8, <2>1 DEF Kept
<1>13. Covered(d)' /\ Ordered(d)'
  BY <1>1, <1>6, <1>7 DEF Covered, Ordered
<1>14. Carried(d, memory[d].item) /\ Carried(d, disk[d].item)
  BY <1>1, <1>5, <1>6, <1>9, BelowIsOrder DEF Carried, Shared
<1>15. Keeps(d)'
  BY <1>10, <1>11, <1>12, <1>13 DEF Keeps
<1>16. Below(remote.item, remote'.item) /\ remote'.item \in Copies
  BY <1>1, <1>6, BelowIsOrder
<1>17. QED
  BY <1>1, <1>5, <1>6, <1>14, <1>15, <1>16, KeepsStep

LEMMA FlushKeeps ==
    ASSUME TInv, LInv, NEW d \in Device, Flush(d)
    PROVE  LInv'
<1>1. /\ Imported(d) /\ Newest(d) /\ Kept(d) /\ Covered(d) /\ Ordered(d) /\ clock \in Nat
      /\ {remote.item, best, memory[d].item, disk[d].item,
          cycle[d].snapshot, cycle[d].merged} \subseteq Copies
      /\ cycle[d].held \subseteq Copies /\ Copies \subseteq Copy
  BY KeepsParts
<1>2. TypedData
  BY TypeParts
<1>3. /\ UNCHANGED <<clock, memory, cycle, remote>> /\ dirty[d] /\ ~dirty'[d]
      /\ \A e \in Device : e # d => dirty'[e] = dirty[e]
      /\ best' = Winner(best, memory[d].item, clock)
  BY <1>2 DEF Flush, TypedData
<1>4. PICK pending \in {disk[d].pending, memory[d].pending} : Store(d, memory[d].item, pending)
  BY DEF Flush
<1>5. /\ disk'[d].item = Upsert(disk[d].item, memory[d].item)
      /\ disk'[d].item \in {disk[d].item, memory[d].item}
      /\ \A e \in Device : e # d => disk'[e] = disk[e]
  BY <1>1, <1>4, Stored DEF Copies, Copy
<1>6. /\ Below(memory[d].item, disk'[d].item) /\ Below(memory[d].item, memory[d].item)
      /\ Below(disk[d].item, disk[d].item)
  BY <1>1, <1>5, UpsertIsAbove, BelowIsOrder
<1>7. /\ Copies' = Copies /\ \A e : Shared(e)' = Shared(e)
      /\ Drafts(d)' \subseteq Drafts(d) \cup {memory[d].item}
  BY <1>3, <1>5 DEF Copies, Drafts, Shared
<1>8. Imported(d)'
  BY <1>1, <1>3, <1>7 DEF Imported
<1>9. Newest(d)'
  <2>1. memory[d].item.updated \in Nat
    BY <1>1 DEF Copy
  <2>2. QED
    BY <1>1, <1>3, <1>7, <2>1 DEF Newest
<1>10. Kept(d)'
  <2>1. CASE disk'[d].item = memory[d].item
    BY <1>3, <1>6, <2>1 DEF Kept
  <2>2. CASE disk'[d].item = disk[d].item
    BY <1>1, <1>3, <1>7, <2>2 DEF Kept
  <2>3. QED
    BY <1>5, <2>1, <2>2
<1>11. Covered(d)' /\ Ordered(d)'
  BY <1>1, <1>3, <1>6 DEF Covered, Ordered
<1>12. Carried(d, disk[d].item)
  <2>1. CASE disk'[d].item = disk[d].item
    BY <1>6, <2>1 DEF Carried
  <2>2. CASE disk'[d].item = memory[d].item
    <3>1. disk[d].item.rev <= memory[d].item.rev
      BY <1>1, <1>5, <2>2, UpsertIsAbove
    <3>2. QED
      BY <1>3, <3>1, NewestCovers DEF Carried, Shared
  <2>3. QED
    BY <1>5, <2>1, <2>2
<1>13. Carried(d, memory[d].item)
  BY <1>6 DEF Carried
<1>14. Keeps(d)'
  BY <1>8, <1>9, <1>10, <1>11 DEF Keeps
<1>15. Below(remote.item, remote'.item) /\ remote'.item \in Copies
  BY <1>1, <1>3, BelowIsOrder
<1>16. QED
  BY <1>1, <1>3, <1>5, <1>12, <1>13, <1>14, <1>15, KeepsStep

LEMMA OthersKeep ==
    ASSUME TInv, LInv, NoDeletion, NoDeletion', NoCrash, NoCrash',
           \/ \E d \in Device : Edit(d) \/ Delete(d) \/ Flush(d) \/ Crash(d) \/ BackoffEnds(d)
           \/ LeaseExpires \/ LeaseLapses \/ Tick \/ UNCHANGED vars
    PROVE  LInv'
<1>1. TypedCycle /\ TypedData /\ TypedRest /\ clock \in Nat
  BY TypeParts, CycleAssumption DEF TypedRest
<1>2. CASE LeaseExpires \/ LeaseLapses \/ Tick \/ UNCHANGED vars
  <2>1. /\ UNCHANGED <<cycle, memory, disk, dirty, remote, best>>
        /\ clock' \in Nat /\ clock <= clock'
    BY <1>1, <1>2 DEF LeaseExpires, LeaseLapses, Tick, vars, data, rest
  <2>2. Copies \subseteq Copies'
    BY <1>1, <2>1 DEF Copies, Copy
  <2>3. Saved'
    BY <2>1 DEF LInv, Saved, Shared
  <2>4. ASSUME NEW d \in Device PROVE Keeps(d)'
    <3>1. Imported(d) /\ Newest(d) /\ Kept(d) /\ Covered(d) /\ Ordered(d)
      BY KeepsParts
    <3>2. Drafts(d)' = Drafts(d) /\ \A e : Shared(e)' = Shared(e)
      BY <2>1 DEF Drafts, Shared
    <3>3. Imported(d)'
      BY <2>1, <2>2, <3>1, <3>2 DEF Imported
    <3>4. Newest(d)' /\ Kept(d)'
      BY <2>1, <3>1, <3>2 DEF Newest, Kept
    <3>5. Covered(d)' /\ Ordered(d)'
      BY <2>1, <3>1 DEF Covered, Ordered
    <3>6. QED
      BY <3>3, <3>4, <3>5 DEF Keeps
  <2>5. QED
    BY <2>1, <2>2, <2>3, <2>4 DEF LInv
<1>3. ASSUME NEW d \in Device, Delete(d) PROVE LInv'
  <2>1. budget.removals \in [Device -> Nat] /\ budget'.removals[d] = budget.removals[d] - 1
    BY <1>1, <1>3 DEF Delete, TypedRest
  <2>2. QED
    BY <2>1 DEF NoDeletion
<1>4. ASSUME NEW d \in Device, Crash(d) PROVE LInv'
  <2>1. budget.crashes \in Nat /\ budget'.crashes = budget.crashes - 1
    BY <1>1, <1>4 DEF Crash, TypedRest
  <2>2. QED
    BY <2>1 DEF NoCrash
<1>5. ASSUME NEW d \in Device, BackoffEnds(d) PROVE LInv'
  <2>1. /\ memory \in [Device -> Document] /\ disk \in [Device -> Document]
        /\ cycle[d] \in Cycle /\ UNCHANGED <<clock, best, dirty, remote>>
    BY <1>1, <1>5 DEF TypedData, TypedCycle, Run, BackoffEnds
  <2>2. memory'[d].item = memory[d].item /\ \A e \in Device : e # d => memory'[e] = memory[e]
    BY <1>5, <2>1 DEF BackoffEnds, Document
  <2>3. disk'[d].item = disk[d].item /\ \A e \in Device : e # d => disk'[e] = disk[e]
    BY <1>5, <2>1 DEF BackoffEnds, Document
  <2> DEFINE c == [cycle[d] EXCEPT !.pending.retry = FALSE]
  <2>4. Goto(d, c)
    BY <1>5 DEF BackoffEnds, Goto
  <2>5. /\ c.pc = cycle[d].pc /\ c.snapshot = cycle[d].snapshot
        /\ c.merged = cycle[d].merged /\ c.held = cycle[d].held /\ c.stale = cycle[d].stale
        /\ c.wroteLocal = cycle[d].wroteLocal
    BY <2>1 DEF Cycle
  <2> HIDE DEF c
  <2>6. cycle'[d] = c /\ \A e \in Device : e # d => cycle'[e] = cycle[e]
    BY <1>1, <2>4, Moved
  <2>7. remote'.item \in Copies /\ Below(remote.item, remote'.item)
    BY <2>1, KeepsParts, BelowIsOrder
  <2>8. QED
    BY <2>1, <2>2, <2>3, <2>5, <2>6, <2>7, SameCopies
<1>6. QED
  BY <1>2, <1>3, <1>4, <1>5, EditKeeps, FlushKeeps

\* On the merging server, as long as no app is killed and nothing is deleted: the
\* winner of all saved edits, or a later copy, is with some device or in the
\* shared document, although runs with stale snapshots write to storage, to the
\* server and to the store, fail, and are taken up again.
THEOREM EditsAreKept ==
    ASSUME ~Fenced, MaxSyncRevision > 0
    PROVE  Spec /\ []NoDeletion /\ []NoCrash => []NoLostEdit
<1>1. Init => LInv
  <2> SUFFICES ASSUME Init PROVE LInv
    OBVIOUS
  <2>1. /\ \A d \in Device : /\ cycle[d] = Idle /\ memory[d].item = Created
                             /\ disk[d].item = Created /\ ~dirty[d]
        /\ remote.item = Created /\ best = Created /\ clock = 0
    BY DEF Init
  <2>2. Created \in Copies /\ Below(Created, Created)
    BY <2>1, CreatedIsBelow
  <2>3. ASSUME NEW d \in Device PROVE Keeps(d)
    <3>1. /\ cycle[d].pc = "idle" /\ cycle[d].snapshot = Created /\ cycle[d].merged = Created
          /\ cycle[d].held = {} /\ ~cycle[d].stale /\ ~cycle[d].wroteLocal
      BY <2>1 DEF Idle
    <3>2. Drafts(d) = {Created}
      BY <2>1, <3>1 DEF Drafts
    <3>3. Imported(d)
      BY <2>1, <2>2, <3>1, <3>2 DEF Imported, Shared
    <3>4. Newest(d) /\ Kept(d) /\ Covered(d) /\ Ordered(d)
      BY <2>1, <3>1 DEF Newest, Kept, Covered, Ordered
    <3>5. QED
      BY <3>3, <3>4 DEF Keeps
  <2>4. QED
    BY <2>1, <2>2, <2>3 DEF LInv, Saved, Shared
<1>2. ASSUME TInv, LInv, NoDeletion, NoDeletion', NoCrash, NoCrash', [Next]_vars PROVE LInv'
  BY <1>2, ReadsKeep, MergesKeep, WritesKeep, FinishesKeep, OthersKeep DEF Next, Runs
<1>3. TInv /\ LInv /\ NoDeletion /\ NoDeletion' /\ NoCrash /\ NoCrash' /\ [Next]_vars => LInv'
  BY <1>2
<1>4. TInv /\ LInv => NoLostEdit
  <2> SUFFICES ASSUME TInv, LInv PROVE NoLostEdit
    OBVIOUS
  <2>1. clock \in Nat /\ best \in Copies /\ remote.item \in Copies
    BY TypeParts, CycleAssumption DEF TypedRest, LInv
  <2>2. \A d \in Device : memory[d].item \in Copies /\ disk[d].item \in Copies
    BY KeepsParts
  <2>3. \A e \in Copies : Below(best, e) => Beats(e, best)
    BY <2>1, WinnerIsTop DEF Beats
  <2>4. QED
    BY <2>1, <2>2, <2>3 DEF LInv, Saved, Shared, NoLostEdit
<1>5. Init => TInv
  BY InitTyped
<1>6. TInv /\ [Next]_vars => TInv'
  BY NextTyped
<1>7. QED
  BY <1>1, <1>3, <1>4, <1>5, <1>6, PTL DEF Spec
=============================================================================
